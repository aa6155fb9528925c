------------------------------ MODULE PollerProofs ------------------------------
(***************************************************************************)
(* What ConnectionStream says of the stream, and what Poller says of the   *)
(* process around it, holds for every set of hosts, loops and              *)
(* configuration files, every number of connections and every capacity of  *)
(* the channels.  The stream comes first, on its own; the process then     *)
(* keeps the stream's invariant, since all that it adds to the stream is   *)
(* the cancellation and the look-ups that fail.                            *)
(***************************************************************************)
EXTENDS Poller, FiniteSetTheorems, TLAPS

USE SizesAssumption, BoundsAssumption, PollerSizesAssumption

-----------------------------------------------------------------------------
(***************************************************************************)
(* The inductive invariant: how far a host is in runHostConnection, what   *)
(* it has sent, and what the coordinator has taken belong together.        *)
(***************************************************************************)

\* A connection is registered once, when it was authenticated; a host that is past its
\* first dial has a connection.
Phases ==
  \A h \in Host :
    /\ host[h] = "registering" => authenticated[h] = "closed"
    /\ open[h] \/ host[h] \notin {"starting", "done"} => number[h] > 0

\* What is in the channel is about connections that exist; about the latest one only
\* if its go routine has come that far.
Sent ==
  \A i \in DOMAIN registrations :
    LET r == registrations[i]
    IN  /\ r.conn <= number[r.qry]
        /\ r.conn = number[r.qry] =>
             IF r.register THEN authenticated[r.qry] = "consumed" ELSE host[r.qry] \in {"sleeping", "done"}

\* r is followed by s in the channel: s is about a later connection, or it is the
\* deregistration of what r registers.
Precedes(r, s) == r.conn < s.conn \/ (r.conn = s.conn /\ r.register /\ ~s.register)

InOrder ==
  \A i, j \in DOMAIN registrations :
    i < j /\ registrations[i].qry = registrations[j].qry => Precedes(registrations[i], registrations[j])

\* What is registered is older than what is in the channel.
Taken ==
  \A h \in Registered :
    /\ conns[h] <= number[h]
    /\ conns[h] = number[h] => authenticated[h] = "consumed"
    /\ \A i \in DOMAIN registrations :
         registrations[i].qry = h => Precedes([register |-> TRUE, qry |-> h, conn |-> conns[h]], registrations[i])

\* The go routine of h is still to send the deregistration of connection n.
Watched(h, n) == host[h] \in {"connected", "deregistering", "done"} /\ n = number[h]

\* A registration in the channel is followed by its deregistration, unless its go
\* routine is still to send that.
StagedIsWatched ==
  \A i \in DOMAIN registrations :
    registrations[i].register =>
      \/ Watched(registrations[i].qry, registrations[i].conn)
      \/ \E j \in DOMAIN registrations :
           /\ i < j /\ ~registrations[j].register
           /\ registrations[j].qry = registrations[i].qry /\ registrations[j].conn = registrations[i].conn

MapInv == Phases /\ Sent /\ InOrder /\ Taken /\ StagedIsWatched /\ RegisteredIsWatched

IInv == TypeOK /\ MapInv

\* The state that NewConnectionStream and Connect make satisfies the invariant.
LEMMA InitIInv == Init => IInv
<1> SUFFICES ASSUME Init PROVE IInv
  OBVIOUS
<1>1. registrations \in Seq(Registration) /\ Len(registrations) = 0 /\ DOMAIN registrations = {}
  BY DEF Init
<1>2. TypeOK
  BY <1>1 DEF Init, TypeOK, HostState, CoordinatorState
<1>3. Registered = {}
  BY DEF Init, Registered
<1> QED
  BY <1>1, <1>2, <1>3 DEF Init, IInv, MapInv, Phases, Sent, InOrder, Taken, StagedIsWatched, RegisteredIsWatched

-----------------------------------------------------------------------------
(***************************************************************************)
(* Types.                                                                  *)
(***************************************************************************)

\* What a send leaves in the channel, and what a receive does.
LEMMA SendFacts ==
  ASSUME TypeOK, NEW h \in Host, NEW register \in BOOLEAN, number[h] > 0, Send(h, register),
         NEW r, r = [register |-> register, qry |-> h, conn |-> number[h]]
  PROVE  /\ r \in Registration
         /\ registrations' \in Seq(Registration) /\ Len(registrations') <= registrationsChannelSize
         /\ Len(registrations) \in Nat
         /\ DOMAIN registrations = 1 .. Len(registrations)
         /\ DOMAIN registrations' = 1 .. (Len(registrations) + 1)
         /\ \A i \in DOMAIN registrations : registrations'[i] = registrations[i]
         /\ registrations'[Len(registrations) + 1] = r
<1>1. r \in Registration
  BY DEF Registration, TypeOK
<1>2. registrations \in Seq(Registration) /\ registrations' = Append(registrations, r)
  BY DEF TypeOK, Send
<1> QED
  BY <1>1, <1>2 DEF Send

\* What the coordinator's receive leaves in registrations.
LEMMA ReceiveFacts ==
  ASSUME TypeOK, registrations # <<>>, registrations' = Tail(registrations)
  PROVE  /\ Head(registrations) \in Registration /\ Head(registrations) = registrations[1]
         /\ registrations' \in Seq(Registration) /\ Len(registrations') <= registrationsChannelSize
         /\ 1 \in DOMAIN registrations
         /\ DOMAIN registrations = 1 .. Len(registrations)
         /\ DOMAIN registrations' = 1 .. (Len(registrations) - 1)
         /\ \A i \in DOMAIN registrations' : i + 1 \in DOMAIN registrations /\ registrations'[i] = registrations[i + 1]
         /\ \A i \in DOMAIN registrations : i > 1 => i - 1 \in DOMAIN registrations' /\ registrations'[i - 1] = registrations[i]
<1>1. registrations \in Seq(Registration) /\ Len(registrations) <= registrationsChannelSize
  BY DEF TypeOK
<1>2. Len(registrations) \in Nat \ {0}
  BY <1>1
<1> QED
  BY <1>1, <1>2

\* runHostConnection keeps the types.
LEMMA HostTypes ==
  ASSUME TypeOK, Phases, NEW h \in Host, HostStep(h)
  PROVE  TypeOK'
<1> USE DEF TypeOK, HostState
<1>1. CASE Register(h) \/ Deregister(h)
  <2>1. number[h] > 0
    BY <1>1 DEF Phases, Register, Deregister
  <2>2. PICK register \in BOOLEAN : Send(h, register)
    BY <1>1 DEF Register, Deregister
  <2>3. registrations' \in Seq(Registration) /\ Len(registrations') <= registrationsChannelSize
    BY <2>1, <2>2, SendFacts
  <2> QED
    BY <1>1, <2>3 DEF Register, Deregister, others, sessionVars, coordinatorVars
<1>2. CASE CreateConnection(h)
  BY <1>2 DEF CreateConnection, others, sessionVars, coordinatorVars
<1>3. CASE DialSucceeds(h) \/ DialFails(h) \/ SeeAuthenticated(h) \/ SeeDone(h) \/ HostExits(h)
  BY <1>3 DEF DialSucceeds, DialFails, SeeAuthenticated, SeeDone, HostExits, others, sessionVars, coordinatorVars
<1> QED
  BY <1>1, <1>2, <1>3 DEF HostStep

\* So do the sessions.
LEMMA SessionTypes ==
  ASSUME TypeOK, Phases, NEW h \in Host, SessionStep(h) \/ SendFrame(h)
  PROVE  TypeOK'
<1> USE DEF TypeOK, hostVars, sessionVars, coordinatorVars
<1>1. CASE Measure(h)
  <2>1. <<h, number[h]>> \in Conn
    BY <1>1 DEF Measure, Phases, Conn
  <2> QED
    BY <1>1, <2>1 DEF Measure
<1>2. CASE SendFrame(h) \/ WriteReturns(h)
  <2>1. <<h, number[h]>> \in Conn /\ sendCh[<<h, number[h]>>] > 0
    BY <1>2 DEF SendFrame, WriteReturns, Phases, Conn
  <2>2. sendCh' = [sendCh EXCEPT ![<<h, number[h]>>] = @ - 1]
    BY <1>2 DEF SendFrame, WriteReturns
  <2>3. sendCh[<<h, number[h]>>] - 1 \in 0 .. sendChannelSize
    BY <2>1, SizesAssumption
  <2>4. sendCh' \in [Conn -> 0 .. sendChannelSize]
    BY <2>1, <2>2, <2>3
  <2>5. stalled' \subseteq Host
    BY <1>2 DEF SendFrame, WriteReturns
  <2> QED
    BY <1>2, <2>4, <2>5 DEF SendFrame, WriteReturns
<1>3. CASE Authenticate(h) \/ WriteBlocks(h) \/ SessionEnds(h)
  BY <1>3 DEF Authenticate, WriteBlocks, SessionEnds, others
<1> QED
  BY <1>1, <1>2, <1>3 DEF SessionStep

\* And the coordinator, the schedulers and the process.
LEMMA CoordinatorTypes ==
  ASSUME TypeOK,
         \/ DropMetrics \/ RouteMetrics \/ StageMetrics \/ TakeRegistration \/ LoseAll \/ CoordinatorExits
         \/ ProduceMetrics \/ SchedulerResets \/ Cancel
  PROVE  TypeOK'
<1> USE DEF TypeOK, CoordinatorState, hostVars, sessionVars, coordinatorVars
<1>1. CASE TakeRegistration
  <2>1. /\ Head(registrations) \in Registration
        /\ registrations' \in Seq(Registration) /\ Len(registrations') <= registrationsChannelSize
    BY <1>1, ReceiveFacts DEF TakeRegistration
  <2>2. PICK r \in Registration : registerConnection(r) \/ deregisterConnection(r)
    BY <1>1, <2>1 DEF TakeRegistration
  <2>3. conns' \in [Host -> 0 .. MaxConnections] /\ coordinator' \in CoordinatorState
    <3>1. r.qry \in Host /\ r.conn \in 0 .. MaxConnections
      BY DEF Registration
    <3>2. CASE registerConnection(r)
      BY <3>1, <3>2 DEF registerConnection
    <3>3. CASE deregisterConnection(r)
      BY <3>1, <3>3 DEF deregisterConnection
    <3> QED
      BY <2>2, <3>2, <3>3
  <2> QED
    BY <1>1, <2>1, <2>3 DEF TakeRegistration
<1>2. CASE RouteMetrics
  BY <1>2 DEF RouteMetrics, Best
<1>3. CASE StageMetrics
  <2>1. sendCh' \in [Conn -> 0 .. sendChannelSize]
    <3>1. \A c \in Conn : sendCh'[c] = IF c = target THEN sendCh[c] + 1 ELSE sendCh[c]
      BY <1>3 DEF StageMetrics
    <3>2. \A c \in Conn : sendCh'[c] \in 0 .. sendChannelSize
      BY <1>3, <3>1 DEF StageMetrics
    <3> QED
      BY <1>3, <3>2 DEF StageMetrics
  <2> QED
    BY <1>3, <2>1 DEF StageMetrics
<1>4. CASE DropMetrics
  BY <1>4 DEF DropMetrics
<1>5. CASE LoseAll
  BY <1>5 DEF LoseAll
<1>6. CASE CoordinatorExits
  BY <1>6 DEF CoordinatorExits
<1>7. CASE ProduceMetrics
  BY <1>7 DEF ProduceMetrics
<1>8. CASE SchedulerResets
  BY <1>8 DEF SchedulerResets
<1>9. CASE Cancel
  BY <1>9 DEF Cancel
<1> QED
  BY <1>1, <1>2, <1>3, <1>4, <1>5, <1>6, <1>7, <1>8, <1>9

-----------------------------------------------------------------------------
(***************************************************************************)
(* The map, the channel and the hosts.                                     *)
(***************************************************************************)

\* A step of the host x that sends nothing, or none: it does not take back what x has
\* sent, and gives up a connection only if it is not registered.
Moves(x) ==
  /\ number'[x] \in Nat /\ number'[x] >= number[x]
  /\ number'[x] = number[x] =>
       /\ authenticated[x] = "consumed" => authenticated'[x] = "consumed"
       /\ host[x] \in {"sleeping", "done"} => host'[x] \in {"sleeping", "done"}
  /\ host[x] \in {"connected", "deregistering", "done"} /\ authenticated[x] = "consumed" =>
       host'[x] \in {"connected", "deregistering", "done"} /\ number'[x] = number[x]

\* What waits in registrations is a registration.
LEMMA EntryType ==
  ASSUME TypeOK, NEW i \in DOMAIN registrations
  PROVE  registrations[i] \in Registration
  BY DEF TypeOK

\* A step that neither sends, receives nor changes conns preserves what relates them to the hosts.
LEMMA SilentMap ==
  ASSUME TypeOK, MapInv, UNCHANGED <<registrations, conns>>, Phases', \A x \in Host : Moves(x)
  PROVE  MapInv'
<1>1. \A i \in DOMAIN registrations :
        registrations[i].qry \in Host /\ registrations[i].conn \in 1 .. MaxConnections
  BY EntryType DEF Registration
<1>2. Sent'
  <2> SUFFICES ASSUME NEW i \in DOMAIN registrations
               PROVE  LET r == registrations[i]
                      IN  /\ r.conn <= number'[r.qry]
                          /\ r.conn = number'[r.qry] =>
                               IF r.register THEN authenticated'[r.qry] = "consumed"
                               ELSE host'[r.qry] \in {"sleeping", "done"}
    BY DEF Sent
  <2>1. registrations[i].qry \in Host /\ registrations[i].conn \in 1 .. MaxConnections /\ Moves(registrations[i].qry)
    BY <1>1
  <2>2. number[registrations[i].qry] \in Nat
    BY <2>1 DEF TypeOK
  <2> QED
    BY <2>1, <2>2 DEF MapInv, Sent, Moves
<1>3. InOrder'
  BY DEF MapInv, InOrder
<1>4. Registered' = Registered
  BY DEF Registered
<1>5. Taken'
  <2> SUFFICES ASSUME NEW x \in Registered
               PROVE  conns[x] <= number'[x] /\ (conns[x] = number'[x] => authenticated'[x] = "consumed")
    BY <1>4 DEF MapInv, Taken
  <2>1. x \in Host /\ number[x] \in Nat /\ conns[x] \in Nat
    BY DEF Registered, TypeOK
  <2>2. conns[x] <= number[x] /\ (conns[x] = number[x] => authenticated[x] = "consumed")
    BY DEF MapInv, Taken
  <2> QED
    BY <2>1, <2>2 DEF Moves
<1>6. ASSUME NEW x \in Host, NEW n, Watched(x, n), n = number[x] => authenticated[x] = "consumed"
      PROVE  Watched(x, n)'
  BY <1>6 DEF Watched, Moves
<1>7. StagedIsWatched'
  <2> SUFFICES ASSUME NEW i \in DOMAIN registrations, registrations[i].register,
                      Watched(registrations[i].qry, registrations[i].conn)
               PROVE  Watched(registrations[i].qry, registrations[i].conn)'
    BY DEF MapInv, StagedIsWatched
  <2> QED
    BY <1>1, <1>6 DEF MapInv, Sent
<1>8. RegisteredIsWatched'
  <2> SUFFICES ASSUME NEW x \in Registered, Watched(x, conns[x])
               PROVE  Watched(x, conns[x])'
    BY <1>4 DEF MapInv, RegisteredIsWatched, Watched
  <2> QED
    BY <1>6 DEF MapInv, Taken, Registered
<1> QED
  BY <1>2, <1>3, <1>5, <1>7, <1>8 DEF MapInv

\* A step of a session, or one that touches neither hosts, nor channel, nor map.
LEMMA QuietMap ==
  ASSUME TypeOK, MapInv, UNCHANGED <<host, number, authenticated, registrations, conns>>,
         \A h \in Host : open'[h] => open[h]
  PROVE  MapInv'
<1>1. Phases'
  BY DEF MapInv, Phases
<1>2. \A x \in Host : Moves(x)
  BY DEF Moves, TypeOK
<1> QED
  BY <1>1, <1>2, SilentMap

\* Each step of runHostConnection that sends nothing.
LEMMA SilentHostMap ==
  ASSUME TypeOK, MapInv, NEW h \in Host,
         \/ CreateConnection(h) \/ DialSucceeds(h) \/ DialFails(h)
         \/ SeeAuthenticated(h) \/ SeeDone(h) \/ HostExits(h) \/ Authenticate(h)
  PROVE  MapInv'
<1> USE DEF others, coordinatorVars, TypeOK
<1>0. Phases
  BY DEF MapInv
<1>1. UNCHANGED <<registrations, conns>> /\ Phases' /\ \A x \in Host : Moves(x)
  <2>1. CASE CreateConnection(h)
    BY <1>0, <2>1 DEF Phases, Moves, CreateConnection
  <2>2. CASE DialSucceeds(h)
    BY <1>0, <2>2 DEF Phases, Moves, DialSucceeds
  <2>3. CASE DialFails(h)
    BY <1>0, <2>3 DEF Phases, Moves, DialFails
  <2>4. CASE SeeAuthenticated(h)
    BY <1>0, <2>4 DEF Phases, Moves, SeeAuthenticated
  <2>5. CASE SeeDone(h)
    BY <1>0, <2>5 DEF Phases, Moves, SeeDone
  <2>6. CASE HostExits(h)
    BY <1>0, <2>6 DEF Phases, Moves, HostExits
  <2>7. CASE Authenticate(h)
    BY <1>0, <2>7 DEF Phases, Moves, Authenticate
  <2> QED
    BY <2>1, <2>2, <2>3, <2>4, <2>5, <2>6, <2>7
<1> QED
  BY <1>1, SilentMap

\* A step of the host h that sends r, the first that it sends about its connection or
\* the deregistration of what it registered.
Sends(h, r) ==
  /\ r \in Registration /\ r.qry = h /\ r.conn = number[h]
  /\ registrations' \in Seq(Registration) /\ Len(registrations) \in Nat
  /\ DOMAIN registrations = 1 .. Len(registrations)
  /\ DOMAIN registrations' = 1 .. (Len(registrations) + 1)
  /\ \A i \in DOMAIN registrations : registrations'[i] = registrations[i]
  /\ registrations'[Len(registrations) + 1] = r
  /\ \A i \in DOMAIN registrations : registrations[i].qry = h => Precedes(registrations[i], r)
  /\ conns[h] # 0 => conns[h] < number[h] \/ (conns[h] = number[h] /\ ~r.register)
  /\ r.register => host'[h] = "connected" /\ authenticated'[h] = "consumed"
  /\ ~r.register => host'[h] = "sleeping" /\ authenticated'[h] = authenticated[h]
  /\ \A x \in Host \ {h} : host'[x] = host[x] /\ authenticated'[x] = authenticated[x]
  /\ UNCHANGED <<number, conns>>

\* A host that sends a registration or deregistration preserves it.
LEMMA SendMap ==
  ASSUME TypeOK, MapInv, Phases', NEW h \in Host, NEW r, Sends(h, r)
  PROVE  MapInv'
<1> DEFINE n == Len(registrations) + 1
<1>1. /\ n \in Nat \ {0} /\ DOMAIN registrations = 1 .. (n - 1) /\ DOMAIN registrations' = 1 .. n
      /\ \A i \in DOMAIN registrations : registrations'[i] = registrations[i]
      /\ registrations'[n] = r
  BY DEF Sends
<1>2. \A i \in DOMAIN registrations :
        /\ registrations[i].qry \in Host /\ registrations[i].conn \in 1 .. MaxConnections
        /\ registrations[i].register \in BOOLEAN
  BY EntryType DEF Registration
<1>3. r.register \in BOOLEAN /\ r.qry = h /\ r.conn = number[h] /\ number[h] \in 1 .. MaxConnections
  BY DEF Sends, Registration
<1>4. \A x \in Host : number[x] \in Nat /\ conns[x] \in Nat
  BY DEF TypeOK
<1> HIDE DEF n
<1>5. Sent'
  <2> SUFFICES ASSUME NEW i \in DOMAIN registrations', NEW s, s = registrations'[i]
               PROVE  /\ s.conn <= number[s.qry]
                      /\ s.conn = number[s.qry] =>
                           IF s.register THEN authenticated'[s.qry] = "consumed"
                           ELSE host'[s.qry] \in {"sleeping", "done"}
    BY DEF Sent, Sends
  <2>1. CASE i = n
    BY <1>1, <1>3, <2>1 DEF Sends
  <2>2. CASE i \in DOMAIN registrations
    <3>1. s = registrations[i] /\ s.qry \in Host /\ s.conn \in 1 .. MaxConnections /\ s.register \in BOOLEAN
      BY <1>1, <1>2, <2>2
    <3>2. /\ s.conn <= number[s.qry]
          /\ s.conn = number[s.qry] =>
               IF s.register THEN authenticated[s.qry] = "consumed" ELSE host[s.qry] \in {"sleeping", "done"}
      BY <2>2, <3>1 DEF MapInv, Sent
    <3>3. CASE s.qry = h
      BY <1>3, <2>2, <3>1, <3>2, <3>3 DEF Sends, Precedes
    <3>4. CASE s.qry # h
      BY <3>1, <3>2, <3>4 DEF Sends
    <3> QED
      BY <3>3, <3>4
  <2> QED
    BY <1>1, <2>1, <2>2
<1>6. InOrder'
  <2> SUFFICES ASSUME NEW i \in DOMAIN registrations', NEW j \in DOMAIN registrations',
                      i < j, registrations'[i].qry = registrations'[j].qry
               PROVE  Precedes(registrations'[i], registrations'[j])
    BY DEF InOrder, Precedes
  <2>1. i \in DOMAIN registrations
    BY <1>1
  <2>2. CASE j = n
    BY <1>1, <1>3, <2>1, <2>2 DEF Sends
  <2>3. CASE j \in DOMAIN registrations
    BY <1>1, <2>1, <2>3 DEF MapInv, InOrder
  <2> QED
    BY <1>1, <2>2, <2>3
<1>7. Registered' = Registered
  BY DEF Registered, Sends
<1>8. Taken'
  <2> SUFFICES ASSUME NEW x \in Registered
               PROVE  /\ conns[x] <= number[x]
                      /\ conns[x] = number[x] => authenticated'[x] = "consumed"
                      /\ \A i \in DOMAIN registrations' :
                           registrations'[i].qry = x =>
                             Precedes([register |-> TRUE, qry |-> x, conn |-> conns[x]], registrations'[i])
    BY <1>7 DEF Taken, Precedes, Sends
  <2>1. /\ x \in Host /\ conns[x] # 0 /\ conns[x] \in Nat
        /\ conns[x] <= number[x]
        /\ conns[x] = number[x] => authenticated[x] = "consumed"
        /\ \A i \in DOMAIN registrations :
             registrations[i].qry = x =>
               Precedes([register |-> TRUE, qry |-> x, conn |-> conns[x]], registrations[i])
    BY <1>4 DEF MapInv, Taken, Registered
  <2>2. conns[x] = number[x] => authenticated'[x] = "consumed"
    BY <1>3, <2>1 DEF Sends
  <2> SUFFICES ASSUME NEW i \in DOMAIN registrations', registrations'[i].qry = x
               PROVE  Precedes([register |-> TRUE, qry |-> x, conn |-> conns[x]], registrations'[i])
    BY <2>1, <2>2
  <2>3. CASE i = n
    BY <1>1, <1>3, <2>1, <2>3 DEF Precedes, Sends
  <2>4. CASE i \in DOMAIN registrations
    BY <1>1, <2>1, <2>4
  <2> QED
    BY <1>1, <2>3, <2>4
\* What is watched stays so, or r is its deregistration.
<1>9. ASSUME NEW x \in Host, NEW m, host[x] \in {"connected", "deregistering", "done"}, m = number[x]
      PROVE  \/ host'[x] \in {"connected", "deregistering", "done"} /\ m = number'[x]
             \/ x = r.qry /\ m = r.conn /\ ~r.register
  BY <1>3, <1>9 DEF Sends
<1>10. StagedIsWatched'
  <2> SUFFICES ASSUME NEW i \in DOMAIN registrations', NEW s, s = registrations'[i], s.register
               PROVE  \/ host'[s.qry] \in {"connected", "deregistering", "done"} /\ s.conn = number'[s.qry]
                      \/ \E j \in DOMAIN registrations' :
                           /\ i < j /\ ~registrations'[j].register
                           /\ registrations'[j].qry = s.qry /\ registrations'[j].conn = s.conn
    BY DEF StagedIsWatched, Watched
  <2>1. CASE i = n
    BY <1>1, <1>3, <2>1 DEF Sends
  <2>2. CASE i \in DOMAIN registrations
    <3>1. s = registrations[i] /\ s.qry \in Host
      BY <1>1, <1>2, <2>2
    <3>2. CASE host[s.qry] \in {"connected", "deregistering", "done"} /\ s.conn = number[s.qry]
      BY <1>1, <1>9, <2>2, <3>1, <3>2
    <3>3. CASE \E j \in DOMAIN registrations :
                 /\ i < j /\ ~registrations[j].register
                 /\ registrations[j].qry = s.qry /\ registrations[j].conn = s.conn
      BY <1>1, <3>3
    <3> QED
      BY <2>2, <3>1, <3>2, <3>3 DEF MapInv, StagedIsWatched, Watched
  <2> QED
    BY <1>1, <2>1, <2>2
<1>11. RegisteredIsWatched'
  <2> SUFFICES ASSUME NEW x \in Registered
               PROVE  \/ host'[x] \in {"connected", "deregistering", "done"} /\ conns[x] = number'[x]
                      \/ \E j \in DOMAIN registrations' :
                           /\ ~registrations'[j].register
                           /\ registrations'[j].qry = x /\ registrations'[j].conn = conns[x]
    BY <1>7 DEF RegisteredIsWatched, Sends
  <2>1. x \in Host
    BY DEF Registered
  <2>2. CASE host[x] \in {"connected", "deregistering", "done"} /\ conns[x] = number[x]
    BY <1>1, <1>9, <2>1, <2>2
  <2>3. CASE \E j \in DOMAIN registrations :
               /\ ~registrations[j].register
               /\ registrations[j].qry = x /\ registrations[j].conn = conns[x]
    BY <1>1, <2>3
  <2> QED
    BY <2>2, <2>3 DEF MapInv, RegisteredIsWatched
<1> QED
  BY <1>5, <1>6, <1>8, <1>10, <1>11 DEF MapInv

\* registerConnection is such a send.
LEMMA RegisterMap ==
  ASSUME TypeOK, MapInv, NEW h \in Host, Register(h)
  PROVE  MapInv'
<1>1. /\ host[h] = "registering" /\ Send(h, TRUE)
      /\ host' = [host EXCEPT ![h] = "connected"] /\ authenticated' = [authenticated EXCEPT ![h] = "consumed"]
      /\ UNCHANGED <<number, open, conns>>
  BY DEF Register, others, coordinatorVars
<1>2. number[h] > 0 /\ authenticated[h] = "closed"
  BY <1>1 DEF MapInv, Phases
<1>3. Phases'
  BY <1>1 DEF MapInv, Phases, TypeOK
<1> DEFINE r == [register |-> TRUE, qry |-> h, conn |-> number[h]]
<1>4. /\ r \in Registration
      /\ registrations' \in Seq(Registration)
      /\ Len(registrations) \in Nat
      /\ DOMAIN registrations = 1 .. Len(registrations)
      /\ DOMAIN registrations' = 1 .. (Len(registrations) + 1)
      /\ \A i \in DOMAIN registrations : registrations'[i] = registrations[i]
      /\ registrations'[Len(registrations) + 1] = r
  <2> HIDE DEF r
  <2>1. TRUE \in BOOLEAN
    OBVIOUS
  <2>2. r = [register |-> TRUE, qry |-> h, conn |-> number[h]]
    BY DEF r
  <2> QED
    BY <1>1, <1>2, <2>1, <2>2, SendFacts
<1>5. r.register /\ r.qry = h /\ r.conn = number[h] /\ number[h] \in Nat /\ conns[h] \in Nat
  BY DEF TypeOK
<1> HIDE DEF r
<1>6. \A i \in DOMAIN registrations : registrations[i].qry = h => Precedes(registrations[i], r)
  <2> SUFFICES ASSUME NEW i \in DOMAIN registrations, registrations[i].qry = h
               PROVE  registrations[i].conn < number[h]
    BY <1>5 DEF Precedes
  <2>1. registrations[i].register \in BOOLEAN /\ registrations[i].conn \in 1 .. MaxConnections
    BY EntryType DEF Registration
  <2> QED
    BY <1>1, <1>2, <1>5, <2>1 DEF MapInv, Sent
<1>7. conns[h] # 0 => conns[h] < number[h]
  <2>1. conns[h] # 0 => h \in Registered
    BY DEF Registered
  <2>2. conns[h] # 0 => conns[h] <= number[h] /\ conns[h] # number[h]
    BY <1>2, <2>1 DEF MapInv, Taken
  <2> QED
    BY <1>5, <2>2
<1>8. Sends(h, r)
  BY <1>1, <1>4, <1>5, <1>6, <1>7 DEF Sends, TypeOK
<1> QED
  BY <1>3, <1>8, SendMap

\* The send of a deregistration is one, since the connection that it is about is dead.
LEMMA DeregisterMap ==
  ASSUME TypeOK, MapInv, NEW h \in Host, Deregister(h)
  PROVE  MapInv'
<1>1. /\ host[h] = "deregistering" /\ Send(h, FALSE)
      /\ host' = [host EXCEPT ![h] = "sleeping"]
      /\ UNCHANGED <<number, open, authenticated, conns>>
  BY DEF Deregister, others, coordinatorVars
<1>2. number[h] > 0
  BY <1>1 DEF MapInv, Phases
<1>3. Phases'
  BY <1>1 DEF MapInv, Phases, TypeOK
<1> DEFINE r == [register |-> FALSE, qry |-> h, conn |-> number[h]]
<1>4. /\ r \in Registration
      /\ registrations' \in Seq(Registration)
      /\ Len(registrations) \in Nat
      /\ DOMAIN registrations = 1 .. Len(registrations)
      /\ DOMAIN registrations' = 1 .. (Len(registrations) + 1)
      /\ \A i \in DOMAIN registrations : registrations'[i] = registrations[i]
      /\ registrations'[Len(registrations) + 1] = r
  <2> HIDE DEF r
  <2>1. FALSE \in BOOLEAN
    OBVIOUS
  <2>2. r = [register |-> FALSE, qry |-> h, conn |-> number[h]]
    BY DEF r
  <2> QED
    BY <1>1, <1>2, <2>1, <2>2, SendFacts
<1>5. ~r.register /\ r.qry = h /\ r.conn = number[h] /\ number[h] \in Nat /\ conns[h] \in Nat
  BY DEF TypeOK
<1> HIDE DEF r
<1>6. \A i \in DOMAIN registrations : registrations[i].qry = h => Precedes(registrations[i], r)
  <2> SUFFICES ASSUME NEW i \in DOMAIN registrations, registrations[i].qry = h
               PROVE  registrations[i].conn < number[h] \/ (registrations[i].conn = number[h] /\ registrations[i].register)
    BY <1>5 DEF Precedes
  <2>1. registrations[i].register \in BOOLEAN /\ registrations[i].conn \in 1 .. MaxConnections
    BY EntryType DEF Registration
  <2> QED
    BY <1>1, <1>2, <1>5, <2>1 DEF MapInv, Sent
<1>7. conns[h] # 0 => conns[h] < number[h] \/ conns[h] = number[h]
  <2>1. conns[h] # 0 => h \in Registered
    BY DEF Registered
  <2>2. conns[h] # 0 => conns[h] <= number[h]
    BY <2>1 DEF MapInv, Taken
  <2> QED
    BY <1>5, <2>2
<1>8. Sends(h, r)
  BY <1>1, <1>4, <1>5, <1>6, <1>7 DEF Sends, TypeOK
<1> QED
  BY <1>3, <1>8, SendMap

\* A registration is taken: what is after it in the channel was sent after it, so it is
\* about a later connection or its own deregistration.
LEMMA TakeRegistrationMap ==
  ASSUME TypeOK, MapInv, TakeRegistration
  PROVE  MapInv'
<1>1. UNCHANGED <<host, number, open, authenticated>>
  BY DEF TakeRegistration, hostVars
<1>2. registrations # <<>> /\ registrations' = Tail(registrations)
  BY DEF TakeRegistration
<1> DEFINE r == registrations[1]
<1>3. r \in Registration /\ Head(registrations) = r
  BY <1>2, ReceiveFacts
<1>4. /\ 1 \in DOMAIN registrations
      /\ DOMAIN registrations \subseteq Int /\ DOMAIN registrations' \subseteq Int
      /\ \A i \in DOMAIN registrations' : i > 0 /\ i + 1 \in DOMAIN registrations /\ registrations'[i] = registrations[i + 1]
      /\ \A i \in DOMAIN registrations :
           i > 1 => i - 1 \in DOMAIN registrations' /\ registrations'[i - 1] = registrations[i]
  BY <1>2, ReceiveFacts
<1>5. /\ r.qry \in Host /\ r.conn \in 1 .. MaxConnections /\ r.register \in BOOLEAN
      /\ \A i \in DOMAIN registrations :
           registrations[i].conn \in 1 .. MaxConnections /\ registrations[i].register \in BOOLEAN
  BY <1>3, EntryType DEF Registration
<1>6. conns' = [conns EXCEPT ![r.qry] = IF r.register THEN r.conn ELSE 0]
  BY <1>3, <1>5 DEF TakeRegistration, registerConnection, deregisterConnection
<1> HIDE DEF r
<1>7. r = registrations[1]
  BY DEF r
<1>8. conns'[r.qry] = (IF r.register THEN r.conn ELSE 0) /\ \A x \in Host \ {r.qry} : conns'[x] = conns[x]
  BY <1>5, <1>6 DEF TypeOK
<1>9. Phases'
  BY <1>1 DEF MapInv, Phases
<1>10. Sent'
  BY <1>1, <1>4 DEF MapInv, Sent
<1>11. InOrder'
  <2> SUFFICES ASSUME NEW i \in DOMAIN registrations', NEW j \in DOMAIN registrations',
                      i < j, registrations'[i].qry = registrations'[j].qry
               PROVE  Precedes(registrations'[i], registrations'[j])
    BY DEF InOrder, Precedes
  <2>1. /\ i + 1 \in DOMAIN registrations /\ registrations'[i] = registrations[i + 1]
        /\ j + 1 \in DOMAIN registrations /\ registrations'[j] = registrations[j + 1]
        /\ i + 1 < j + 1
    BY <1>4
  <2> QED
    BY <2>1 DEF MapInv, InOrder
<1>12. \A x \in Host : conns'[x] # 0 => x \in Registered \/ (x = r.qry /\ r.register)
  BY <1>8 DEF Registered
<1>13. Taken'
  <2> SUFFICES ASSUME NEW x \in Host, conns'[x] # 0
               PROVE  /\ conns'[x] <= number[x]
                      /\ conns'[x] = number[x] => authenticated[x] = "consumed"
                      /\ \A i \in DOMAIN registrations' :
                           registrations'[i].qry = x =>
                             Precedes([register |-> TRUE, qry |-> x, conn |-> conns'[x]], registrations'[i])
    BY <1>1 DEF Taken, Registered, Precedes
  <2>1. CASE x = r.qry
    <3>1. r.register /\ conns'[x] = r.conn
      BY <1>5, <1>8, <2>1
    <3>2. r.conn <= number[x] /\ (r.conn = number[x] => authenticated[x] = "consumed")
      BY <1>4, <1>5, <1>7, <2>1, <3>1 DEF MapInv, Sent
    <3>3. ASSUME NEW i \in DOMAIN registrations', registrations'[i].qry = x
          PROVE  Precedes([register |-> TRUE, qry |-> x, conn |-> r.conn], registrations'[i])
      <4>1. i + 1 \in DOMAIN registrations /\ registrations'[i] = registrations[i + 1] /\ 1 < i + 1
        BY <1>4
      <4>2. Precedes(r, registrations'[i])
        BY <1>4, <1>7, <2>1, <3>3, <4>1 DEF MapInv, InOrder
      <4> QED
        BY <3>1, <4>2 DEF Precedes
    <3> QED
      BY <3>1, <3>2, <3>3
  <2>2. CASE x # r.qry
    <3>1. x \in Registered /\ conns'[x] = conns[x]
      BY <1>8, <1>12, <2>2
    <3> QED
      BY <1>4, <3>1 DEF MapInv, Taken
  <2> QED
    BY <2>1, <2>2
<1>14. StagedIsWatched'
  <2> SUFFICES ASSUME NEW i \in DOMAIN registrations', NEW s, s = registrations'[i], s.register
               PROVE  \/ host'[s.qry] \in {"connected", "deregistering", "done"} /\ s.conn = number'[s.qry]
                      \/ \E j \in DOMAIN registrations' :
                           /\ i < j /\ ~registrations'[j].register
                           /\ registrations'[j].qry = s.qry /\ registrations'[j].conn = s.conn
    BY DEF StagedIsWatched, Watched
  <2>1. i + 1 \in DOMAIN registrations /\ s = registrations[i + 1] /\ i > 0
    BY <1>4
  <2>2. CASE host[s.qry] \in {"connected", "deregistering", "done"} /\ s.conn = number[s.qry]
    BY <1>1, <2>2
  <2>3. CASE \E j \in DOMAIN registrations :
               /\ i + 1 < j /\ ~registrations[j].register
               /\ registrations[j].qry = s.qry /\ registrations[j].conn = s.conn
    <3>1. PICK j \in DOMAIN registrations :
                 /\ i + 1 < j /\ ~registrations[j].register
                 /\ registrations[j].qry = s.qry /\ registrations[j].conn = s.conn
      BY <2>3
    <3>2. j - 1 \in DOMAIN registrations' /\ registrations'[j - 1] = registrations[j] /\ i < j - 1
      BY <1>4, <2>1, <3>1
    <3> QED
      BY <3>1, <3>2
  <2> QED
    BY <2>1, <2>2, <2>3 DEF MapInv, StagedIsWatched, Watched
<1>15. RegisteredIsWatched'
  <2> SUFFICES ASSUME NEW x \in Host, conns'[x] # 0
               PROVE  \/ host'[x] \in {"connected", "deregistering", "done"} /\ conns'[x] = number'[x]
                      \/ \E j \in DOMAIN registrations' :
                           /\ ~registrations'[j].register
                           /\ registrations'[j].qry = x /\ registrations'[j].conn = conns'[x]
    BY DEF RegisteredIsWatched, Registered
  <2>1. \/ host[x] \in {"connected", "deregistering", "done"} /\ conns'[x] = number[x]
        \/ \E j \in DOMAIN registrations :
             /\ j > 1 /\ ~registrations[j].register
             /\ registrations[j].qry = x /\ registrations[j].conn = conns'[x]
    <3>1. CASE x = r.qry
      <4>1. r.register /\ conns'[x] = r.conn
        BY <1>5, <1>8, <3>1
      <4> QED
        BY <1>4, <1>7, <3>1, <4>1 DEF MapInv, StagedIsWatched, Watched
    <3>2. CASE x # r.qry
      <4>1. x \in Registered /\ conns'[x] = conns[x]
        BY <1>8, <1>12, <3>2
      <4>2. CASE host[x] \in {"connected", "deregistering", "done"} /\ conns[x] = number[x]
        BY <4>1, <4>2
      <4>3. CASE \E j \in DOMAIN registrations :
                   ~registrations[j].register /\ registrations[j].qry = x /\ registrations[j].conn = conns[x]
        <5>1. PICK j \in DOMAIN registrations :
                     ~registrations[j].register /\ registrations[j].qry = x /\ registrations[j].conn = conns[x]
          BY <4>3
        <5>2. j > 1
          <6>1. j # 1
            BY <1>7, <3>2, <5>1
          <6>2. DOMAIN registrations = 1 .. Len(registrations)
            BY <1>2, ReceiveFacts
          <6> QED
            BY <6>1, <6>2
        <5> QED
          BY <4>1, <5>1, <5>2
      <4> QED
        BY <4>1, <4>2, <4>3 DEF MapInv, RegisteredIsWatched
    <3> QED
      BY <3>1, <3>2
  <2>2. CASE \E j \in DOMAIN registrations :
               /\ j > 1 /\ ~registrations[j].register
               /\ registrations[j].qry = x /\ registrations[j].conn = conns'[x]
    <3>1. PICK j \in DOMAIN registrations :
                 /\ j > 1 /\ ~registrations[j].register
                 /\ registrations[j].qry = x /\ registrations[j].conn = conns'[x]
      BY <2>2
    <3>2. j - 1 \in DOMAIN registrations' /\ registrations'[j - 1] = registrations[j]
      BY <1>4, <3>1
    <3> QED
      BY <3>1, <3>2
  <2> QED
    BY <1>1, <2>1, <2>2
<1> QED
  BY <1>9, <1>10, <1>11, <1>13, <1>14, <1>15 DEF MapInv

\* The coordinator asks for a reset when it takes the last entry out of the map, and puts
\* Every step keeps what binds the map, the channel and the hosts together.
LEMMA NextMap ==
  ASSUME TypeOK, MapInv, [Next]_vars
  PROVE  MapInv'
<1> USE DEF hostVars, sessionVars, coordinatorVars, others
<1>1. ASSUME NEW h \in Host, HostStep(h) PROVE MapInv'
  BY <1>1, SilentHostMap, RegisterMap, DeregisterMap DEF HostStep
<1>2. ASSUME NEW h \in Host, Authenticate(h) PROVE MapInv'
  BY <1>2, SilentHostMap
<1>3. ASSUME NEW h \in Host, Measure(h) \/ SendFrame(h) \/ WriteBlocks(h) \/ WriteReturns(h) PROVE MapInv'
  BY <1>3, QuietMap DEF Measure, SendFrame, WriteBlocks, WriteReturns
<1>4. ASSUME NEW h \in Host, SessionEnds(h) PROVE MapInv'
  BY <1>4, QuietMap DEF SessionEnds, TypeOK
<1>5. CASE TakeRegistration
  BY <1>5, TakeRegistrationMap
<1>6. CASE DropMetrics \/ RouteMetrics \/ StageMetrics \/ LoseAll \/ CoordinatorExits
  BY <1>6, QuietMap DEF DropMetrics, RouteMetrics, StageMetrics, LoseAll, CoordinatorExits
<1>7. CASE ProduceMetrics \/ SchedulerResets \/ UNCHANGED vars
  BY <1>7, QuietMap DEF ProduceMetrics, SchedulerResets, vars
<1>8. CASE Cancel
  BY <1>8, QuietMap DEF Cancel, TypeOK
<1> QED
  BY <1>1, <1>2, <1>3, <1>4, <1>5, <1>6, <1>7, <1>8 DEF Next, SessionStep, CoordinatorStep

\* Every step of the stream preserves its invariant.
LEMMA NextIInv ==
  ASSUME IInv, [Next]_vars
  PROVE  IInv'
<1> USE DEF IInv
<1>1. TypeOK'
  <2>1. CASE UNCHANGED vars
    BY <2>1 DEF TypeOK, vars, hostVars, sessionVars, coordinatorVars
  <2> QED
    BY <2>1, HostTypes, SessionTypes, CoordinatorTypes DEF Next, CoordinatorStep, MapInv
<1> QED
  BY <1>1, NextMap

-----------------------------------------------------------------------------
(***************************************************************************)
(* The theorems about the stream.                                          *)
(***************************************************************************)

\* The invariant of the stream (runHostConnection and the registration coordinator) in every
\* reachable state, for every number of hosts and connections.
THEOREM StreamInvariant == Spec => []IInv
  BY InitIInv, NextIInv, PTL DEF Spec

\* Types and channel capacities, for every capacity.
THEOREM StreamTypeOK == Spec => []TypeOK
<1>1. IInv => TypeOK
  BY DEF IInv
<1> QED
  BY <1>1, StreamInvariant, PTL

\* What is in the channel before a deregistration, or in the map if nothing is, is its
\* own connection: an older one was deregistered in between.
LEMMA MapInvImplies ==
  ASSUME TypeOK, MapInv
  PROVE  MapFollowsConnections
<1>1. \A i \in DOMAIN registrations :
        /\ registrations[i].qry \in Host /\ registrations[i].conn \in 1 .. MaxConnections
        /\ registrations[i].register \in BOOLEAN
  BY EntryType DEF Registration
<1>2. DOMAIN registrations = 1 .. Len(registrations) /\ Len(registrations) \in Nat
  BY DEF TypeOK
<1>3. DeregistersItsOwn
  <2> SUFFICES ASSUME NEW i \in DOMAIN registrations, ~registrations[i].register,
                      NEW before, before = {j \in 1 .. (i - 1) : registrations[j].qry = registrations[i].qry}
               PROVE  /\ before = {} => conns[registrations[i].qry] \in {0, registrations[i].conn}
                      /\ \A j \in before :
                           (\A k \in before : k <= j) /\ registrations[j].register =>
                             registrations[j].conn = registrations[i].conn
    BY DEF DeregistersItsOwn
  <2> DEFINE h == registrations[i].qry
  <2> DEFINE n == registrations[i].conn
  <2>1. h \in Host /\ n \in 1 .. MaxConnections /\ i \in Nat /\ conns[h] \in Nat /\ number[h] \in Nat
    BY <1>1, <1>2 DEF TypeOK
  <2>2. n <= number[h] /\ (n = number[h] => host[h] \in {"sleeping", "done"})
    BY DEF MapInv, Sent
  <2>3. ASSUME NEW m \in Nat, m < n, NEW k \in DOMAIN registrations,
               ~registrations[k].register, registrations[k].qry = h, registrations[k].conn = m
        PROVE  k < i /\ k \in before
    <3>1. k # i
      BY <2>1, <2>3
    <3>2. ~(i < k)
      BY <1>1, <2>1, <2>3 DEF MapInv, InOrder, Precedes
    <3> QED
      BY <1>2, <3>1, <3>2, <2>3
  <2>4. ASSUME before = {}, conns[h] # 0
        PROVE  conns[h] = n
    <3>1. h \in Registered
      BY <2>1, <2>4 DEF Registered
    <3>2. conns[h] <= n
      BY <2>1, <3>1 DEF MapInv, Taken, Precedes
    <3>3. ASSUME conns[h] < n PROVE FALSE
      <4>1. conns[h] < number[h]
        BY <2>1, <2>2, <3>3
      <4>2. PICK k \in DOMAIN registrations :
                   ~registrations[k].register /\ registrations[k].qry = h /\ registrations[k].conn = conns[h]
        BY <2>1, <3>1, <4>1 DEF MapInv, RegisteredIsWatched
      <4> QED
        BY <2>1, <2>3, <2>4, <3>3, <4>2
    <3> QED
      BY <2>1, <3>2, <3>3
  <2>5. ASSUME NEW j \in before, \A k \in before : k <= j, registrations[j].register
        PROVE  registrations[j].conn = n
    <3>1. j \in DOMAIN registrations /\ j < i /\ registrations[j].qry = h /\ registrations[j].conn \in Nat
      BY <1>1, <1>2, <2>1
    <3>2. registrations[j].conn <= n
      BY <2>1, <3>1 DEF MapInv, InOrder, Precedes
    <3>3. ASSUME registrations[j].conn < n PROVE FALSE
      <4>1. registrations[j].conn < number[h]
        BY <2>1, <2>2, <3>1, <3>3
      <4>2. PICK k \in DOMAIN registrations :
                   /\ j < k /\ ~registrations[k].register
                   /\ registrations[k].qry = h /\ registrations[k].conn = registrations[j].conn
        BY <2>1, <2>5, <3>1, <4>1 DEF MapInv, StagedIsWatched, Watched
      <4>3. k \in before
        BY <2>3, <3>1, <3>3, <4>2
      <4> QED
        BY <1>2, <2>5, <3>1, <4>2, <4>3
    <3> QED
      BY <2>1, <3>1, <3>2, <3>3
  <2> QED
    BY <2>4, <2>5
<1> QED
  BY <1>3 DEF MapInv, MapFollowsConnections

\* However many hosts connect, reconnect and race for the channel, no deregistration takes
\* a successor out of the map and no dead connection stays in it.
THEOREM StreamMapFollowsConnections == Spec => []MapFollowsConnections
<1>1. IInv => MapFollowsConnections
  BY MapInvImplies DEF IInv
<1> QED
  BY <1>1, StreamInvariant, PTL

-----------------------------------------------------------------------------
(***************************************************************************)
(* The process: its inductive invariant.                                   *)
(***************************************************************************)

\* Nothing has happened before the configuration is loaded.
Loading ==
  run = "loading" =>
    /\ \A h \in Host : host[h] = "starting" /\ ~open[h]
    /\ \A l \in Loop : loops[l] = "none"
    /\ distributor = "off" /\ produced = 0 /\ delivered = 0 /\ crsChan = 0

\* A host has no connection before its first dial.
Starting == \A h \in Host : host[h] = "starting" => number[h] = 0

\* The loops that were started are finitely many, although Loop need not be.
Started == {l \in Loop : loops[l] # "none"}

\* The results that loops hold between the two sends.
InHand == {l \in Loop : loops[l] \in {"distributing", "stuck"}}

\* Every result that the stream took was delivered, is in the channel or in the hands of a loop.
Accounted ==
  run # "loading" /\ distributor # "off" => produced = delivered + crsChan + Cardinality(InHand)

ProcessTypes ==
  /\ file \in File /\ (config = NewConfig \/ Validate(config))
  /\ mode \in {"interactive", "service", "stopping", "stopped"}
  /\ run \in {"loading", "connecting", "select", "returned"}
  /\ process \in {"alive", "exited", "crashed"}
  /\ signalNotify \in 0 .. signalChannelSize
  /\ forced \in BOOLEAN
  /\ loops \in [Loop -> LoopState] /\ stopped \subseteq Loop
  /\ distributor \in {"off", "unstarted", "running", "failed", "stopped"}
  /\ crsChan \in 0 .. crsChannelSize
  /\ delivered \in 0 .. MaxMetrics
  /\ pusher \in {"none", "sleeping", "pushing", "exited"}

PollerInv ==
  /\ IInv /\ ProcessTypes
  /\ Loading /\ Starting /\ HostsPersist
  /\ IsFiniteSet(Started) /\ Accounted

\* The process before its configuration is loaded satisfies the invariant.
LEMMA InitPollerInv == PollerInit => PollerInv
<1> SUFFICES ASSUME PollerInit PROVE PollerInv
  OBVIOUS
<1>1. IInv
  BY InitIInv DEF PollerInit
<1>2. ProcessTypes
  <2>1. loops \in [Loop -> LoopState]
    BY DEF PollerInit, LoopState
  <2>2. signalNotify \in 0 .. signalChannelSize /\ crsChan \in 0 .. crsChannelSize /\ delivered \in 0 .. MaxMetrics
    BY DEF PollerInit
  <2> QED
    BY <2>1, <2>2 DEF PollerInit, ProcessTypes
<1>3. Started = {}
  BY DEF PollerInit, Started
<1>4. Loading /\ Starting /\ HostsPersist /\ Accounted
  BY DEF PollerInit, Init, Loading, Starting, HostsPersist, Accounted
<1> QED
  BY <1>1, <1>2, <1>3, <1>4, FS_EmptySet DEF PollerInv

-----------------------------------------------------------------------------
(***************************************************************************)
(* The connection stream in the process.                                   *)
(***************************************************************************)

\* What a step of the process is for the stream: a step of its own, the cancellation, a
\* look-up that fails, or none.
StreamNext == [Next]_vars \/ CancelContext \/ \E h \in Host : LookupFails(h)

\* To the stream, a step of the process is one of its own, a cancellation or a failed look-up.
LEMMA PollerStreamNext ==
  ASSUME PollerNext
  PROVE  StreamNext
<1>1. CASE RunStep \/ ServiceStep \/ Signal \/ ForceExit
  BY <1>1 DEF RunStep, ServiceStep, StartUp, StartDistributor, HandleSignal, RunReturns, ServiceStops, ServiceExits,
     Signal, ForceExit, StreamNext
<1>2. ASSUME NEW h \in Host, HostNext(h) \/ SessionNext(h) \/ Stream(SendFrame(h))
      PROVE  StreamNext
  BY <1>2 DEF HostNext, SessionNext, Stream, Next, StreamNext
<1>3. CASE CoordinatorNext
  BY <1>3 DEF CoordinatorNext, Stream, Next, StreamNext
<1>4. ASSUME NEW l \in Loop, ScheduleCheck(l) \/ RunCheck(l) \/ SendStep(l) \/ LoopExits(l)
      PROVE  StreamNext
  BY <1>4 DEF ScheduleCheck, RunCheck, SendStep, StageResult, Distribute, DistributeToNil, LoopExits, Next, StreamNext
<1>5. CASE ResetLoops \/ SendToStatsd \/ DistributorExits \/ PusherStarts \/ PusherExits
  BY <1>5 DEF ResetLoops, SendToStatsd, DistributorExits, PusherStarts, PusherExits, Next, StreamNext
<1> QED
  BY <1>1, <1>2, <1>3, <1>4, <1>5 DEF PollerNext

\* The invariant of the stream is kept by what the process adds to it.
LEMMA StreamInv ==
  ASSUME IInv, StreamNext
  PROVE  IInv'
<1>1. CASE [Next]_vars
  BY <1>1, NextIInv
<1>2. CASE CancelContext
  <2>1. TypeOK'
    BY <1>2 DEF CancelContext, IInv, TypeOK, sessionVars, coordinatorVars
  <2>2. MapInv'
    BY <1>2, QuietMap DEF CancelContext, IInv, coordinatorVars
  <2> QED
    BY <2>1, <2>2 DEF IInv
<1>3. ASSUME NEW h \in Host, LookupFails(h) PROVE IInv'
  <2>1. /\ host[h] = "starting" /\ host' = [host EXCEPT ![h] = "done"]
        /\ UNCHANGED <<number, open, authenticated, registrations, sessionVars, coordinatorVars, metricsToSend,
                       produced, resets, running>>
    BY <1>3 DEF LookupFails, others
  <2>2. TypeOK'
    BY <2>1 DEF IInv, TypeOK, HostState, sessionVars, coordinatorVars
  <2>3. Phases' /\ \A x \in Host : Moves(x)
    BY <2>1 DEF IInv, MapInv, Phases, Moves, TypeOK
  <2>4. MapInv'
    BY <2>1, <2>3, SilentMap DEF IInv, coordinatorVars
  <2> QED
    BY <2>2, <2>4 DEF IInv
<1> QED
  BY <1>1, <1>2, <1>3 DEF StreamNext

\* Where a host may get to in one step.
HostMoves(h) ==
  /\ host'[h] = "starting" => host[h] = "starting" /\ number'[h] = number[h]
  /\ host'[h] = "done" =>
       \/ host[h] = "done" /\ number'[h] = number[h]
       \/ ~running
       \/ host[h] = "starting" /\ number'[h] = number[h] /\ config.UseSrv

\* How a step may move the hosts: none is given up but by a cancellation or a first look-up.
LEMMA HostsMove ==
  ASSUME TypeOK, StreamNext
  PROVE  (\A h \in Host : HostMoves(h)) /\ (running' => running)
<1> USE DEF hostVars, sessionVars, coordinatorVars, others
<1>1. CASE UNCHANGED <<host, number, running>>
  BY <1>1 DEF HostMoves
<1>2. ASSUME NEW h \in Host, HostStep(h)
      PROVE  (\A x \in Host : HostMoves(x)) /\ running' = running
  <2>1. CASE CreateConnection(h)
    BY <2>1 DEF CreateConnection, HostMoves, TypeOK
  <2>2. CASE DialSucceeds(h) \/ DialFails(h)
    BY <2>2 DEF DialSucceeds, DialFails, HostMoves, TypeOK
  <2>3. CASE SeeAuthenticated(h) \/ SeeDone(h)
    BY <2>3 DEF SeeAuthenticated, SeeDone, HostMoves, TypeOK
  <2>4. CASE Register(h) \/ Deregister(h)
    BY <2>4 DEF Register, Deregister, HostMoves, TypeOK
  <2>5. CASE HostExits(h)
    BY <2>5 DEF HostExits, HostMoves, TypeOK
  <2> QED
    BY <1>2, <2>1, <2>2, <2>3, <2>4, <2>5 DEF HostStep
<1>3. ASSUME NEW h \in Host, SessionStep(h) \/ SendFrame(h)
      PROVE  UNCHANGED <<host, number, running>>
  BY <1>3 DEF SessionStep, Authenticate, Measure, SendFrame, WriteBlocks, WriteReturns, SessionEnds
<1>4. CASE DropMetrics \/ RouteMetrics \/ StageMetrics \/ TakeRegistration \/ LoseAll \/ CoordinatorExits
  BY <1>1, <1>4 DEF DropMetrics, RouteMetrics, StageMetrics, TakeRegistration, LoseAll, CoordinatorExits
<1>5. CASE ProduceMetrics \/ SchedulerResets \/ UNCHANGED vars
  BY <1>1, <1>5 DEF ProduceMetrics, SchedulerResets, vars
<1>6. CASE Cancel \/ CancelContext
  BY <1>6 DEF Cancel, CancelContext, HostMoves
<1>7. ASSUME NEW h \in Host, LookupFails(h)
      PROVE  (\A x \in Host : HostMoves(x)) /\ running' = running
  BY <1>7 DEF LookupFails, HostMoves, TypeOK
<1> QED
  BY <1>1, <1>2, <1>3, <1>4, <1>5, <1>6, <1>7 DEF StreamNext, Next, CoordinatorStep

-----------------------------------------------------------------------------
(***************************************************************************)
(* The loops.                                                              *)
(***************************************************************************)

\* A loop moves on: what is started and what is in hand changes by that loop at most.
LEMMA LoopFacts ==
  ASSUME ProcessTypes, IsFiniteSet(Started), NEW l \in Loop, NEW from \in LoopState, NEW to \in LoopState \ {"none"},
         LoopStep(l, from, to)
  PROVE  /\ loops' \in [Loop -> LoopState] /\ loops[l] = from
         /\ IsFiniteSet(Started') /\ Cardinality(InHand) \in Nat
         /\ Cardinality(InHand') =
              IF from \in {"distributing", "stuck"} <=> to \in {"distributing", "stuck"} THEN Cardinality(InHand)
              ELSE IF to \in {"distributing", "stuck"} THEN Cardinality(InHand) + 1
              ELSE Cardinality(InHand) - 1
<1>1. loops[l] = from /\ loops' = [loops EXCEPT ![l] = to] /\ loops \in [Loop -> LoopState]
  BY DEF LoopStep, ProcessTypes
<1>2. Started' = Started \cup {l}
  BY <1>1 DEF Started
<1>3. IsFiniteSet(Started')
  BY <1>2, FS_AddElement
<1>4. IsFiniteSet(InHand)
  <2>1. InHand \in SUBSET Started
    BY DEF InHand, Started
  <2> QED
    BY <2>1, FS_Subset
<1>5. Cardinality(InHand) \in Nat
  BY <1>4, FS_CardinalityType
<1>6. CASE from \in {"distributing", "stuck"} <=> to \in {"distributing", "stuck"}
  <2>1. InHand' = InHand
    BY <1>1, <1>6 DEF InHand
  <2> QED
    BY <1>1, <1>3, <1>5, <1>6, <2>1
<1>7. CASE from \notin {"distributing", "stuck"} /\ to \in {"distributing", "stuck"}
  <2>1. InHand' = InHand \cup {l} /\ l \notin InHand
    BY <1>1, <1>7 DEF InHand
  <2>2. Cardinality(InHand') = Cardinality(InHand) + 1
    BY <1>4, <2>1, FS_AddElement
  <2> QED
    BY <1>1, <1>3, <1>5, <1>7, <2>2
<1>8. CASE from \in {"distributing", "stuck"} /\ to \notin {"distributing", "stuck"}
  <2>1. InHand' = InHand \ {l} /\ l \in InHand
    BY <1>1, <1>8 DEF InHand
  <2>2. Cardinality(InHand') = Cardinality(InHand) - 1
    BY <1>4, <2>1, FS_RemoveElement
  <2> QED
    BY <1>1, <1>3, <1>5, <1>8, <2>2
<1> QED
  BY <1>6, <1>7, <1>8

-----------------------------------------------------------------------------
(***************************************************************************)
(* The steps of the process.  Progress is what is left to show of each: the *)
(* hosts and the stream are the same for all of them.                      *)
(***************************************************************************)

Progress == ProcessTypes /\ Loading /\ IsFiniteSet(Started) /\ Accounted

\* A step that leaves alone what the results go through keeps the count of them.
LEMMA SameResults ==
  ASSUME PollerInv, UNCHANGED <<loops, distributor, produced, delivered, crsChan>>,
         run = "loading" => run' = "loading"
  PROVE  IsFiniteSet(Started') /\ Accounted'
BY DEF PollerInv, Started, Accounted, InHand

\* Before the configuration is loaded nothing is in hand.
LEMMA NothingInHand ==
  ASSUME PollerInv, run = "loading"
  PROVE  produced = 0 /\ delivered = 0 /\ crsChan = 0 /\ Cardinality(InHand) = 0
<1>1. InHand = {}
  BY DEF PollerInv, Loading, InHand
<1> QED
  BY <1>1, FS_EmptySet DEF PollerInv, Loading

\* Run: a step of start-up, signal handling or return preserves the process's part of the invariant.
LEMMA RunProgress ==
  ASSUME PollerInv, RunStep
  PROVE  Progress'
<1> USE DEF runVars, loopVars, statsdVars
<1>1. CASE StartUp
  <2>1. UNCHANGED <<host, open, produced, loops, crsChan, delivered>> /\ run = "loading"
    BY <1>1 DEF StartUp, vars, hostVars
  <2>2. ProcessTypes'
    BY <1>1 DEF StartUp, PollerInv, ProcessTypes
  <2>3. Loading'
    BY <1>1, <2>1 DEF StartUp, PollerInv, Loading
  <2>4. Accounted'
    BY <2>1, NothingInHand DEF Accounted, InHand
  <2> QED
    BY <2>1, <2>2, <2>3, <2>4 DEF PollerInv, Progress, Started
<1>2. CASE StartDistributor
  <2>1. UNCHANGED <<host, open, produced, loops, crsChan, delivered>> /\ run = "connecting" /\ run' = "select"
    BY <1>2 DEF StartDistributor, vars, hostVars
  <2>2. ProcessTypes'
    BY <1>2 DEF StartDistributor, PollerInv, ProcessTypes
  <2>3. distributor' # "off" => distributor # "off"
    BY <1>2 DEF StartDistributor
  <2>4. Accounted'
    BY <2>1, <2>3 DEF PollerInv, Accounted, InHand
  <2> QED
    BY <2>1, <2>2, <2>4 DEF PollerInv, Progress, Started, Loading
<1>3. CASE HandleSignal
  <2>1. UNCHANGED <<loops, distributor, produced, delivered, crsChan, run>> /\ run = "select"
    BY <1>3 DEF HandleSignal, CancelContext
  <2>2. ProcessTypes'
    BY <1>3 DEF HandleSignal, PollerInv, ProcessTypes
  <2> QED
    BY <2>1, <2>2, SameResults DEF Progress, Loading
<1>4. CASE RunReturns
  <2>1. UNCHANGED <<loops, distributor, produced, delivered, crsChan>> /\ run = "select" /\ run' = "returned"
    BY <1>4 DEF RunReturns, vars
  <2>2. ProcessTypes'
    BY <1>4 DEF RunReturns, PollerInv, ProcessTypes
  <2> QED
    BY <2>1, <2>2, SameResults DEF Progress, Loading
<1> QED
  BY <1>1, <1>2, <1>3, <1>4 DEF RunStep

\* Signals, the ends of the process and the pusher.
LEMMA ProcessProgress ==
  ASSUME PollerInv, ServiceStep \/ Signal \/ ForceExit \/ PusherStarts \/ PusherExits
  PROVE  Progress'
<1> USE DEF runVars, loopVars, statsdVars
<1>1. UNCHANGED <<host, loops, distributor, produced, delivered, crsChan, run>>
  BY DEF ServiceStep, ServiceStops, ServiceExits, Signal, ForceExit, PusherStarts, PusherExits, CancelContext, vars,
     hostVars
<1>2. \A h \in Host : open'[h] => open[h]
  BY DEF ServiceStep, ServiceStops, ServiceExits, Signal, ForceExit, PusherStarts, PusherExits, CancelContext, vars,
     hostVars
<1>3. ProcessTypes'
  <2>1. CASE ServiceStep
    BY <2>1 DEF ServiceStep, ServiceStops, ServiceExits, PollerInv, ProcessTypes
  <2>2. CASE Signal
    BY <2>2 DEF Signal, PollerInv, ProcessTypes
  <2>3. CASE ForceExit \/ PusherStarts \/ PusherExits
    BY <2>3 DEF ForceExit, PusherStarts, PusherExits, PollerInv, ProcessTypes
  <2> QED
    BY <2>1, <2>2, <2>3
<1>4. Loading'
  BY <1>1, <1>2 DEF PollerInv, Loading
<1> QED
  BY <1>1, <1>3, <1>4, SameResults DEF Progress

\* The stream works only once Run has started it.
LEMMA StreamProgress ==
  ASSUME PollerInv, StreamNext, run # "loading", UNCHANGED <<pollerVars, produced>>
  PROVE  Progress'
<1>1. UNCHANGED <<file, config, mode, run, process, signalNotify, forced, loops, stopped, distributor, crsChan,
                  delivered, pusher, produced>>
  BY DEF pollerVars, runVars, loopVars, statsdVars
<1> QED
  BY <1>1 DEF Progress, PollerInv, ProcessTypes, Loading, Started, Accounted, InHand

\* The distributor takes results out of crsChan and hands them on.
LEMMA StatsdProgress ==
  ASSUME PollerInv, SendToStatsd \/ DistributorExits
  PROVE  Progress'
<1>1. distributor = "running" /\ run # "loading"
  BY DEF SendToStatsd, DistributorExits, PollerInv, Loading
<1>2. UNCHANGED <<file, config, mode, run, process, signalNotify, forced, loops, stopped, pusher, produced>>
  BY DEF SendToStatsd, DistributorExits, runVars, loopVars, vars
<1>3. produced \in 0 .. MaxMetrics /\ produced = delivered + crsChan + Cardinality(InHand)
  BY <1>1 DEF PollerInv, IInv, TypeOK, Accounted, InHand
<1>4. Cardinality(InHand) \in Nat /\ Cardinality(InHand') = Cardinality(InHand)
  <2>1. InHand \in SUBSET Started
    BY DEF InHand, Started
  <2> QED
    BY <1>2, <2>1, FS_Subset, FS_CardinalityType DEF PollerInv, InHand
<1>5. /\ delivered' + crsChan' = delivered + crsChan
      /\ delivered' \in 0 .. MaxMetrics /\ crsChan' \in 0 .. crsChannelSize
      /\ distributor' \in {"running", "stopped"}
  BY <1>1, <1>3, <1>4 DEF SendToStatsd, DistributorExits, PollerInv, ProcessTypes
<1>6. ProcessTypes'
  BY <1>2, <1>5 DEF PollerInv, ProcessTypes
<1>7. Accounted'
  BY <1>2, <1>3, <1>4, <1>5 DEF Accounted, InHand, PollerInv, ProcessTypes
<1> QED
  BY <1>1, <1>2, <1>6, <1>7 DEF Progress, PollerInv, Loading, Started

-----------------------------------------------------------------------------
(***************************************************************************)
(* The steps of the loops.                                                 *)
(***************************************************************************)

\* A step of a loop, once the results are accounted for.
LEMMA LoopProgress ==
  ASSUME PollerInv, run # "loading", UNCHANGED <<runVars, stopped, distributor, delivered, pusher>>,
         loops' \in [Loop -> LoopState], IsFiniteSet(Started'), Cardinality(InHand) \in Nat,
         crsChan \in Nat, crsChan' \in 0 .. crsChannelSize, delivered \in Nat, produced \in Nat, produced' \in Nat,
         Cardinality(InHand') \in Int,
         distributor # "off" =>
           produced' - produced = (crsChan' - crsChan) + (Cardinality(InHand') - Cardinality(InHand))
  PROVE  Progress'
<1>1. UNCHANGED <<file, config, mode, run, process, signalNotify, forced, stopped, distributor, delivered, pusher>>
  BY DEF runVars
<1>2. ProcessTypes'
  BY <1>1 DEF PollerInv, ProcessTypes
<1>3. Accounted'
  BY <1>1 DEF PollerInv, Accounted, InHand
<1> QED
  BY <1>1, <1>2, <1>3 DEF Progress, Loading

\* A check's timer loop preserves it: a result is counted where it is handed over.
LEMMA LoopStepProgress ==
  ASSUME PollerInv, NEW l \in Loop, ScheduleCheck(l) \/ RunCheck(l) \/ SendStep(l) \/ LoopExits(l)
  PROVE  Progress'
<1> USE DEF statsdVars
<1>0. /\ ProcessTypes /\ IsFiniteSet(Started) /\ crsChan \in Nat /\ crsChan \in 0 .. crsChannelSize
      /\ delivered \in Nat /\ produced \in Nat
  BY DEF PollerInv, ProcessTypes, IInv, TypeOK
<1>1. run # "loading"
  <2>1. CASE ScheduleCheck(l)
    BY <2>1 DEF ScheduleCheck, PollerInv, Loading
  <2>2. CASE RunCheck(l) \/ SendStep(l) \/ LoopExits(l)
    BY <2>2 DEF RunCheck, SendStep, StageResult, Distribute, DistributeToNil, LoopExits, LoopStep, PollerInv, Loading
  <2> QED
    BY <2>1, <2>2
<1>2. CASE ScheduleCheck(l)
  <2>1. LoopStep(l, "none", "waiting") /\ UNCHANGED <<runVars, stopped, distributor, delivered, pusher, crsChan, produced>>
    BY <1>2 DEF ScheduleCheck, vars
  <2>2. loops' \in [Loop -> LoopState] /\ IsFiniteSet(Started') /\ Cardinality(InHand) \in Nat
        /\ Cardinality(InHand') = Cardinality(InHand)
    BY <1>0, <2>1, LoopFacts DEF LoopState
  <2> QED
    BY <1>0, <1>1, <2>1, <2>2, LoopProgress
<1>3. CASE RunCheck(l)
  <2>1. LoopStep(l, "waiting", "staging") /\ UNCHANGED <<runVars, stopped, distributor, delivered, pusher, crsChan, produced>>
    BY <1>3 DEF RunCheck, vars
  <2>2. loops' \in [Loop -> LoopState] /\ IsFiniteSet(Started') /\ Cardinality(InHand) \in Nat
        /\ Cardinality(InHand') = Cardinality(InHand)
    BY <1>0, <2>1, LoopFacts DEF LoopState
  <2> QED
    BY <1>0, <1>1, <2>1, <2>2, LoopProgress
<1>4. CASE StageResult(l) /\ distributor = "off"
  <2>1. /\ LoopStep(l, "staging", "waiting") /\ UNCHANGED <<runVars, stopped, distributor, delivered, pusher, crsChan>>
        /\ produced' = produced + 1
    BY <1>4 DEF StageResult, ProduceMetrics
  <2>2. loops' \in [Loop -> LoopState] /\ IsFiniteSet(Started') /\ Cardinality(InHand) \in Nat
        /\ Cardinality(InHand') = Cardinality(InHand)
    BY <1>0, <2>1, LoopFacts DEF LoopState
  <2> QED
    BY <1>0, <1>1, <1>4, <2>1, <2>2, LoopProgress
<1>5. CASE StageResult(l) /\ distributor # "off"
  <2>1. /\ LoopStep(l, "staging", "distributing") /\ UNCHANGED <<runVars, stopped, distributor, delivered, pusher, crsChan>>
        /\ produced' = produced + 1
    BY <1>5 DEF StageResult, ProduceMetrics
  <2>2. loops' \in [Loop -> LoopState] /\ IsFiniteSet(Started') /\ Cardinality(InHand) \in Nat
        /\ Cardinality(InHand') = Cardinality(InHand) + 1
    BY <1>0, <2>1, LoopFacts DEF LoopState
  <2> QED
    BY <1>0, <1>1, <2>1, <2>2, LoopProgress
<1>6. CASE Distribute(l)
  <2>1. /\ LoopStep(l, "distributing", "waiting")
        /\ UNCHANGED <<runVars, stopped, distributor, delivered, pusher, produced>>
        /\ crsChan < crsChannelSize /\ crsChan' = crsChan + 1
    BY <1>6 DEF Distribute, vars
  <2>2. loops' \in [Loop -> LoopState] /\ IsFiniteSet(Started') /\ Cardinality(InHand) \in Nat
        /\ Cardinality(InHand') = Cardinality(InHand) - 1
    BY <1>0, <2>1, LoopFacts DEF LoopState
  <2> QED
    BY <1>0, <1>1, <2>1, <2>2, LoopProgress
<1>7. CASE DistributeToNil(l)
  <2>1. /\ LoopStep(l, "distributing", "stuck")
        /\ UNCHANGED <<runVars, stopped, distributor, delivered, pusher, crsChan, produced>>
    BY <1>7 DEF DistributeToNil, vars
  <2>2. loops' \in [Loop -> LoopState] /\ IsFiniteSet(Started') /\ Cardinality(InHand) \in Nat
        /\ Cardinality(InHand') = Cardinality(InHand)
    BY <1>0, <2>1, LoopFacts DEF LoopState
  <2> QED
    BY <1>0, <1>1, <2>1, <2>2, LoopProgress
<1>8. CASE LoopExits(l)
  <2>1. LoopStep(l, "waiting", "ended") /\ UNCHANGED <<runVars, stopped, distributor, delivered, pusher, crsChan, produced>>
    BY <1>8 DEF LoopExits, vars
  <2>2. loops' \in [Loop -> LoopState] /\ IsFiniteSet(Started') /\ Cardinality(InHand) \in Nat
        /\ Cardinality(InHand') = Cardinality(InHand)
    BY <1>0, <2>1, LoopFacts DEF LoopState
  <2> QED
    BY <1>0, <1>1, <2>1, <2>2, LoopProgress
<1> QED
  BY <1>2, <1>3, <1>4, <1>5, <1>6, <1>7, <1>8 DEF SendStep

\* A reset of the schedulers preserves it: a cancelled loop keeps the result in its hands.
LEMMA ResetProgress ==
  ASSUME PollerInv, ResetLoops
  PROVE  Progress'
<1>1. /\ UNCHANGED <<file, config, mode, run, process, signalNotify, forced, loops, distributor, crsChan, delivered,
                     pusher, produced, host, open>>
      /\ stopped' \subseteq Loop
  BY DEF ResetLoops, SchedulerResets, runVars, statsdVars, hostVars
<1>2. ProcessTypes' /\ Loading'
  BY <1>1 DEF PollerInv, ProcessTypes, Loading
<1> QED
  BY <1>1, <1>2, SameResults DEF Progress

-----------------------------------------------------------------------------
(***************************************************************************)
(* The theorems about the process.                                         *)
(***************************************************************************)

\* A step of the process makes progress in the sense above.
LEMMA NextProgress ==
  ASSUME PollerInv, PollerNext
  PROVE  Progress'
<1>1. CASE RunStep
  BY <1>1, RunProgress
<1>2. CASE ServiceStep \/ Signal \/ ForceExit \/ PusherStarts \/ PusherExits
  BY <1>2, ProcessProgress
<1>3. ASSUME NEW h \in Host, HostNext(h) \/ SessionNext(h) \/ Stream(SendFrame(h))
      PROVE  Progress'
  <2>1. run # "loading" /\ UNCHANGED <<pollerVars, produced>>
    <3>1. CASE LookupFails(h)
      BY <3>1 DEF LookupFails, others
    <3>2. CASE Stream(HostStep(h))
      BY <3>2 DEF Stream, HostStep, CreateConnection, DialSucceeds, DialFails, SeeAuthenticated, Register, SeeDone,
         Deregister, HostExits, others
    <3>3. CASE SessionNext(h) \/ Stream(SendFrame(h))
      BY <3>3 DEF Stream, SessionNext, SessionStep, Authenticate, Measure, WriteBlocks, WriteReturns, SessionEnds,
         SendFrame, others
    <3> QED
      BY <1>3, <3>1, <3>2, <3>3 DEF HostNext
  <2> QED
    BY <2>1, PollerStreamNext, StreamProgress
<1>4. CASE CoordinatorNext
  <2>1. run # "loading" /\ UNCHANGED <<pollerVars, produced>>
    BY <1>4 DEF CoordinatorNext, Stream, CoordinatorStep, DropMetrics, RouteMetrics, StageMetrics, TakeRegistration, LoseAll,
       CoordinatorExits
  <2> QED
    BY <2>1, PollerStreamNext, StreamProgress
<1>5. ASSUME NEW l \in Loop, ScheduleCheck(l) \/ RunCheck(l) \/ SendStep(l) \/ LoopExits(l)
      PROVE  Progress'
  BY <1>5, LoopStepProgress
<1>6. CASE ResetLoops
  BY <1>6, ResetProgress
<1>7. CASE SendToStatsd \/ DistributorExits
  BY <1>7, StatsdProgress
<1> QED
  BY <1>1, <1>2, <1>3, <1>4, <1>5, <1>6, <1>7 DEF PollerNext

\* Run changes its configuration only while it loads it, when no host has moved.
LEMMA ConfigStays ==
  ASSUME PollerInv, PollerNext, run # "loading"
  PROVE  config' = config
<1> USE DEF pollerVars, runVars
<1>1. CASE RunStep
  BY <1>1 DEF RunStep, StartUp, StartDistributor, HandleSignal, RunReturns
<1>2. CASE ServiceStep \/ Signal \/ ForceExit \/ PusherStarts \/ PusherExits
  BY <1>2 DEF ServiceStep, ServiceStops, ServiceExits, Signal, ForceExit, PusherStarts, PusherExits
<1>3. ASSUME NEW h \in Host, HostNext(h) \/ SessionNext(h) \/ Stream(SendFrame(h))
      PROVE  config' = config
  BY <1>3 DEF HostNext, SessionNext, Stream, LookupFails
<1>4. CASE CoordinatorNext
  BY <1>4 DEF CoordinatorNext, Stream
<1>5. ASSUME NEW l \in Loop, ScheduleCheck(l) \/ RunCheck(l) \/ SendStep(l) \/ LoopExits(l)
      PROVE  config' = config
  BY <1>5 DEF ScheduleCheck, RunCheck, SendStep, StageResult, Distribute, DistributeToNil, LoopExits
<1>6. CASE ResetLoops \/ SendToStatsd \/ DistributorExits
  BY <1>6 DEF ResetLoops, SendToStatsd, DistributorExits
<1> QED
  BY <1>1, <1>2, <1>3, <1>4, <1>5, <1>6 DEF PollerNext

\* Every step of the process keeps the invariant.
LEMMA NextPollerInv ==
  ASSUME PollerInv, [PollerNext]_allVars
  PROVE  PollerInv'
<1>1. CASE PollerNext
  <2>1. IInv'
    BY <1>1, PollerStreamNext, StreamInv DEF PollerInv
  <2>2. Progress'
    BY <1>1, NextProgress
  <2>3. (\A h \in Host : HostMoves(h)) /\ (running' => running)
    BY <1>1, PollerStreamNext, HostsMove DEF PollerInv, IInv
  <2>4. Starting'
    BY <2>3 DEF PollerInv, Starting, HostMoves
  <2>5. HostsPersist'
    <3>1. CASE run # "loading"
      BY <1>1, <2>3, <3>1, ConfigStays DEF PollerInv, Starting, HostsPersist, HostMoves
    <3>2. CASE run = "loading"
      <4>1. \A h \in Host : host'[h] # "done"
        <5>1. \A h \in Host : host[h] = "starting"
          BY <3>2 DEF PollerInv, Loading
        <5>2. UNCHANGED host
          <6>1. CASE RunStep \/ ServiceStep \/ Signal \/ ForceExit
            BY <6>1 DEF RunStep, ServiceStep, StartUp, StartDistributor, HandleSignal, RunReturns, ServiceStops,
               ServiceExits, Signal, ForceExit, CancelContext, vars, hostVars
          <6>2. ASSUME NEW l \in Loop, ScheduleCheck(l) \/ RunCheck(l) \/ SendStep(l) \/ LoopExits(l)
                PROVE  UNCHANGED host
            BY <6>2 DEF ScheduleCheck, RunCheck, SendStep, StageResult, Distribute, DistributeToNil, LoopExits,
               ProduceMetrics, vars, hostVars
          <6>3. CASE ResetLoops \/ SendToStatsd \/ DistributorExits \/ PusherStarts \/ PusherExits
            BY <6>3 DEF ResetLoops, SchedulerResets, SendToStatsd, DistributorExits, PusherStarts, PusherExits, vars,
               hostVars
          <6> QED
            BY <1>1, <3>2, <6>1, <6>2, <6>3
               DEF PollerNext, HostNext, SessionNext, CoordinatorNext, Stream, LookupFails
        <5> QED
          BY <5>1, <5>2
      <4> QED
        BY <4>1 DEF HostsPersist
    <3> QED
      BY <3>1, <3>2
  <2> QED
    BY <2>1, <2>2, <2>4, <2>5 DEF PollerInv, Progress
<1>2. CASE UNCHANGED allVars
  <2>1. UNCHANGED <<vars, file, config, mode, run, process, signalNotify, forced, loops, stopped, distributor, crsChan,
                    delivered, pusher>>
    BY <1>2 DEF allVars, pollerVars, runVars, loopVars, statsdVars
  <2>2. IInv' /\ UNCHANGED <<host, open, number, running, produced>>
    BY <2>1, NextIInv DEF PollerInv, vars, hostVars
  <2>3. ProcessTypes'
    BY <2>1 DEF PollerInv, ProcessTypes
  <2>4. Loading' /\ Starting' /\ HostsPersist'
    BY <2>1, <2>2 DEF PollerInv, Loading, Starting, HostsPersist
  <2> QED
    BY <2>1, <2>2, <2>3, <2>4 DEF PollerInv, Started, Accounted, InHand
<1> QED
  BY <1>1, <1>2

\* The invariant of the process holds in every reachable state.
THEOREM PollerInvariant == PollerSpec => []PollerInv
BY InitPollerInv, NextPollerInv, PTL DEF PollerSpec

\* The process stays within its types and channels (signalNotify, crsChan) for
\* every capacity of them: no send of a signal or of a result overfills a channel.
THEOREM PollerStaysTyped == PollerSpec => []PollerTypeOK
<1>1. PollerInv => PollerTypeOK
  BY DEF PollerInv, IInv, ProcessTypes, PollerTypeOK
<1> QED
  BY <1>1, PollerInvariant, PTL

\* A result that the stream took is lost to statsd only with a loop that came to a nil
\* crsChan, or in crsChan after the cancellation (SendMetrics and the distributor's loop), for
\* every number of loops and every capacity of crsChan.
THEOREM PollerStatsdLosesNoOther == PollerSpec => []StatsdLosesNoOther
<1>1. ASSUME PollerInv PROVE StatsdLosesNoOther
  <2> DEFINE S == {l \in Loop : loops[l] = "stuck"}
  <2> DEFINE D == {l \in Loop : loops[l] = "distributing"}
  <2>1. S \in SUBSET Started /\ D \in SUBSET Started /\ IsFiniteSet(Started)
    BY <1>1 DEF PollerInv, Started
  <2>2. IsFiniteSet(S) /\ IsFiniteSet(D)
    BY <2>1, FS_Subset
  <2>3. Cardinality(S) \in Nat /\ Cardinality(D) \in Nat
    BY <2>2, FS_CardinalityType
  <2>4. InHand = S \cup D /\ S \cap D = {}
    BY DEF InHand
  <2> HIDE DEF S, D
  <2>5. Cardinality(InHand) = Cardinality(S) + Cardinality(D)
    <3>1. Cardinality(S \cap D) = 0
      BY <2>4, FS_EmptySet
    <3>2. Cardinality(S \cup D) = Cardinality(S) + Cardinality(D) - Cardinality(S \cap D)
      BY <2>2, FS_Union
    <3>3. Cardinality(S \cup D) = Cardinality(S) + Cardinality(D)
      BY <2>3, <3>1, <3>2
    <3> QED
      BY <2>4, <3>3
  <2>6. crsChan \in Nat /\ delivered \in Nat
    BY <1>1 DEF PollerInv, ProcessTypes
  <2>7. ASSUME run # "loading", distributor # "off" PROVE produced = delivered + OnTheWay + LostToStatsd
    <3>1. produced = delivered + crsChan + (Cardinality(S) + Cardinality(D))
      BY <1>1, <2>5, <2>7 DEF PollerInv, Accounted
    <3>2. LostToStatsd = Cardinality(S) + IF distributor = "stopped" THEN crsChan ELSE 0
      BY DEF LostToStatsd, S
    <3>3. OnTheWay = Cardinality(D) + IF distributor = "stopped" THEN 0 ELSE crsChan
      BY DEF OnTheWay, D
    <3>4. CASE distributor = "stopped"
      BY <2>3, <2>6, <3>1, <3>2, <3>3, <3>4
    <3>5. CASE distributor # "stopped"
      BY <2>3, <2>6, <3>1, <3>2, <3>3, <3>5
    <3> QED
      BY <3>4, <3>5
  <2> QED
    BY <2>7 DEF StatsdLosesNoOther
<1> QED
  BY <1>1, PollerInvariant, PTL

\* runHostConnection and connectBySrv: while the context is alive, only a failed first
\* look-up makes the process give up a host.
THEOREM PollerHostsPersist == PollerSpec => []HostsPersist
<1>1. PollerInv => HostsPersist
  BY DEF PollerInv
<1> QED
  BY <1>1, PollerInvariant, PTL

\* What is shown above of the map of connections holds in the process as well, where
\* look-ups fail, the service manager cancels and the loops produce the results.
THEOREM PollerMapFollowsConnections == PollerSpec => []MapFollowsConnections
<1>1. PollerInv => MapFollowsConnections
  BY MapInvImplies DEF PollerInv, IInv
<1> QED
  BY <1>1, PollerInvariant, PTL

=============================================================================
