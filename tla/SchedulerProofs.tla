---------------------------- MODULE SchedulerProofs ----------------------------
(***************************************************************************)
(* The invariants of Scheduler hold for every set of checks, definitions   *)
(* and sessions, every channel size and every number of preparations.      *)
(***************************************************************************)
EXTENDS Scheduler, TLAPS

USE DefinitionAssumption, BufferSizeAssumption, ChannelSizeAssumption, MaxPreparationsAssumption

-----------------------------------------------------------------------------
(***************************************************************************)
(* The inductive invariant.                                                *)
(***************************************************************************)

\* The reconciler's work list belongs to what it is doing.  While it reconciles,
\* every registered check is named by the preparation or about to be removed.
Phases ==
  /\ reconciler = "idle" => todo = {} /\ remainder = {}
  /\ reconciler # "reconciling" => todo = {} /\ current = NoPrep
  /\ reconciler = "reconciling" =>
       /\ current \in Actions
       /\ reconciliations > 0
       /\ todo \subseteq Named(current)
       /\ remainder \cap Named(current) = {}
       /\ Registered \subseteq Named(current) \cup remainder

\* The instances of reconciliations to come, and those that this one has yet to
\* create, do not exist: nobody polls them, cancelled them or registered them.
Fresh ==
  \A id \in CheckId, g \in 1 .. MaxPreparations :
    g > reconciliations \/ (g = reconciliations /\ id \in todo)
      => loops[<<id, g>>] = "none" /\ <<id, g>> \notin cancelled /\ checks[id] # g

\* No more is handed over than the bound allows.
Bounded == Handed <= MaxPreparations

IInv == TypeOK /\ Bounded /\ Phases /\ Fresh /\ NoOrphan

\* The initial state of NewCustomScheduler satisfies the invariant.
LEMMA InitIInv == Init => IInv
<1> SUFFICES ASSUME Init PROVE IInv
  OBVIOUS
<1>1. <<>> \in Seq(Actions) /\ Len(<<>>) = 0
  OBVIOUS
<1>2. TypeOK
  BY <1>1 DEF Init, TypeOK, Instance, LoopState
<1>3. Bounded /\ Phases
  BY <1>1 DEF Init, Bounded, Handed, Phases
<1>4. Fresh /\ NoOrphan
  BY DEF Init, Fresh, NoOrphan, Instance
<1> QED
  BY <1>2, <1>3, <1>4 DEF IInv

-----------------------------------------------------------------------------
(***************************************************************************)
(* Each step preserves it.                                                 *)
(***************************************************************************)

\* A step of another go routine that leaves the reconciler, the checks and the
\* loops alone keeps the parts of the invariant that are about them.
LEMMA CallIInv ==
  ASSUME IInv, UNCHANGED <<reconcilerVars, checks, cancelled, loops>>,
         process' = process \/ process' = "crashed",
         TypeOK', Bounded'
  PROVE  IInv'
  BY DEF IInv, reconcilerVars, Phases, Fresh, NoOrphan, Registered

\* ValidateChecks, Abandon, ReconcileChecks: what sessions call.
LEMMA SessionStepIInv ==
  ASSUME IInv, NEW s \in Sessions,
         \/ \E m \in SupportedManifest : ValidateChecks(s, m)
         \/ Abandon(s)
         \/ held[s] # NoPrep /\ \E actions \in Populated(held[s]) : ReconcileChecks(s, actions)
  PROVE  IInv'
<1> USE DEF IInv, reconcilerVars, loopVars
<1>1. ASSUME NEW m \in SupportedManifest, ValidateChecks(s, m)
      PROVE  IInv'
  <2>1. TypeOK' /\ Bounded'
    BY <1>1 DEF ValidateChecks, TypeOK, Bounded, Handed
  <2> QED
    BY <1>1, <2>1, CallIInv DEF ValidateChecks
<1>2. CASE Abandon(s)
  <2>1. TypeOK' /\ Bounded'
    BY <1>2 DEF Abandon, TypeOK, Bounded, Handed
  <2> QED
    BY <1>2, <2>1, CallIInv DEF Abandon
<1>3. ASSUME NEW actions \in Populated(held[s]), ReconcileChecks(s, actions)
      PROVE  IInv'
  <2>1. actions \in Actions
    BY DEF Populated
  <2>2. preparations' \in Seq(Actions) /\ Len(preparations') = Len(preparations) + 1
    BY <1>3, <2>1 DEF ReconcileChecks, TypeOK
  <2>3. TypeOK'
    BY <1>3, <2>2 DEF ReconcileChecks, TypeOK
  <2>4. Bounded'
    BY <1>3, <2>2 DEF ReconcileChecks, TypeOK, Bounded, Handed
  <2> QED
    BY <1>3, <2>3, <2>4, CallIInv DEF ReconcileChecks
<1> QED
  BY <1>1, <1>2, <1>3

\* The steps of runCheckTimerLoop and of the stream: the only loops that change
\* existed already, and they never become alive again.
LEMMA LoopIInv ==
  ASSUME IInv,
         \/ \E i \in Instance : LoopNext(i)
         \/ StreamTakesMetrics
  PROVE  IInv'
<1> USE DEF IInv, reconcilerVars
<1>1. ASSUME NEW i \in Instance, NEW from \in LoopState \ {"none"}, NEW to \in LoopState,
             LoopStep(i, from, to), metricsToSend' \in 0 .. metricsChannelSize
      PROVE  IInv'
  <2>1. TypeOK' /\ Bounded'
    BY <1>1 DEF LoopStep, TypeOK, Bounded, Handed
  <2>2. \A j \in Instance : loops[j] = "none" => loops'[j] = "none"
    BY <1>1 DEF LoopStep, TypeOK
  <2>3. \A id \in CheckId, g \in 1 .. MaxPreparations : <<id, g>> \in Instance
    BY DEF Instance
  <2>4. Phases'
    BY <1>1 DEF LoopStep, Phases, Registered
  <2>5. Fresh'
    BY <1>1, <2>2, <2>3 DEF LoopStep, Fresh
  <2>6. NoOrphan'
    BY <1>1, <2>2, <2>3 DEF LoopStep, NoOrphan
  <2> QED
    BY <2>1, <2>4, <2>5, <2>6
<1>2. ASSUME NEW i \in Instance,
             LoopNext(i)
      PROVE  IInv'
  <2>1. metricsToSend' \in 0 .. metricsChannelSize
    BY <1>2 DEF TypeOK, LoopNext, RunCheck, RunFails, RunEnds, SendMetrics, Distribute, LoopExits
  <2> QED
    BY <1>1, <1>2, <2>1 DEF LoopNext, RunCheck, RunFails, RunEnds, SendMetrics, Distribute, LoopExits, LoopState
<1>3. CASE StreamTakesMetrics
  <2>1. TypeOK' /\ Bounded'
    BY <1>3 DEF StreamTakesMetrics, TypeOK, Bounded, Handed
  <2> QED
    BY <1>3, <2>1, CallIInv DEF StreamTakesMetrics
<1> QED
  BY <1>2, <1>3

\* The select of runReconciler: taking a preparation or a reset, and coming back.
LEMMA SelectIInv ==
  ASSUME IInv, TakePreparation \/ TakeReset \/ BecomeIdle
  PROVE  IInv'
<1> USE DEF IInv
<1>1. CASE TakePreparation
  <2>1. Len(preparations) > 0 /\ Head(preparations) \in Actions
    BY <1>1 DEF TakePreparation, TypeOK
  <2>2. preparations' \in Seq(Actions) /\ Len(preparations') = Len(preparations) - 1
    BY <1>1, <2>1 DEF TakePreparation, TypeOK
  <2>3. reconciliations' = reconciliations + 1 /\ reconciliations' \in 1 .. MaxPreparations
    BY <1>1, <2>1 DEF TakePreparation, TypeOK, Bounded, Handed
  <2>4. checks' \in [CheckId -> 0 .. reconciliations']
    BY <1>1, <2>3 DEF TakePreparation, TypeOK
  <2>5. TypeOK'
    BY <1>1, <2>1, <2>2, <2>3, <2>4 DEF TakePreparation, loopVars, TypeOK, Named, Registered
  <2>6. Bounded'
    BY <1>1, <2>2 DEF TakePreparation, TypeOK, Bounded, Handed
  <2>7. Phases'
    BY <1>1, <2>1, <2>3 DEF TakePreparation, Phases, Registered
  <2>8. Fresh'
    <3> SUFFICES ASSUME NEW id \in CheckId, NEW g \in 1 .. MaxPreparations, g > reconciliations
                 PROVE  loops'[<<id, g>>] = "none" /\ <<id, g>> \notin cancelled' /\ checks'[id] # g
      BY <2>3 DEF Fresh, TypeOK
    <3> QED
      BY <1>1 DEF TakePreparation, loopVars, Fresh
  <2>9. NoOrphan'
    BY <1>1 DEF TakePreparation, loopVars, NoOrphan, Registered
  <2> QED
    BY <2>5, <2>6, <2>7, <2>8, <2>9
<1>2. CASE TakeReset
  <2>1. TypeOK' /\ Bounded'
    BY <1>2 DEF TakeReset, loopVars, TypeOK, Bounded, Handed, Registered
  <2>2. Phases' /\ Fresh'
    BY <1>2 DEF TakeReset, loopVars, Phases, Fresh
  <2>3. NoOrphan'
    BY <1>2 DEF TakeReset, loopVars, NoOrphan, Registered
  <2> QED
    BY <2>1, <2>2, <2>3
<1>3. CASE BecomeIdle
  <2>1. TypeOK' /\ Bounded'
    BY <1>3 DEF BecomeIdle, loopVars, TypeOK, Bounded, Handed
  <2>2. Phases' /\ Fresh'
    BY <1>3 DEF BecomeIdle, loopVars, Phases, Fresh
  <2>3. NoOrphan'
    BY <1>3 DEF BecomeIdle, loopVars, NoOrphan, Registered
  <2> QED
    BY <2>1, <2>2, <2>3
<1> QED
  BY <1>1, <1>2, <1>3

\* initiateCheck keeps the types and creates at most the instance of this
\* reconciliation, which it registers.
LEMMA InitiateFacts ==
  ASSUME IInv, reconciler = "reconciling", NEW id \in CheckId, NEW def, initiateCheck(id, def)
  PROVE  /\ checks' \in [CheckId -> 0 .. reconciliations]
         /\ loops' \in [Instance -> LoopState]
         /\ process' \in {"running", "crashed"}
         /\ \A other \in CheckId \ {id} : checks'[other] = checks[other]
         /\ checks'[id] \in {checks[id], reconciliations}
         /\ checks'[id] = checks[id] => process' = "crashed" \/ def = "invalid" \/ checks[id] = reconciliations
         /\ \A i \in Instance \ {<<id, reconciliations>>} : loops'[i] = loops[i]
         /\ loops'[<<id, reconciliations>>] = loops[<<id, reconciliations>>] \/ checks'[id] = reconciliations
<1>1. reconciliations \in 1 .. MaxPreparations /\ <<id, reconciliations>> \in Instance
  BY DEF IInv, TypeOK, Phases, Instance
<1>2. CASE def \in {"enabled", "disabled"}
  <2>1. checks' = [checks EXCEPT ![id] = reconciliations] /\ process' = process
    BY <1>2 DEF initiateCheck, NoDef
  <2>2. CASE loops' = [loops EXCEPT ![<<id, reconciliations>>] = "waiting"]
    BY <1>1, <2>1, <2>2 DEF IInv, TypeOK, LoopState
  <2>3. CASE loops' = loops
    BY <1>1, <2>1, <2>3 DEF IInv, TypeOK
  <2> QED
    BY <1>2, <2>2, <2>3 DEF initiateCheck, NoDef
<1>3. CASE def \notin {"enabled", "disabled"}
  BY <1>1, <1>3 DEF initiateCheck, IInv, TypeOK
<1> QED
  BY <1>2, <1>3

\* reconcile visits one check: the instance that it replaces is cancelled first.
LEMMA ReconcileIInv ==
  ASSUME IInv, NEW id \in CheckId, ReconcileCheck(id)
  PROVE  IInv'
<1> USE DEF IInv
<1>0. /\ reconciler = "reconciling" /\ id \in todo /\ id \in Named(current) /\ current \in Actions
      /\ reconciliations \in 1 .. MaxPreparations
  BY DEF ReconcileCheck, Phases, TypeOK
<1>1. CASE ContinueCheck(id)
  <2>1. TypeOK' /\ Bounded'
    BY <1>1 DEF ReconcileCheck, ContinueCheck, TypeOK, Bounded, Handed
  <2>2. Phases' /\ Fresh'
    BY <1>1 DEF ReconcileCheck, ContinueCheck, Phases, Fresh, Registered
  <2>3. NoOrphan'
    BY <1>1 DEF ReconcileCheck, ContinueCheck, NoOrphan, Registered
  <2> QED
    BY <2>1, <2>2, <2>3
<1>2. CASE StartCheck(id) \/ RestartCheck(id)
  <2>1. CancelExisting(id) /\ initiateCheck(id, current[id].def)
    BY <1>2 DEF StartCheck, RestartCheck, TypeOK
  <2>2. /\ cancelled \subseteq cancelled'
        /\ \A i \in Instance : i \in cancelled' => i \in cancelled \/ (i = <<id, checks[id]>> /\ checks[id] # 0)
        /\ checks[id] # 0 => <<id, checks[id]>> \in cancelled'
    BY <2>1 DEF CancelExisting, Registered
  <2>3. cancelled' \subseteq Instance
    BY <2>1 DEF CancelExisting, Registered, Instance, TypeOK
  <2>4. /\ checks' \in [CheckId -> 0 .. reconciliations]
        /\ loops' \in [Instance -> LoopState]
        /\ process' \in {"running", "crashed"}
        /\ \A other \in CheckId \ {id} : checks'[other] = checks[other]
        /\ checks'[id] \in {checks[id], reconciliations}
        /\ checks'[id] = checks[id] => process' = "crashed" \/ current[id].def = "invalid" \/ checks[id] = reconciliations
        /\ \A i \in Instance \ {<<id, reconciliations>>} : loops'[i] = loops[i]
        /\ loops'[<<id, reconciliations>>] = loops[<<id, reconciliations>>] \/ checks'[id] = reconciliations
    BY <1>0, <2>1, InitiateFacts
  <2>5. /\ loops[<<id, reconciliations>>] = "none" /\ <<id, reconciliations>> \notin cancelled
        /\ checks[id] # reconciliations
    BY <1>0 DEF Fresh
  <2>6. TypeOK' /\ Bounded'
    BY <2>1, <2>3, <2>4 DEF ReconcileCheck, TypeOK, Bounded, Handed
  <2>7. Phases'
    <3>1. Registered' \subseteq Registered \cup {id}
      BY <2>4 DEF Registered
    <3> QED
      BY <1>0, <3>1 DEF ReconcileCheck, Phases
  <2>8. Fresh'
    <3> SUFFICES ASSUME NEW other \in CheckId, NEW g \in 1 .. MaxPreparations,
                        g > reconciliations \/ (g = reconciliations /\ other \in todo /\ other # id)
                 PROVE  /\ loops'[<<other, g>>] = "none" /\ <<other, g>> \notin cancelled'
                        /\ checks'[other] # g
      BY DEF ReconcileCheck, Fresh
    <3>1. <<other, g>> \in Instance /\ <<other, g>> # <<id, reconciliations>>
      BY <1>0 DEF Instance
    <3>2. loops[<<other, g>>] = "none" /\ <<other, g>> \notin cancelled /\ checks[other] # g
      BY DEF Fresh
    <3>3. checks[id] \in 0 .. reconciliations
      BY DEF TypeOK
    <3>4. <<other, g>> # <<id, checks[id]>>
      BY <1>0, <2>5, <3>3
    <3> QED
      BY <1>0, <2>2, <2>4, <3>1, <3>2, <3>4
  <2>9. NoOrphan'
    <3> SUFFICES ASSUME NEW other \in CheckId, NEW g \in 1 .. MaxPreparations,
                        loops'[<<other, g>>] # "none", <<other, g>> \notin cancelled'
                 PROVE  checks'[other] = g
      BY DEF NoOrphan
    <3>1. <<other, g>> \in Instance
      BY DEF Instance
    <3>2. CASE <<other, g>> = <<id, reconciliations>>
      BY <2>4, <2>5, <3>2
    <3>3. CASE <<other, g>> # <<id, reconciliations>>
      <4>1. checks[other] = g
        BY <2>2, <2>4, <3>1, <3>3 DEF NoOrphan
      <4>2. other # id
        BY <2>2, <4>1
      <4> QED
        BY <2>4, <4>1, <4>2
    <3> QED
      BY <3>2, <3>3
  <2> QED
    BY <2>6, <2>7, <2>8, <2>9
<1> QED
  BY <1>1, <1>2 DEF ReconcileCheck

\* The loop over the remainder and the one of reset(): what leaves the map is
\* cancelled in the same step.
LEMMA RemoveIInv ==
  ASSUME IInv, NEW id \in CheckId, RemoveCheck(id)
  PROVE  IInv'
<1> USE DEF IInv
<1>1. /\ cancelled \subseteq cancelled'
      /\ \A i \in Instance : i \in cancelled' => i \in cancelled \/ (i = <<id, checks[id]>> /\ checks[id] # 0)
      /\ checks[id] # 0 => <<id, checks[id]>> \in cancelled'
  BY DEF RemoveCheck, CancelExisting, Registered
<1>2. cancelled' \subseteq Instance
  BY DEF RemoveCheck, CancelExisting, Registered, Instance, TypeOK
<1>3. /\ checks' \in [CheckId -> 0 .. reconciliations] /\ checks'[id] = 0
      /\ \A other \in CheckId \ {id} : checks'[other] = checks[other]
  BY DEF RemoveCheck, TypeOK
<1>4. TypeOK' /\ Bounded'
  BY <1>2, <1>3 DEF RemoveCheck, loopVars, TypeOK, Bounded, Handed
<1>5. Phases'
  <2>1. Registered' = Registered \ {id}
    BY <1>3 DEF Registered
  <2> QED
    BY <2>1 DEF RemoveCheck, Phases
<1>6. Fresh'
  <2> SUFFICES ASSUME NEW other \in CheckId, NEW g \in 1 .. MaxPreparations, g > reconciliations
               PROVE  loops'[<<other, g>>] = "none" /\ <<other, g>> \notin cancelled' /\ checks'[other] # g
    BY DEF RemoveCheck, Fresh
  <2>1. loops[<<other, g>>] = "none" /\ <<other, g>> \notin cancelled /\ checks[other] # g
    BY DEF Fresh
  <2>2. <<other, g>> \in Instance /\ <<other, g>> # <<id, checks[id]>>
    BY DEF Instance, TypeOK
  <2> QED
    BY <1>1, <1>3, <2>1, <2>2 DEF RemoveCheck, loopVars
<1>7. NoOrphan'
  <2> SUFFICES ASSUME NEW other \in CheckId, NEW g \in 1 .. MaxPreparations,
                      loops'[<<other, g>>] # "none", <<other, g>> \notin cancelled'
               PROVE  checks'[other] = g
    BY DEF NoOrphan
  <2>1. checks[other] = g
    BY <1>1 DEF NoOrphan, RemoveCheck, loopVars
  <2> QED
    BY <1>1, <1>3, <2>1
<1> QED
  BY <1>4, <1>5, <1>6, <1>7

\* Every step of the scheduler preserves the invariant.
LEMMA NextIInv == IInv /\ [Next]_vars => IInv'
<1> SUFFICES ASSUME IInv, [Next]_vars PROVE IInv'
  OBVIOUS
<1>1. CASE UNCHANGED vars
  <2>1. TypeOK' /\ Bounded'
    BY <1>1 DEF vars, reconcilerVars, loopVars, IInv, TypeOK, Bounded, Handed
  <2> QED
    BY <1>1, <2>1, CallIInv DEF vars, loopVars
<1>2. CASE Reset
  <2>1. Handed \in 0 .. MaxPreparations
    BY DEF Handed, Bounded, TypeOK, IInv
  <2>2. TypeOK' /\ Bounded'
    BY <1>2, <2>1 DEF Reset, reconcilerVars, loopVars, TypeOK, Bounded, Handed, IInv
  <2> QED
    BY <1>2, <2>2, CallIInv DEF Reset, loopVars
<1> QED
  BY <1>1, <1>2, SessionStepIInv, LoopIInv, SelectIInv, ReconcileIInv, RemoveIInv DEF Next

\* The inductive invariant holds throughout.
THEOREM SchedulerInvariant == Spec => []IInv
  BY InitIInv, NextIInv, PTL DEF Spec

\* Every variable of the scheduler keeps its type.
THEOREM SchedulerTypeOK == Spec => []TypeOK
  BY SchedulerInvariant, PTL DEF IInv

\* No go routine polls an instance that the map of checks has lost.
THEOREM SchedulerNoOrphan == Spec => []NoOrphan
  BY SchedulerInvariant, PTL DEF IInv

\* A registered check loses its go routine only to a definition that cannot be used.
THEOREM SchedulerRefusalStrands == Spec => RefusalStrands
<1> DEFINE Told == \A id \in Stranded' \ Stranded : id \in todo /\ current[id].def \notin {"enabled", "disabled"}
<1>1. IInv /\ [Next]_vars => [Told]_vars
  <2> SUFFICES ASSUME IInv, Next, NEW other \in Stranded', other \notin Stranded
               PROVE  other \in todo /\ current[other].def \notin {"enabled", "disabled"}
    OBVIOUS
  <2>0. other \in CheckId /\ checks'[other] # 0 /\ <<other, checks'[other]>> \in cancelled'
    BY DEF Stranded, Registered
  <2>1. CASE UNCHANGED <<checks, cancelled>>
    BY <2>1 DEF Stranded, Registered
  <2>2. ASSUME NEW id \in CheckId, ReconcileCheck(id)
        PROVE  other \in todo /\ current[other].def \notin {"enabled", "disabled"}
    <3>1. CASE ContinueCheck(id)
      BY <2>1, <3>1 DEF ContinueCheck
    <3>2. CASE StartCheck(id) \/ RestartCheck(id)
      <4>1. CancelExisting(id) /\ initiateCheck(id, current[id].def)
        BY <3>2 DEF StartCheck, RestartCheck
      <4>2. \A x \in CheckId \ {id} : checks'[x] = checks[x]
        BY <2>2, <4>1, InitiateFacts DEF ReconcileCheck
      <4>3. other = id
        BY <2>0, <4>1, <4>2 DEF CancelExisting, Stranded, Registered
      <4>4. id \in todo /\ reconciliations \in 1 .. MaxPreparations
        BY <2>2 DEF ReconcileCheck, IInv, Phases, TypeOK
      <4>5. CASE current[id].def \in {"enabled", "disabled"}
        <5>1. checks'[id] = reconciliations
          BY <4>1, <4>5 DEF initiateCheck, NoDef, IInv, TypeOK
        <5>2. <<id, reconciliations>> \notin cancelled /\ checks[id] # reconciliations
          BY <4>4 DEF IInv, Fresh
        <5> QED
          BY <2>0, <4>1, <4>3, <5>1, <5>2 DEF CancelExisting
      <4> QED
        BY <4>3, <4>4, <4>5
    <3> QED
      BY <2>2, <3>1, <3>2 DEF ReconcileCheck
  <2>3. ASSUME NEW id \in CheckId, RemoveCheck(id)
        PROVE  other \in todo /\ current[other].def \notin {"enabled", "disabled"}
    <3>1. other # id /\ checks'[other] = checks[other]
      BY <2>0, <2>3 DEF RemoveCheck, IInv, TypeOK
    <3> QED
      BY <2>0, <2>3, <3>1 DEF RemoveCheck, CancelExisting, Stranded, Registered
  <2> QED
    BY <2>1, <2>2, <2>3
    DEF Next, ValidateChecks, Abandon, ReconcileChecks, Reset, TakePreparation, TakeReset, BecomeIdle,
        LoopNext, RunCheck, RunFails, RunEnds, SendMetrics, Distribute, LoopExits, LoopStep, StreamTakesMetrics, reconcilerVars
<1> QED
  BY <1>1, SchedulerInvariant, PTL DEF Spec, RefusalStrands

\* When reconcile returns, only checks that the preparation names are registered.
THEOREM SchedulerOnlyNamedRemain == Spec => OnlyNamedRemain
<1>1. IInv /\ [Next]_vars => [reconciler = "reconciling" /\ reconciler' = "idle" => Registered \subseteq Named(current)]_vars
  <2> SUFFICES ASSUME IInv, Next, reconciler = "reconciling", reconciler' = "idle"
               PROVE  Registered \subseteq Named(current)
    OBVIOUS
  <2>1. BecomeIdle
    BY DEF Next, ValidateChecks, Abandon, ReconcileChecks, Reset, TakePreparation, TakeReset, ReconcileCheck,
           RemoveCheck, LoopNext, RunCheck, RunFails, RunEnds, SendMetrics, Distribute, LoopExits, LoopStep, StreamTakesMetrics, reconcilerVars
  <2> QED
    BY <2>1 DEF BecomeIdle, IInv, Phases
<1> QED
  BY <1>1, SchedulerInvariant, PTL DEF Spec, OnlyNamedRemain

\* A continued check is left alone by every step of its reconciliation.
THEOREM SchedulerContinueNeverInterrupts == Spec => ContinueNeverInterrupts
<1> DEFINE Kept == \A id \in Registered :
       current # NoPrep /\ current[id].action = "continue"
         => checks'[id] = checks[id] /\ (<<id, checks[id]>> \in cancelled' => <<id, checks[id]>> \in cancelled)
<1>1. IInv /\ [Next]_vars => [Kept]_vars
  <2> SUFFICES ASSUME IInv, Next PROVE Kept
    OBVIOUS
  <2>1. CASE UNCHANGED <<checks, cancelled>>
    BY <2>1
  <2>2. ASSUME NEW id \in CheckId, ReconcileCheck(id) PROVE Kept
    <3>1. CASE ContinueCheck(id)
      BY <2>1, <3>1 DEF ContinueCheck
    <3>2. CASE StartCheck(id) \/ RestartCheck(id)
      <4>1. current[id].action # "continue" /\ CancelExisting(id) /\ initiateCheck(id, current[id].def)
        BY <3>2 DEF StartCheck, RestartCheck
      <4>2. \A other \in CheckId \ {id} : checks'[other] = checks[other]
        BY <2>2, <4>1, InitiateFacts DEF ReconcileCheck
      <4> QED
        BY <4>1, <4>2 DEF CancelExisting, Registered
    <3> QED
      BY <2>2, <3>1, <3>2 DEF ReconcileCheck
  <2>3. ASSUME NEW id \in CheckId, RemoveCheck(id) PROVE Kept
    <3>1. CASE reconciler = "reconciling"
      <4>1. id \notin Named(current)
        BY <2>3, <3>1 DEF RemoveCheck, IInv, Phases
      <4>2. current[id].action # "continue"
        BY <4>1 DEF Named, Absent
      <4> QED
        BY <2>3, <4>2 DEF RemoveCheck, CancelExisting, Registered, IInv, TypeOK
    <3>2. CASE reconciler # "reconciling"
      BY <3>2 DEF IInv, Phases
    <3> QED
      BY <3>1, <3>2
  <2> QED
    BY <2>1, <2>2, <2>3
    DEF Next, ValidateChecks, Abandon, ReconcileChecks, Reset, TakePreparation, TakeReset, BecomeIdle,
        LoopNext, RunCheck, RunFails, RunEnds, SendMetrics, Distribute, LoopExits, LoopStep, StreamTakesMetrics
<1> QED
  BY <1>1, SchedulerInvariant, PTL DEF Spec, ContinueNeverInterrupts

=============================================================================
