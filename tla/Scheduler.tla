------------------------------- MODULE Scheduler -------------------------------
(***************************************************************************)
(* One zone's scheduler, poller/scheduler.go: the go routine of            *)
(* runReconciler, which owns the map of checks, and one go routine of      *)
(* runCheckTimerLoop per scheduled check.  The sessions call               *)
(* ValidateChecks and ReconcileChecks, the connection stream calls Reset   *)
(* and empties the channel of results.                                     *)
(*                                                                         *)
(* A check instance (the check.Check that check.NewCheckParsed returns,    *)
(* with a context of its own) is identified by its check ID and by the     *)
(* number of the reconciliation that created it; a reconciliation creates  *)
(* at most one per ID.  The version of a preparation plays no role here,   *)
(* so a preparation is its map of actions.                                 *)
(*                                                                         *)
(* Go's select picks any ready case and a map is visited in any order.     *)
(* ValidateChecks reads the map of checks without synchronisation: while   *)
(* the reconciler writes it, the read is a data race: it sees the map      *)
(* before or after the write, or meets the run-time's fatal "concurrent    *)
(* map read and map write".                                                *)
(***************************************************************************)
EXTENDS ChecksPreparation, Sequences, FiniteSets

CONSTANTS
  Sessions,                    \* the sessions that share the scheduler
  checkPreparationBufferSize,  \* capacity of the channel preparations
  metricsChannelSize,          \* capacity of the stream's channel metricsToSend
  MaxPreparations              \* bound: how many preparations are validated and handed over

ASSUME BufferSizeAssumption == checkPreparationBufferSize \in Nat \ {0}
ASSUME ChannelSizeAssumption == metricsChannelSize \in Nat \ {0}
ASSUME MaxPreparationsAssumption == MaxPreparations \in Nat

VARIABLES
  held,           \* session -> the validated manifest it prepares, or NoPrep
  preparations,   \* channel of preparations handed over by commits
  resets,         \* channel of capacity 1: number of pending resets
  reconciler,     \* what the reconciler go routine is doing
  current,        \* the preparation it reconciles, or NoPrep
  todo,           \* IDs in current that it has yet to visit
  remainder,      \* IDs that it is going to remove
  reconciliations,\* number of preparations taken so far
  checks,         \* check ID -> number of the registered instance, 0 if none
  cancelled,      \* instances whose context was cancelled
  loops,          \* instance -> state of its runCheckTimerLoop
  metricsToSend,  \* number of results waiting for the connection stream
  process         \* "crashed" after an unrecovered panic or a fatal error

reconcilerVars == <<reconciler, current, todo, remainder, reconciliations>>
loopVars == <<loops, metricsToSend>>
vars == <<held, preparations, resets, reconcilerVars, checks, cancelled, loopVars, process>>

Instance == CheckId \X (1 .. MaxPreparations)
Actions == [CheckId -> ActionableCheck \cup {Absent}]
SupportedManifest == [CheckId -> {"start", "restart", "continue", "none"}]
LoopState == {"none", "waiting", "running", "sending", "distributing"}

\* The number of preparations handed over so far.
Handed == reconciliations + Len(preparations)

Registered == {id \in CheckId : checks[id] # 0}

\* Checks in the map that were cancelled.
Stranded == {id \in Registered : <<id, checks[id]>> \in cancelled}

-----------------------------------------------------------------------------
(***************************************************************************)
(* What a session may hand over for a manifest: it may commit before every *)
(* definition has arrived, and after definitions that nobody declared.  A  *)
(* definition for a continued check is never read and left out.            *)
(***************************************************************************)

Entries(action) ==
  IF action = "none"
  THEN {Absent, [action |-> "unknown", populated |-> FALSE, def |-> NoDef]}
       \cup [action : {"unknown"}, populated : {TRUE}, def : Definition]
  ELSE IF action = "continue"
  THEN {[action |-> action, populated |-> TRUE, def |-> NoDef]}
  ELSE {[action |-> action, populated |-> FALSE, def |-> NoDef]}
       \cup [action : {action}, populated : {TRUE}, def : Definition]

Populated(manifest) ==
  {actions \in Actions : \A id \in CheckId : actions[id] \in Entries(manifest[id])}

\* Mutant: entries without a definition are skipped.
NamedDefined(actions) == {id \in CheckId : actions[id].def # NoDef}

\* GetActionableChecks with the ID that each entry carries: an undeclared entry
\* that was never defined has the empty ID and so stands for no check.
Named(actions) ==
  {id \in CheckId : actions[id] # Absent /\ ~(actions[id].action = "unknown" /\ actions[id].def = NoDef)}

Init ==
  /\ held = [s \in Sessions |-> NoPrep]
  /\ preparations = <<>>
  /\ resets = 0
  /\ reconciler = "idle"
  /\ current = NoPrep
  /\ todo = {} /\ remainder = {}
  /\ reconciliations = 0
  /\ checks = [id \in CheckId |-> 0]
  /\ cancelled = {}
  /\ loops = [i \in Instance |-> "none"]
  /\ metricsToSend = 0
  /\ process = "running"

-----------------------------------------------------------------------------
(***************************************************************************)
(* Calls from other go routines.                                           *)
(***************************************************************************)

\* The reconciler is in a loop that writes the map of checks.
Writing ==
  remainder # {} \/ \E id \in todo : current[id].action \in {"start", "restart"}

\* ValidateChecks on a manifest: what is restarted or continued must exist.
ChecksExist(manifest) ==
  \A id \in CheckId : manifest[id] \in {"restart", "continue"} => id \in Registered

ValidateChecks(s, manifest) ==
  /\ process = "running" /\ Handed < MaxPreparations
  /\ \/ /\ ChecksExist(manifest)
        /\ held' = [held EXCEPT ![s] = manifest]
        /\ process' = process
     \/ /\ Writing
        /\ held' = held
        /\ process' = "crashed"
  /\ UNCHANGED <<preparations, resets, reconcilerVars, checks, cancelled, loopVars>>

\* The session gives its preparation up: abort, expiry, end of the session.
Abandon(s) ==
  /\ process = "running"
  /\ held[s] # NoPrep
  /\ held' = [held EXCEPT ![s] = NoPrep]
  /\ UNCHANGED <<preparations, resets, reconcilerVars, checks, cancelled, loopVars, process>>

\* The session commits: the call blocks while the channel is full.
ReconcileChecks(s, actions) ==
  /\ process = "running"
  /\ Len(preparations) < checkPreparationBufferSize /\ Handed < MaxPreparations
  /\ held' = [held EXCEPT ![s] = NoPrep]
  /\ preparations' = Append(preparations, actions)
  /\ UNCHANGED <<resets, reconcilerVars, checks, cancelled, loopVars, process>>

\* The stream lost its last connection: the call blocks while a reset is pending.
Reset ==
  /\ process = "running"
  /\ resets < 1
  /\ resets' = resets + 1
  /\ UNCHANGED <<held, preparations, reconcilerVars, checks, cancelled, loopVars, process>>

-----------------------------------------------------------------------------
(***************************************************************************)
(* The reconciler: the cases of its select and, within a case, one step    *)
(* per check so that the other go routines run in between.                 *)
(***************************************************************************)

\* Mutant: checks that the preparation does not mention are kept.
TakePreparationAdditive ==
  /\ process = "running" /\ reconciler = "idle"
  /\ preparations # <<>>
  /\ preparations' = Tail(preparations)
  /\ reconciler' = "reconciling"
  /\ current' = Head(preparations)
  /\ todo' = Named(Head(preparations))
  /\ remainder' = {}
  /\ reconciliations' = reconciliations + 1
  /\ UNCHANGED <<held, resets, checks, cancelled, loopVars, process>>

\* case cp := <-s.preparations
TakePreparation ==
  /\ process = "running" /\ reconciler = "idle"
  /\ preparations # <<>>
  /\ preparations' = Tail(preparations)
  /\ reconciler' = "reconciling"
  /\ current' = Head(preparations)
  /\ todo' = Named(Head(preparations))
  /\ remainder' = Registered \ Named(Head(preparations))
  /\ reconciliations' = reconciliations + 1
  /\ UNCHANGED <<held, resets, checks, cancelled, loopVars, process>>

\* Mutant: a reset also empties the channel of preparations.
TakeResetDrains ==
  /\ process = "running" /\ reconciler = "idle"
  /\ resets > 0
  /\ resets' = resets - 1
  /\ reconciler' = "resetting"
  /\ remainder' = Registered
  /\ preparations' = <<>>
  /\ UNCHANGED <<held, current, todo, reconciliations, checks, cancelled, loopVars, process>>

\* case <-s.resets
TakeReset ==
  /\ process = "running" /\ reconciler = "idle"
  /\ resets > 0
  /\ resets' = resets - 1
  /\ reconciler' = "resetting"
  /\ remainder' = Registered
  /\ UNCHANGED <<held, preparations, current, todo, reconciliations, checks, cancelled, loopVars, process>>

\* Mutant: the existing check is overwritten without being cancelled.
CancelNothing(id) == cancelled' = cancelled

\* CancelCheck of the registered instance, if there is one.
CancelExisting(id) ==
  cancelled' = cancelled \cup {i \in {<<id, checks[id]>>} : id \in Registered}

\* initiateCheck: the constructor dereferences the details, and so does the
\* warning about a definition that it refuses.  A refused definition leaves the
\* map alone; a disabled check is registered without a go routine.
initiateCheck(id, def) ==
  \/ /\ def \in {"enabled", "disabled"}
     /\ checks' = [checks EXCEPT ![id] = reconciliations]
     /\ loops' = IF def = "enabled" THEN [loops EXCEPT ![<<id, reconciliations>>] = "waiting"] ELSE loops
     /\ process' = process
  \/ /\ def = "invalid"
     /\ UNCHANGED <<checks, loops, process>>
  \/ /\ def \in {"noDetails", NoDef}
     /\ process' = "crashed"
     /\ UNCHANGED <<checks, loops>>

\* Mutant: the cancellation comes last and is by ID, so that it also hits the new check.
StartThenCancel(id) ==
  /\ current[id].action = "start"
  /\ initiateCheck(id, current[id].def)
  /\ cancelled' = cancelled \cup {i \in {<<id, checks[id]>>, <<id, checks'[id]>>} : id \in Registered}

StartCheck(id) ==
  /\ current[id].action = "start"
  /\ CancelExisting(id)
  /\ initiateCheck(id, current[id].def)

RestartCheck(id) ==
  /\ current[id].action = "restart"
  /\ CancelExisting(id)
  /\ initiateCheck(id, current[id].def)

\* A continued check, known or not, and an entry of unknown action.
ContinueCheck(id) ==
  /\ current[id].action \in {"continue", "unknown"}
  /\ UNCHANGED <<cancelled, checks, loops, process>>

ReconcileCheck(id) ==
  /\ process = "running" /\ reconciler = "reconciling"
  /\ id \in todo
  /\ todo' = todo \ {id}
  /\ StartCheck(id) \/ RestartCheck(id) \/ ContinueCheck(id)
  /\ UNCHANGED <<held, preparations, resets, reconciler, current, remainder, reconciliations, metricsToSend>>

\* The loop over the remainder, and the one of reset().
RemoveCheck(id) ==
  /\ process = "running" /\ reconciler # "idle"
  /\ todo = {} /\ id \in remainder
  /\ remainder' = remainder \ {id}
  /\ CancelExisting(id)
  /\ checks' = [checks EXCEPT ![id] = 0]
  /\ UNCHANGED <<held, preparations, resets, reconciler, current, todo, reconciliations, loopVars, process>>

\* Back to the select.
BecomeIdle ==
  /\ process = "running" /\ reconciler # "idle"
  /\ todo = {} /\ remainder = {}
  /\ reconciler' = "idle"
  /\ current' = NoPrep
  /\ UNCHANGED <<held, preparations, resets, todo, remainder, reconciliations, checks, cancelled, loopVars, process>>

-----------------------------------------------------------------------------
(***************************************************************************)
(* runCheckTimerLoop.  A cancelled check whose wait period is over may     *)
(* still be picked by the select.                                          *)
(***************************************************************************)

LoopStep(i, from, to) ==
  /\ process = "running"
  /\ loops[i] = from
  /\ loops' = [loops EXCEPT ![i] = to]
  /\ UNCHANGED <<held, preparations, resets, reconcilerVars, checks, cancelled, process>>

\* case <-time.After(ch.GetWaitPeriod()): Execute runs the check.
RunCheck(i) == LoopStep(i, "waiting", "running") /\ UNCHANGED metricsToSend

RunFails(i) == LoopStep(i, "running", "waiting") /\ UNCHANGED metricsToSend

RunEnds(i) == LoopStep(i, "running", "sending") /\ UNCHANGED metricsToSend

\* The stream's SendMetrics: it blocks while the stream's channel is full ...
SendMetrics(i) ==
  /\ LoopStep(i, "sending", "distributing")
  /\ metricsToSend < metricsChannelSize
  /\ metricsToSend' = metricsToSend + 1

\* ... and then is in the distributor's Distribute, which module Poller describes: it may
\* never return, as when nobody empties the channel of results for statsd.
Distribute(i) == LoopStep(i, "distributing", "waiting") /\ UNCHANGED metricsToSend

\* Mutant: the loop ends only when its check is gone from the map.
LoopExitsUnregistered(i) ==
  /\ i \in cancelled /\ i[1] \notin Registered
  /\ LoopStep(i, "waiting", "none")
  /\ UNCHANGED metricsToSend

\* case <-ch.Done()
LoopExits(i) ==
  /\ i \in cancelled
  /\ LoopStep(i, "waiting", "none")
  /\ UNCHANGED metricsToSend

\* The connection stream takes a result.
StreamTakesMetrics ==
  /\ process = "running"
  /\ metricsToSend > 0
  /\ metricsToSend' = metricsToSend - 1
  /\ UNCHANGED <<held, preparations, resets, reconcilerVars, checks, cancelled, loops, process>>

LoopNext(i) ==
  \/ RunCheck(i) \/ RunFails(i) \/ RunEnds(i)
  \/ SendMetrics(i) \/ Distribute(i) \/ LoopExits(i)

Next ==
  \/ \E s \in Sessions, m \in SupportedManifest : ValidateChecks(s, m)
  \/ \E s \in Sessions : Abandon(s)
  \/ \E s \in Sessions : held[s] # NoPrep /\ \E actions \in Populated(held[s]) : ReconcileChecks(s, actions)
  \/ Reset
  \/ TakePreparation
  \/ TakeReset
  \/ \E id \in CheckId : ReconcileCheck(id) \/ RemoveCheck(id)
  \/ BecomeIdle
  \/ \E i \in Instance : LoopNext(i)
  \/ StreamTakesMetrics

Spec == Init /\ [][Next]_vars

\* The reconciler takes what is ready and its loops end; select picks a case that is
\* ready again and again, and blocked senders are served in order.  Nothing makes a run
\* end, the stream take a result or Distribute return.
ReconcilerFairness ==
  /\ SF_vars(TakePreparation) /\ SF_vars(TakeReset) /\ WF_vars(BecomeIdle)
  /\ \A id \in CheckId : WF_vars(ReconcileCheck(id)) /\ WF_vars(RemoveCheck(id))

LoopFairness == \A i \in Instance : SF_vars(SendMetrics(i)) /\ SF_vars(LoopExits(i))

FairSpec == Spec /\ ReconcilerFairness /\ LoopFairness

-----------------------------------------------------------------------------
(***************************************************************************)
(* Properties.                                                             *)
(***************************************************************************)

\* Every variable holds a value of its type; in particular an instance number is
\* never above the number of reconciliations.
TypeOK ==
  /\ held \in [Sessions -> SupportedManifest \cup {NoPrep}]
  /\ preparations \in Seq(Actions)
  /\ resets \in 0 .. 1
  /\ reconciler \in {"idle", "reconciling", "resetting"}
  /\ current \in Actions \cup {NoPrep}
  /\ todo \subseteq CheckId /\ remainder \subseteq CheckId
  /\ reconciliations \in 0 .. MaxPreparations
  /\ checks \in [CheckId -> 0 .. reconciliations]
  /\ cancelled \subseteq Instance
  /\ loops \in [Instance -> LoopState]
  /\ metricsToSend \in 0 .. metricsChannelSize
  /\ process \in {"running", "crashed"}

\* A go routine that polls a check and was not told to stop polls the instance
\* that is registered: nothing runs that a later reconciliation or reset could not
\* cancel, and no check is polled by two such go routines.
NoOrphan ==
  \A id \in CheckId, g \in 1 .. MaxPreparations :
    loops[<<id, g>>] # "none" /\ <<id, g>> \notin cancelled => checks[id] = g

\* A registered check is left without a live go routine only by a start or restart of
\* it whose definition could not be used: the existing check is cancelled before the
\* definition is parsed, and stays in the map when that fails.
RefusalStrands ==
  [][\A id \in Stranded' \ Stranded : id \in todo /\ current[id].def \notin {"enabled", "disabled"}]_vars

\* A check that the preparation continues is neither replaced, removed nor
\* cancelled while the preparation is reconciled, whatever else runs.
ContinueNeverInterrupts ==
  [][\A id \in Registered :
       current # NoPrep /\ current[id].action = "continue"
         => checks'[id] = checks[id] /\ (<<id, checks[id]>> \in cancelled' => <<id, checks[id]>> \in cancelled)]_vars

\* The checks that a finished reconciliation leaves registered are checks that its
\* preparation names: everything else was removed.
OnlyNamedRemain ==
  [][reconciler = "reconciling" /\ reconciler' = "idle" => Registered \subseteq Named(current)]_vars

\* The go routine of a check is out of reach of its context's Done: it is in a run, in a
\* send to a stream that does not take results, or in Distribute.
OutOfReach(i) ==
  \/ loops[i] \in {"running", "distributing"}
  \/ loops[i] = "sending" /\ metricsToSend = metricsChannelSize

\* A cancelled check eventually stops being polled: its go routine lives on only if it
\* never comes out of the run, the send or the Distribute that it is in.  A loop that
\* comes back to its select ends, however often the select picks the timer.
CancelledStops ==
  \A i \in Instance : i \in cancelled ~> (loops[i] = "none" \/ process = "crashed" \/ []OutOfReach(i))

\* A preparation that was handed over is eventually reconciled.
HandedIsReconciled ==
  \A n \in 1 .. MaxPreparations :
    Handed = n ~> ((reconciliations >= n /\ reconciler = "idle") \/ process = "crashed")

=============================================================================
