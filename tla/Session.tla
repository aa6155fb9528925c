-------------------------------- MODULE Session --------------------------------
(***************************************************************************)
(* The poller's half of the two-phase commit of checks: the frame handling *)
(* go routine of poller/session.go and the prepDetails it owns.  The       *)
(* server is arbitrary: it may send poller.prepare, poller.prepare.block,  *)
(* poller.prepare.end and poller.commit frames in any order and with any   *)
(* content, since nothing in the code restricts it.                        *)
(*                                                                         *)
(* One action is one iteration of the select loop in                       *)
(* runFrameHandlingAndTimeout.  The *time.Timer is modelled by the states  *)
(* that Stop, Reset and a receive on its channel can tell apart; a timer   *)
(* method on nil and a response to a nil frame are run-time panics         *)
(* ("crashed"), and a receive that no one will ever serve blocks the       *)
(* go routine for good ("hung").                                           *)
(***************************************************************************)
EXTENDS ChecksPreparation, Sequences

CONSTANTS
  Version,     \* the version numbers that frames may carry
  MaxFrames,   \* bound: how many server frames a behaviour contains
  NoMsg        \* a nil *FrameMsg

ASSUME VersionAssumption == Version \subseteq Int
ASSUME MaxFramesAssumption == MaxFrames \in Nat
ASSUME NoMsgAssumption == NoMsg \notin Int

VARIABLES
  activePrep,              \* the preparation in progress, or NoPrep
  newestCommittedVersion,  \* declared next to activePrep
  srcPrepMsg,              \* ID of the poller.prepare frame to answer, or NoMsg
  prepared,                \* TRUE after a successful poller.prepare.end
  prepareToEndTimer,       \* state of the timer, "nil" when there is none
  handler,                 \* state of the frame handling go routine
  sendCh,                  \* the responses staged for the sending go routine
  answered,                \* history: IDs of the frames that were responded to
  reconciled,              \* history: preparations given to ReconcileChecks
  received                 \* number of server frames handled, the last frame ID

prepDetails == <<activePrep, newestCommittedVersion, srcPrepMsg, prepared, prepareToEndTimer>>
vars == <<prepDetails, handler, sendCh, answered, reconciled, received>>

TimerState == {"nil", "running", "fired", "stopped"}
HandlerState == {"running", "hung", "crashed", "done"}
Status == {"prepared", "committed", "ignored", "failed", "aborted"}
Response == [id : Int, version : Int, status : Status]
Directive == {"prepare", "abort", "bogus"}

-----------------------------------------------------------------------------
(***************************************************************************)
(* Building blocks shared by the handlers.                                 *)
(***************************************************************************)

\* Respond: stage one response per <<frame ID, version, status>> given, in order.
Respond(responses) ==
  /\ sendCh' = sendCh \o responses
  /\ answered' = answered \cup {responses[i].id : i \in DOMAIN responses}

Result(id, version, status) == [id |-> id, version |-> version, status |-> status]

\* Mutant: the timer is left running.
clearKeepsTimer ==
  /\ activePrep' = NoPrep
  /\ srcPrepMsg' = NoMsg
  /\ prepared' = FALSE
  /\ UNCHANGED <<newestCommittedVersion, prepareToEndTimer>>

\* prepDetails.clear()
clear ==
  /\ activePrep' = NoPrep
  /\ srcPrepMsg' = NoMsg
  /\ prepared' = FALSE
  /\ prepareToEndTimer' = "nil"
  /\ UNCHANGED newestCommittedVersion

\* time.Timer.Stop on a timer that is not nil: it does not empty the channel of
\* a timer that has fired.
StopTimer(timer) == IF timer = "running" THEN "stopped" ELSE timer

\* A response to a nil frame dereferences nil.
Panic ==
  /\ handler' = "crashed"
  /\ UNCHANGED <<sendCh, answered, reconciled>>

Init ==
  /\ activePrep = NoPrep
  /\ newestCommittedVersion = 0
  /\ srcPrepMsg = NoMsg
  /\ prepared = FALSE
  /\ prepareToEndTimer = "nil"
  /\ handler = "running"
  /\ sendCh = <<>>
  /\ answered = {}
  /\ reconciled = <<>>
  /\ received = 0

-----------------------------------------------------------------------------
(***************************************************************************)
(* handlePollerPrepare.  valid is the verdict of                           *)
(* ChecksReconciler.ValidateChecks on the new preparation.                 *)
(***************************************************************************)

\* A version at or below newestCommittedVersion, or below the active one.
PrepareIgnored(id, version) ==
  /\ version <= newestCommittedVersion \/ IsOlder(activePrep, version)
  /\ Respond(<<Result(id, version, "ignored")>>)
  /\ UNCHANGED <<prepDetails, handler, reconciled>>

\* The response that tells the server its previous preparation is superseded.
Superseded(version) ==
  IF activePrep # NoPrep /\ IsNewer(activePrep, version)
  THEN <<Result(srcPrepMsg, activePrep.version, "ignored")>>
  ELSE <<>>

\* Mutant: the refusal is not reported to the server.
PrepareRefusedSilently(id, version, manifest, valid) ==
  /\ version > newestCommittedVersion /\ ~IsOlder(activePrep, version)
  /\ ~ManifestSupported(manifest) \/ ~valid
  /\ Respond(Superseded(version))
  /\ prepareToEndTimer' = IF Superseded(version) # <<>> THEN StopTimer(prepareToEndTimer)
                          ELSE prepareToEndTimer
  /\ UNCHANGED <<activePrep, newestCommittedVersion, srcPrepMsg, prepared, handler, reconciled>>

\* Unsupported action or a check that no scheduler knows: the new preparation is
\* dropped, but a superseded one stays active with its timer stopped.
PrepareRefused(id, version, manifest, valid) ==
  /\ version > newestCommittedVersion /\ ~IsOlder(activePrep, version)
  /\ ~ManifestSupported(manifest) \/ ~valid
  /\ Respond(Append(Superseded(version), Result(id, version, "failed")))
  /\ prepareToEndTimer' = IF Superseded(version) # <<>> THEN StopTimer(prepareToEndTimer)
                          ELSE prepareToEndTimer
  /\ UNCHANGED <<activePrep, newestCommittedVersion, srcPrepMsg, prepared, handler, reconciled>>

PrepareAccepted(id, version, manifest, valid) ==
  /\ version > newestCommittedVersion /\ ~IsOlder(activePrep, version)
  /\ ManifestSupported(manifest) /\ valid
  /\ Respond(Superseded(version))
  /\ prepareToEndTimer' = "running"
  /\ srcPrepMsg' = id
  /\ activePrep' = NewChecksPreparation(version, manifest)
  /\ UNCHANGED <<newestCommittedVersion, prepared, handler, reconciled>>

handlePollerPrepare(id, version, manifest, valid) ==
  \/ PrepareIgnored(id, version)
  \/ PrepareRefused(id, version, manifest, valid)
  \/ PrepareAccepted(id, version, manifest, valid)

(***************************************************************************)
(* handlePollerPrepareBlock.  The definitions are added before the timer   *)
(* is restarted with  if !t.Stop() { <-t.C };  t.Reset(...).               *)
(***************************************************************************)

BlockIgnored(version) ==
  /\ ~VersionApplies(activePrep, version)
  /\ UNCHANGED <<prepDetails, handler, sendCh, answered, reconciled>>

\* Mutant: the timer is stopped and never restarted.
BlockAddedNoReset(version, block) ==
  /\ VersionApplies(activePrep, version)
  /\ activePrep' = AddDefinitions(activePrep, block)
  /\ prepareToEndTimer' = IF prepareToEndTimer = "nil" THEN "nil" ELSE "stopped"
  /\ UNCHANGED <<newestCommittedVersion, srcPrepMsg, prepared, handler, sendCh, answered, reconciled>>

BlockAdded(version, block) ==
  /\ VersionApplies(activePrep, version)
  /\ activePrep' = AddDefinitions(activePrep, block)
  /\ \/ /\ prepareToEndTimer \in {"running", "fired"}
        /\ prepareToEndTimer' = "running"
        /\ handler' = handler
     \/ /\ prepareToEndTimer = "stopped"
        /\ prepareToEndTimer' = "stopped"
        /\ handler' = "hung"
     \/ /\ prepareToEndTimer = "nil"
        /\ prepareToEndTimer' = "nil"
        /\ handler' = "crashed"
  /\ UNCHANGED <<newestCommittedVersion, srcPrepMsg, prepared, sendCh, answered, reconciled>>

handlePollerPrepareBlock(version, block) ==
  BlockIgnored(version) \/ BlockAdded(version, block)

(***************************************************************************)
(* handlePollerPrepareEnd.                                                 *)
(***************************************************************************)

EndAbort(version, directive) ==
  /\ directive = "abort"
  /\ srcPrepMsg # NoMsg
  /\ Respond(<<Result(srcPrepMsg, version, "aborted")>>)
  /\ clear
  /\ UNCHANGED <<handler, reconciled>>

\* abort and an unexpected directive both respond to srcPrepMsg, nil or not.
EndWithoutSource(directive) ==
  /\ directive # "prepare"
  /\ srcPrepMsg = NoMsg
  /\ Panic
  /\ UNCHANGED prepDetails

EndUnexpected(version, directive) ==
  /\ directive \notin {"prepare", "abort"}
  /\ srcPrepMsg # NoMsg
  /\ Respond(<<Result(srcPrepMsg, version, "failed")>>)
  /\ UNCHANGED <<prepDetails, handler, reconciled>>

EndNothingActive(id, version, directive) ==
  /\ directive = "prepare"
  /\ activePrep = NoPrep
  /\ Respond(<<Result(id, version, "failed")>>)
  /\ UNCHANGED <<prepDetails, handler, reconciled>>

EndInvalid(version, directive) ==
  /\ directive = "prepare"
  /\ activePrep # NoPrep /\ ~Validate(activePrep, version)
  /\ Respond(<<Result(srcPrepMsg, version, "failed")>>)
  /\ UNCHANGED <<prepDetails, handler, reconciled>>

\* Mutant: the timer goes on, so that what was voted for may still expire.
EndPreparedKeepsTimer(version, directive) ==
  /\ directive = "prepare"
  /\ activePrep # NoPrep /\ Validate(activePrep, version)
  /\ prepared' = TRUE
  /\ Respond(<<Result(srcPrepMsg, version, "prepared")>>)
  /\ UNCHANGED <<activePrep, newestCommittedVersion, srcPrepMsg, prepareToEndTimer, handler, reconciled>>

\* A second successful poller.prepare.end stops a timer that is nil.
EndPrepared(version, directive) ==
  /\ directive = "prepare"
  /\ activePrep # NoPrep /\ Validate(activePrep, version)
  /\ prepared' = TRUE
  /\ UNCHANGED <<activePrep, newestCommittedVersion, srcPrepMsg>>
  /\ \/ /\ prepareToEndTimer # "nil"
        /\ prepareToEndTimer' = "nil"
        /\ Respond(<<Result(srcPrepMsg, version, "prepared")>>)
        /\ UNCHANGED <<handler, reconciled>>
     \/ /\ prepareToEndTimer = "nil"
        /\ UNCHANGED prepareToEndTimer
        /\ Panic

handlePollerPrepareEnd(id, version, directive) ==
  \/ EndAbort(version, directive)
  \/ EndWithoutSource(directive)
  \/ EndUnexpected(version, directive)
  \/ EndNothingActive(id, version, directive)
  \/ EndInvalid(version, directive)
  \/ EndPrepared(version, directive)

(***************************************************************************)
(* handlePollerCommit: the response precedes ReconcileChecks and clear().  *)
(* Only the versions are compared: nobody looks whether the preparation    *)
(* was voted for, or is complete.                                          *)
(***************************************************************************)

CommitIgnored(id, version) ==
  /\ ~VersionApplies(activePrep, version)
  /\ Respond(<<Result(id, version, "ignored")>>)
  /\ UNCHANGED <<prepDetails, handler, reconciled>>

CommitApplied(id, version) ==
  /\ VersionApplies(activePrep, version)
  /\ Respond(<<Result(id, version, "committed")>>)
  /\ reconciled' = Append(reconciled, activePrep)
  /\ clear
  /\ UNCHANGED handler

handlePollerCommit(id, version) == CommitIgnored(id, version) \/ CommitApplied(id, version)

-----------------------------------------------------------------------------
(***************************************************************************)
(* The select loop and its surroundings.                                   *)
(***************************************************************************)

\* case f := <-s.readCh
ReceivePrepare(version, manifest, valid) ==
  /\ handler = "running" /\ received < MaxFrames
  /\ received' = received + 1
  /\ handlePollerPrepare(received + 1, version, manifest, valid)

ReceiveBlock(version, block) ==
  /\ handler = "running" /\ received < MaxFrames
  /\ received' = received + 1
  /\ handlePollerPrepareBlock(version, block)

ReceiveEnd(version, directive) ==
  /\ handler = "running" /\ received < MaxFrames
  /\ received' = received + 1
  /\ handlePollerPrepareEnd(received + 1, version, directive)

ReceiveCommit(version) ==
  /\ handler = "running" /\ received < MaxFrames
  /\ received' = received + 1
  /\ handlePollerCommit(received + 1, version)

\* case <-utils.ChannelOfTimer(prepareToEndTimer)
PrepareToEndExpired ==
  /\ handler = "running"
  /\ prepareToEndTimer = "fired"
  /\ IF srcPrepMsg = NoMsg
     THEN /\ prepareToEndTimer' = "nil"
          /\ UNCHANGED <<activePrep, newestCommittedVersion, srcPrepMsg, prepared>>
          /\ Panic
     ELSE /\ Respond(<<Result(srcPrepMsg, activePrep.version, "failed")>>)
          /\ clear
          /\ UNCHANGED <<handler, reconciled>>
  /\ UNCHANGED received

\* case <-s.ctx.Done(): the session was closed or its connection ended.
HandlerExits ==
  /\ handler = "running"
  /\ handler' = "done"
  /\ UNCHANGED <<prepDetails, sendCh, answered, reconciled, received>>

\* The run-time timer sends on its channel, whatever the go routine is doing.
TimerFires ==
  /\ prepareToEndTimer = "running"
  /\ prepareToEndTimer' = "fired"
  /\ UNCHANGED <<activePrep, newestCommittedVersion, srcPrepMsg, prepared>>
  /\ UNCHANGED <<handler, sendCh, answered, reconciled, received>>

\* runFrameSending takes the next response.
Transmit ==
  /\ sendCh # <<>>
  /\ sendCh' = Tail(sendCh)
  /\ UNCHANGED <<prepDetails, handler, answered, reconciled, received>>

Next ==
  \/ \E v \in Version, m \in Manifest, valid \in BOOLEAN : ReceivePrepare(v, m, valid)
  \/ \E v \in Version, b \in Block : ReceiveBlock(v, b)
  \/ \E v \in Version, d \in Directive : ReceiveEnd(v, d)
  \/ \E v \in Version : ReceiveCommit(v)
  \/ PrepareToEndExpired
  \/ HandlerExits
  \/ TimerFires
  \/ Transmit

Spec == Init /\ [][Next]_vars

\* The Go runtime fires timers, and the select loop picks a ready case.
FairSpec == Spec /\ WF_vars(TimerFires) /\ WF_vars(PrepareToEndExpired)

-----------------------------------------------------------------------------
(***************************************************************************)
(* Properties.                                                             *)
(***************************************************************************)

\* Every variable holds a value of its type; the session never stores an action
\* that mapToActionType did not recognise.
TypeOK ==
  /\ activePrep \in Preparation \cup {NoPrep}
  /\ newestCommittedVersion \in Int
  /\ srcPrepMsg \in Int \cup {NoMsg}
  /\ prepared \in BOOLEAN
  /\ prepareToEndTimer \in TimerState
  /\ handler \in HandlerState
  /\ sendCh \in Seq(Response)
  /\ answered \subseteq Int
  /\ reconciled \in Seq(Preparation)
  /\ received \in Nat

\* The pointers of prepDetails stand or fall together: there is a frame to answer
\* exactly when there is an active preparation, and a timer only then.  The expiry
\* case and the poller.prepare.end handler dereference srcPrepMsg relying on it.
PrepLinked ==
  /\ (activePrep = NoPrep) <=> (srcPrepMsg = NoMsg)
  /\ prepareToEndTimer # "nil" => activePrep # NoPrep

\* A preparation without a timer is one that was answered "prepared", and it is
\* still complete: no later frame takes that back while the go routine lives.
VotedIsComplete ==
  handler # "crashed" /\ activePrep # NoPrep /\ prepareToEndTimer = "nil"
    => prepared /\ Complete(activePrep)

\* A poller.prepare that was accepted and not yet answered is guarded by a timer
\* that will expire, so it can never be left without an answer by the server's
\* silence alone.
UnansweredIsTimed ==
  activePrep # NoPrep /\ srcPrepMsg \notin answered
    => prepareToEndTimer \in {"running", "fired"}

\* While some preparation is active it is never replaced by one of an older
\* version (the IsOlder test of handlePollerPrepare).
VersionNeverRegresses ==
  [][activePrep # NoPrep /\ activePrep' # NoPrep
       => activePrep'.version >= activePrep.version]_vars

\* The server gets an answer to every poller.prepare it started, unless it replaces
\* it with one of the same version, commits it unprepared, or the handler is gone.
PrepareIsAnswered ==
  \A m \in 1 .. MaxFrames :
    srcPrepMsg = m ~> (m \in answered \/ srcPrepMsg # m \/ handler # "running")

(***************************************************************************)
(* A statement of the repository that the code does not meet.              *)
(***************************************************************************)

\* session_test.go, case olderThanCommitted: a prepare at or below a committed
\* version is ignored, so it never becomes the active preparation.
NewerThanCommitted ==
  activePrep # NoPrep => \A i \in DOMAIN reconciled : activePrep.version > reconciled[i].version

=============================================================================
