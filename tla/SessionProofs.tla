----------------------------- MODULE SessionProofs -----------------------------
(***************************************************************************)
(* The invariants of Session hold for every set of checks, every set of    *)
(* versions and every number of frames.                                    *)
(***************************************************************************)
EXTENDS Session, TLAPS

USE DefinitionAssumption, NoPrepAssumption, VersionAssumption, MaxFramesAssumption, NoMsgAssumption

-----------------------------------------------------------------------------
(***************************************************************************)
(* Facts about the operators of ChecksPreparation.                         *)
(***************************************************************************)

\* A manifest without unsupported actions becomes a preparation (NewChecksPreparation).
LEMMA NewIsPreparation ==
  ASSUME NEW v \in Int, NEW m \in Manifest, ManifestSupported(m)
  PROVE  /\ NewChecksPreparation(v, m) \in Preparation
         /\ NewChecksPreparation(v, m).version = v
<1> DEFINE entry(id) == IF m[id] = "none" THEN Absent
                        ELSE [action    |-> mapToActionType(m[id]),
                              populated |-> ~doesCheckPreparationNeedPopulating(m[id]),
                              def       |-> NoDef]
<1>1. \A id \in CheckId : entry(id) \in ActionableCheck \cup {Absent}
  BY DEF ActionableCheck, ActionType, mapToActionType, doesCheckPreparationNeedPopulating
<1> HIDE DEF entry
<1>2. [id \in CheckId |-> entry(id)] \in [CheckId -> ActionableCheck \cup {Absent}]
  BY <1>1
<1>3. NewChecksPreparation(v, m) = [version |-> v, actions |-> [id \in CheckId |-> entry(id)]]
  BY DEF NewChecksPreparation, entry
<1> QED
  BY <1>2, <1>3 DEF Preparation

\* Adding definitions keeps the version and never takes a check out (AddDefinitions).
LEMMA AddDefinitionsKeeps ==
  ASSUME NEW cp \in Preparation, NEW b \in Block
  PROVE  /\ AddDefinitions(cp, b) \in Preparation
         /\ AddDefinitions(cp, b).version = cp.version
         /\ Declared(cp) \subseteq Declared(AddDefinitions(cp, b))
<1> DEFINE entry(id) == IF b[id] = NoDef THEN cp.actions[id]
                        ELSE IF cp.actions[id] = Absent
                        THEN [action |-> "unknown", populated |-> FALSE, def |-> NoDef]
                        ELSE [action |-> cp.actions[id].action, populated |-> TRUE, def |-> b[id]]
<1>1. ASSUME NEW id \in CheckId
      PROVE  /\ entry(id) \in ActionableCheck \cup {Absent}
             /\ cp.actions[id] # Absent => entry(id) # Absent
  <2>1. cp.actions[id] \in ActionableCheck \cup {Absent} /\ b[id] \in Definition \cup {NoDef}
    BY DEF Preparation, Block
  <2>2. CASE b[id] = NoDef
    BY <2>1, <2>2
  <2>3. CASE b[id] # NoDef /\ cp.actions[id] = Absent
    BY <2>1, <2>3 DEF ActionableCheck, ActionType
  <2>4. CASE b[id] # NoDef /\ cp.actions[id] # Absent
    BY <2>1, <2>4 DEF ActionableCheck, ActionType, Absent
  <2> QED
    BY <2>2, <2>3, <2>4
<1> HIDE DEF entry
<1>2. AddDefinitions(cp, b) = [cp EXCEPT !.actions = [id \in CheckId |-> entry(id)]]
  BY DEF AddDefinitions, entry
<1>3. [id \in CheckId |-> entry(id)] \in [CheckId -> ActionableCheck \cup {Absent}]
  BY <1>1
<1>4. /\ AddDefinitions(cp, b) \in Preparation
      /\ AddDefinitions(cp, b).version = cp.version
      /\ AddDefinitions(cp, b).actions = [id \in CheckId |-> entry(id)]
  BY <1>2, <1>3 DEF Preparation
<1> QED
  BY <1>1, <1>4 DEF Declared

\* A preparation is not the nil one.
LEMMA PreparationIsNotNil == \A cp \in Preparation : cp # NoPrep
  OBVIOUS

-----------------------------------------------------------------------------
(***************************************************************************)
(* Each handler preserves type correctness and the inductive invariant.    *)
(***************************************************************************)

\* The conjunction that is inductive: no part of it is on its own.
IInv == TypeOK /\ PrepLinked /\ VotedIsComplete /\ UnansweredIsTimed

\* The initial prepDetails of NewSession satisfies the invariant.
LEMMA InitIInv == Init => IInv
<1> SUFFICES ASSUME Init PROVE IInv
  OBVIOUS
<1>1. <<>> \in Seq(Response) /\ <<>> \in Seq(Preparation)
  OBVIOUS
<1>2. TypeOK
  <2>1. sendCh \in Seq(Response) /\ reconciled \in Seq(Preparation)
    BY <1>1 DEF Init
  <2>2. prepared \in BOOLEAN
    BY DEF Init
  <2>3. activePrep \in Preparation \cup {NoPrep} /\ srcPrepMsg \in Int \cup {NoMsg} /\ answered \subseteq Int
    BY DEF Init
  <2>4. /\ newestCommittedVersion \in Int /\ received \in Nat
        /\ prepareToEndTimer \in TimerState /\ handler \in HandlerState
    BY DEF Init, TimerState, HandlerState
  <2> QED
    BY <2>1, <2>2, <2>3, <2>4 DEF TypeOK
<1>3. PrepLinked
  BY DEF Init, PrepLinked
<1>4. VotedIsComplete /\ UnansweredIsTimed
  BY DEF Init, VotedIsComplete, UnansweredIsTimed
<1> QED
  BY <1>2, <1>3, <1>4 DEF IInv

\* Appending responses to integer-numbered frames keeps sendCh and answered typed.
LEMMA RespondType ==
  ASSUME TypeOK, NEW rs \in Seq(Response), Respond(rs)
  PROVE  sendCh' \in Seq(Response) /\ answered' \subseteq Int
         /\ answered \subseteq answered'
         /\ \A i \in DOMAIN rs : rs[i].id \in answered'
<1>1. DOMAIN rs = 1 .. Len(rs) /\ \A i \in 1 .. Len(rs) : rs[i] \in Response
  OBVIOUS
<1>2. \A i \in DOMAIN rs : rs[i].id \in Int
  BY <1>1 DEF Response
<1>3. sendCh' \in Seq(Response)
  BY DEF TypeOK, Respond
<1>4. answered' = answered \cup {rs[i].id : i \in DOMAIN rs}
  BY DEF Respond
<1> QED
  BY <1>2, <1>3, <1>4 DEF TypeOK

\* A single result for a frame is a response.
LEMMA OneResult ==
  ASSUME NEW id \in Int, NEW v \in Int, NEW st \in Status
  PROVE  /\ <<Result(id, v, st)>> \in Seq(Response)
         /\ DOMAIN <<Result(id, v, st)>> = {1}
         /\ <<Result(id, v, st)>>[1].id = id
  BY DEF Result, Response

\* Superseded yields at most one response, addressed to the source of the active preparation.
LEMMA SupersededType ==
  ASSUME IInv, NEW v \in Int
  PROVE  Superseded(v) \in Seq(Response)
<1>1. CASE activePrep # NoPrep /\ IsNewer(activePrep, v)
  <2>1. activePrep.version \in Int /\ srcPrepMsg \in Int
    BY <1>1 DEF IInv, TypeOK, PrepLinked, Preparation
  <2> QED
    BY <1>1, <2>1, OneResult DEF Superseded, Status
<1>2. CASE ~(activePrep # NoPrep /\ IsNewer(activePrep, v))
  BY <1>2 DEF Superseded
<1> QED
  BY <1>1, <1>2

\* handlePollerPrepare preserves the invariant: a refusal stops the timer of the superseded
\* preparation only together with answering it.
LEMMA PrepareIInv ==
  ASSUME IInv, NEW id \in Int, NEW v \in Int, NEW m \in Manifest, NEW valid \in BOOLEAN,
         handlePollerPrepare(id, v, m, valid), received' \in Nat
  PROVE  IInv'
<1>0. v \in Int /\ id \in Int /\ received' \in Nat
  OBVIOUS
<1>1. CASE PrepareIgnored(id, v)
  <2>1. sendCh' \in Seq(Response) /\ answered' \subseteq Int /\ answered \subseteq answered'
    BY <1>0, <1>1, OneResult, RespondType DEF PrepareIgnored, Status, IInv
  <2> QED
    BY <1>0, <1>1, <2>1 DEF PrepareIgnored, prepDetails, IInv, TypeOK, PrepLinked, VotedIsComplete, UnansweredIsTimed
<1>2. CASE PrepareRefused(id, v, m, valid)
  <2>1. Append(Superseded(v), Result(id, v, "failed")) \in Seq(Response)
    BY <1>0, SupersededType DEF Result, Response, Status
  <2>2. sendCh' \in Seq(Response) /\ answered' \subseteq Int /\ answered \subseteq answered'
    BY <1>2, <2>1, RespondType DEF PrepareRefused, IInv
  <2>3. CASE Superseded(v) = <<>>
    BY <1>0, <1>2, <2>2, <2>3 DEF PrepareRefused, IInv, TypeOK, PrepLinked, VotedIsComplete, UnansweredIsTimed
  <2>4. CASE Superseded(v) # <<>>
    <3>1. Superseded(v) = <<Result(srcPrepMsg, activePrep.version, "ignored")>>
      BY <2>4 DEF Superseded
    <3>2. srcPrepMsg \in answered'
      <4> DEFINE rs == Append(Superseded(v), Result(id, v, "failed"))
      <4>1. 1 \in DOMAIN rs /\ rs[1].id = srcPrepMsg
        BY <3>1 DEF Result
      <4> HIDE DEF rs
      <4> QED
        BY <1>2, <4>1 DEF PrepareRefused, Respond, rs
    <3> QED
      BY <1>0, <1>2, <2>2, <3>2
      DEF PrepareRefused, IInv, TypeOK, PrepLinked, VotedIsComplete, UnansweredIsTimed, StopTimer, TimerState
  <2> QED
    BY <2>3, <2>4
<1>3. CASE PrepareAccepted(id, v, m, valid)
  <2>1. sendCh' \in Seq(Response) /\ answered' \subseteq Int
    BY <1>0, <1>3, SupersededType, RespondType DEF PrepareAccepted, IInv
  <2>2. activePrep' \in Preparation /\ activePrep' # NoPrep
    BY <1>0, <1>3, NewIsPreparation, PreparationIsNotNil DEF PrepareAccepted
  <2> QED
    BY <1>0, <1>3, <2>1, <2>2
    DEF PrepareAccepted, IInv, TypeOK, PrepLinked, VotedIsComplete, UnansweredIsTimed, TimerState
<1> QED
  BY <1>1, <1>2, <1>3 DEF handlePollerPrepare

\* handlePollerPrepareBlock preserves it: a live timer is restarted, and without one the go
\* routine is lost.
LEMMA BlockIInv ==
  ASSUME IInv, NEW v \in Int, NEW b \in Block, handlePollerPrepareBlock(v, b), received' \in Nat
  PROVE  IInv'
<1>0. received' \in Nat
  OBVIOUS
<1>1. CASE BlockIgnored(v)
  BY <1>0, <1>1 DEF BlockIgnored, prepDetails, IInv, TypeOK, PrepLinked, VotedIsComplete, UnansweredIsTimed
<1>2. CASE BlockAdded(v, b)
  <2>1. activePrep' \in Preparation /\ activePrep' # NoPrep
    BY <1>2, AddDefinitionsKeeps, PreparationIsNotNil DEF BlockAdded, VersionApplies, IInv, TypeOK
  <2> QED
    BY <1>0, <1>2, <2>1
    DEF BlockAdded, VersionApplies, IInv, TypeOK, PrepLinked, VotedIsComplete, UnansweredIsTimed, TimerState, HandlerState
<1> QED
  BY <1>1, <1>2 DEF handlePollerPrepareBlock

\* handlePollerPrepareEnd preserves it: the timer goes away only with a complete preparation
\* or with the preparation itself.
LEMMA EndIInv ==
  ASSUME IInv, NEW id \in Int, NEW v \in Int, NEW d \in Directive, handlePollerPrepareEnd(id, v, d), received' \in Nat
  PROVE  IInv'
<1>0. v \in Int /\ id \in Int /\ received' \in Nat
  OBVIOUS
<1> USE DEF IInv, TypeOK, PrepLinked, VotedIsComplete, UnansweredIsTimed
<1>1. ASSUME NEW st \in Status, NEW target \in Int, Respond(<<Result(target, v, st)>>)
      PROVE  /\ sendCh' \in Seq(Response) /\ answered' \subseteq Int
             /\ answered \subseteq answered' /\ target \in answered'
  <2>1. /\ <<Result(target, v, st)>> \in Seq(Response)
        /\ DOMAIN <<Result(target, v, st)>> = {1}
        /\ <<Result(target, v, st)>>[1].id = target
    BY <1>0, OneResult
  <2> QED
    BY <1>1, <2>1, RespondType DEF IInv
<1>2. CASE EndAbort(v, d)
  BY <1>0, <1>1, <1>2 DEF EndAbort, clear, Status, TimerState
<1>3. CASE EndWithoutSource(d)
  BY <1>0, <1>3 DEF EndWithoutSource, Panic, prepDetails, HandlerState
<1>4. CASE EndUnexpected(v, d)
  BY <1>0, <1>1, <1>4 DEF EndUnexpected, prepDetails, Status
<1>5. CASE EndNothingActive(id, v, d)
  BY <1>0, <1>1, <1>5 DEF EndNothingActive, prepDetails, Status
<1>6. CASE EndInvalid(v, d)
  BY <1>0, <1>1, <1>6 DEF EndInvalid, prepDetails, Status
<1>7. CASE EndPrepared(v, d)
  <2>1. CASE prepareToEndTimer # "nil"
    BY <1>0, <1>1, <1>7, <2>1 DEF EndPrepared, Validate, Status, TimerState
  <2>2. CASE prepareToEndTimer = "nil"
    BY <1>0, <1>7, <2>2 DEF EndPrepared, Panic, HandlerState
  <2> QED
    BY <2>1, <2>2
<1> QED
  BY <1>2, <1>3, <1>4, <1>5, <1>6, <1>7 DEF handlePollerPrepareEnd

\* handlePollerCommit preserves it: clear() resets all of prepDetails.
LEMMA CommitIInv ==
  ASSUME IInv, NEW id \in Int, NEW v \in Int, handlePollerCommit(id, v), received' \in Nat
  PROVE  IInv'
<1>0. v \in Int /\ id \in Int /\ received' \in Nat
  OBVIOUS
<1> USE DEF IInv, TypeOK, PrepLinked, VotedIsComplete, UnansweredIsTimed
<1>1. ASSUME NEW st \in Status, Respond(<<Result(id, v, st)>>)
      PROVE  sendCh' \in Seq(Response) /\ answered' \subseteq Int /\ answered \subseteq answered'
  BY <1>0, <1>1, OneResult, RespondType
<1>2. CASE CommitIgnored(id, v)
  BY <1>0, <1>1, <1>2 DEF CommitIgnored, prepDetails, Status
<1>3. CASE CommitApplied(id, v)
  <2>1. activePrep \in Preparation /\ reconciled' \in Seq(Preparation)
    BY <1>3 DEF CommitApplied, VersionApplies
  <2> QED
    BY <1>0, <2>1, <1>1, <1>3 DEF CommitApplied, VersionApplies, clear, Status, TimerState
<1> QED
  BY <1>2, <1>3 DEF handlePollerCommit

\* The expiry case preserves it: by PrepLinked there is a frame to answer.
LEMMA ExpiredIInv == IInv /\ PrepareToEndExpired => IInv'
<1> SUFFICES ASSUME IInv, PrepareToEndExpired PROVE IInv'
  OBVIOUS
<1> USE DEF IInv, TypeOK, PrepLinked, VotedIsComplete, UnansweredIsTimed
<1>1. srcPrepMsg \in Int /\ activePrep \in Preparation /\ activePrep.version \in Int
  BY DEF PrepareToEndExpired, Preparation
<1>2. sendCh' \in Seq(Response) /\ answered' \subseteq Int
  BY <1>1, OneResult, RespondType DEF PrepareToEndExpired, Status
<1> QED
  BY <1>1, <1>2 DEF PrepareToEndExpired, clear, TimerState

\* Every step of the session preserves the invariant.
LEMMA NextIInv == IInv /\ [Next]_vars => IInv'
<1> SUFFICES ASSUME IInv, [Next]_vars PROVE IInv'
  OBVIOUS
<1>1. CASE HandlerExits
  BY <1>1 DEF HandlerExits, prepDetails, IInv, TypeOK, PrepLinked, VotedIsComplete, UnansweredIsTimed, HandlerState
<1>2. CASE TimerFires
  BY <1>2 DEF TimerFires, IInv, TypeOK, PrepLinked, VotedIsComplete, UnansweredIsTimed, TimerState
<1>3. CASE Transmit
  BY <1>3 DEF Transmit, prepDetails, IInv, TypeOK, PrepLinked, VotedIsComplete, UnansweredIsTimed
<1>4. CASE UNCHANGED vars
  BY <1>4 DEF vars, prepDetails, IInv, TypeOK, PrepLinked, VotedIsComplete, UnansweredIsTimed
<1>5. received + 1 \in Nat /\ Version \subseteq Int
  BY DEF IInv, TypeOK
<1>6. ASSUME NEW v \in Version, NEW m \in Manifest, NEW valid \in BOOLEAN, ReceivePrepare(v, m, valid)
      PROVE  IInv'
  BY <1>5, <1>6, PrepareIInv DEF ReceivePrepare
<1>7. ASSUME NEW v \in Version, NEW b \in Block, ReceiveBlock(v, b)
      PROVE  IInv'
  BY <1>5, <1>7, BlockIInv DEF ReceiveBlock
<1>8. ASSUME NEW v \in Version, NEW d \in Directive, ReceiveEnd(v, d)
      PROVE  IInv'
  BY <1>5, <1>8, EndIInv DEF ReceiveEnd
<1>9. ASSUME NEW v \in Version, ReceiveCommit(v)
      PROVE  IInv'
  BY <1>5, <1>9, CommitIInv DEF ReceiveCommit
<1> QED
  BY <1>1, <1>2, <1>3, <1>4, <1>6, <1>7, <1>8, <1>9, ExpiredIInv DEF Next

\* The inductive invariant holds throughout.
THEOREM SessionInvariant == Spec => []IInv
  BY InitIInv, NextIInv, PTL DEF Spec

\* Every variable of the session keeps its type.
THEOREM SessionTypeOK == Spec => []TypeOK
  BY SessionInvariant, PTL DEF IInv

\* Active preparation, frame to answer and timer stand or fall together, so that the
\* expiry of the timer never answers a nil frame.
THEOREM SessionPrepLinked == Spec => []PrepLinked
  BY SessionInvariant, PTL DEF IInv

\* What was answered "prepared" stays complete until it is committed or given up.
THEOREM SessionVotedIsComplete == Spec => []VotedIsComplete
  BY SessionInvariant, PTL DEF IInv

\* An unanswered poller.prepare always has a timer that will expire.
THEOREM SessionUnansweredIsTimed == Spec => []UnansweredIsTimed
  BY SessionInvariant, PTL DEF IInv

\* The version of the active preparation never goes back (the IsOlder test of
\* handlePollerPrepare).
THEOREM SessionVersionNeverRegresses == Spec => VersionNeverRegresses
<1> DEFINE Kept == activePrep # NoPrep /\ activePrep' # NoPrep => activePrep'.version >= activePrep.version
<1>1. IInv /\ [Next]_vars => [Kept]_vars
  <2> SUFFICES ASSUME IInv, Next, activePrep # NoPrep PROVE Kept
    OBVIOUS
  <2>1. activePrep \in Preparation /\ activePrep.version \in Int
    BY DEF IInv, TypeOK, Preparation
  <2>2. CASE activePrep' = activePrep \/ activePrep' = NoPrep
    BY <2>1, <2>2
  <2>3. ASSUME NEW v \in Version, NEW m \in Manifest, NEW valid \in BOOLEAN, ReceivePrepare(v, m, valid)
        PROVE  Kept
    <3>1. CASE PrepareAccepted(received + 1, v, m, valid)
      <4>1. activePrep'.version = v
        BY <3>1, NewIsPreparation DEF PrepareAccepted
      <4> QED
        BY <2>1, <3>1, <4>1 DEF PrepareAccepted, IsOlder
    <3> QED
      BY <2>2, <2>3, <3>1 DEF ReceivePrepare, handlePollerPrepare, PrepareIgnored, PrepareRefused, prepDetails
  <2>4. ASSUME NEW v \in Version, NEW b \in Block, ReceiveBlock(v, b)
        PROVE  Kept
    BY <2>1, <2>2, <2>4, AddDefinitionsKeeps
    DEF ReceiveBlock, handlePollerPrepareBlock, BlockIgnored, BlockAdded, prepDetails
  <2>5. ASSUME NEW v \in Version, NEW d \in Directive, ReceiveEnd(v, d)
        PROVE  Kept
    BY <2>2, <2>5
    DEF ReceiveEnd, handlePollerPrepareEnd, EndAbort, EndWithoutSource, EndUnexpected, EndNothingActive,
        EndInvalid, EndPrepared, clear, prepDetails
  <2>6. ASSUME NEW v \in Version, ReceiveCommit(v)
        PROVE  Kept
    BY <2>2, <2>6 DEF ReceiveCommit, handlePollerCommit, CommitIgnored, CommitApplied, clear, prepDetails
  <2>7. CASE PrepareToEndExpired \/ HandlerExits \/ TimerFires \/ Transmit
    BY <2>2, <2>7 DEF PrepareToEndExpired, HandlerExits, TimerFires, Transmit, clear, prepDetails
  <2> QED
    BY <2>3, <2>4, <2>5, <2>6, <2>7 DEF Next
<1> QED
  BY <1>1, SessionInvariant, PTL DEF Spec, VersionNeverRegresses

=============================================================================
