----------------------------- MODULE ProtocolProofs -----------------------------
(***************************************************************************)
(* The properties of PrepareProtocol hold for every set of checks, every   *)
(* number of loads and every size of block, and it implements the abstract *)
(* TwoPhaseCommit.                                                         *)
(***************************************************************************)
EXTENDS PrepareProtocol, SessionProofs

USE BlockSizeAssumption, MaxLoadsAssumption, CheckIdAssumption

-----------------------------------------------------------------------------
(***************************************************************************)
(* The inductive invariant.                                                *)
(***************************************************************************)

\* The frames that the agent writes.
Frame ==
  [id : Nat, method : {"poller.prepare"}, version : Nat, manifest : Manifest]
    \cup [id : Nat, method : {"poller.prepare.block"}, version : Nat, block : Block]
    \cup [id : Nat, method : {"poller.prepare.end"}, version : Nat, directive : {"prepare"}]
    \cup [id : Nat, method : {"poller.commit"}, version : Nat]

\* The checks that a manifest or a block mentions.
Mentions(f) ==
  IF f.method = "poller.prepare" THEN {c \in CheckId : f.manifest[c] # "none"}
  ELSE {c \in CheckId : f.block[c] # NoDef}

AgentTypeOK ==
  /\ checkId \in Nat /\ outMsgId \in Nat /\ checksVersion \in Nat
  /\ endpoint \in {"running", "crashed"}
  /\ toPoller \in Seq(Frame)
  /\ DOMAIN pendingPrepares \subseteq Nat
  /\ \A m \in DOMAIN pendingPrepares : pendingPrepares[m] \in PendingPrepare

\* f is before g in the connection: IDs grow; preparations are written one after the
\* other, each from its poller.prepare to its poller.prepare.end, and its blocks have
\* definitions of the checks in its manifest only.  Commits may be anywhere.
Precedes(f, g) ==
  /\ f.id < g.id
  /\ f.method # "poller.commit" /\ g.method # "poller.commit" =>
       /\ f.version <= g.version
       /\ f.method = "poller.prepare.end" \/ g.method = "poller.prepare" => f.version < g.version
       /\ f.method = "poller.prepare" /\ g.method = "poller.prepare.block" /\ f.version = g.version =>
            Mentions(g) \subseteq Mentions(f)

Written ==
  /\ \A i \in DOMAIN toPoller : toPoller[i].id <= outMsgId /\ toPoller[i].version <= checksVersion
  /\ \A i, j \in DOMAIN toPoller : i < j => Precedes(toPoller[i], toPoller[j])

\* What the frame f, still to be read, may find as preparation and timer: an older
\* preparation if it starts a new one, and one that is timed and declares every check it
\* mentions if it goes on with it.
Finds(f, prep, timer) ==
  prep # NoPrep =>
    /\ f.method = "poller.prepare" => prep.version < f.version
    /\ f.method \in {"poller.prepare.block", "poller.prepare.end"} /\ f.version = prep.version =>
         timer \in {"running", "fired"}
    /\ f.method = "poller.prepare.block" /\ f.version = prep.version => Mentions(f) \subseteq Declared(prep)

Read ==
  /\ \A i \in DOMAIN toPoller : Finds(toPoller[i], activePrep, prepareToEndTimer)
  /\ activePrep # NoPrep => activePrep.version <= checksVersion

\* What is reconciled is older than what is active and what is still to come.
Older ==
  \A k \in DOMAIN reconciled :
    /\ reconciled[k].version <= checksVersion
    /\ activePrep # NoPrep => reconciled[k].version < activePrep.version
    /\ \A i \in DOMAIN toPoller :
         toPoller[i].method = "poller.prepare" => reconciled[k].version < toPoller[i].version

\* An entry of pendingPrepares knows the checks of its preparation, wherever that is.
Knows(m) ==
  /\ m <= outMsgId /\ pendingPrepares[m].version <= checksVersion
  /\ activePrep # NoPrep /\ activePrep.version = pendingPrepares[m].version =>
       pendingPrepares[m].checkIds = Declared(activePrep)
  /\ \A i \in DOMAIN toPoller :
       toPoller[i].method = "poller.prepare" /\ toPoller[i].version = pendingPrepares[m].version =>
         pendingPrepares[m].checkIds = Mentions(toPoller[i])

\* A commit on its way has an entry that waits for its confirmation.
Committing(m, pending) == m \in DOMAIN pending /\ pending[m].committing

Pending ==
  /\ \A m \in DOMAIN pendingPrepares : Knows(m)
  /\ \A i \in DOMAIN toPoller :
       toPoller[i].method = "poller.commit" =>
         Committing(toPoller[i].id, pendingPrepares) /\ pendingPrepares[toPoller[i].id].version = toPoller[i].version

\* The positions of the confirmations that the agent has not read yet.
Confirming == {i \in DOMAIN sendCh : sendCh[i].status = "committed"}

\* What the session handed over last.
Newest == IF reconciled = <<>> THEN NoSet ELSE Declared(reconciled[Len(reconciled)])

\* Confirmations are in the order of the commits, the last of them is about what was
\* handed over last, and with none in flight the agent knows of that.
Confirmed ==
  /\ \A i \in Confirming :
       /\ sendCh[i].id <= outMsgId
       /\ \A j \in DOMAIN toPoller : sendCh[i].id < toPoller[j].id
       /\ \A j \in Confirming : i < j => sendCh[i].id < sendCh[j].id
       /\ \/ \E j \in Confirming : i < j
          \/ Committing(sendCh[i].id, pendingPrepares) /\ pendingPrepares[sendCh[i].id].checkIds = Newest
  /\ Confirming = {} => committedChecks = Newest

PInv ==
  /\ IInv /\ AgentTypeOK
  /\ Written /\ Read /\ Older /\ Pending /\ Confirmed
  /\ HandlerSurvives /\ CommitsInOrder

-----------------------------------------------------------------------------
(***************************************************************************)
(* Facts about frames, sequences and preparations.                         *)
(***************************************************************************)

\* What a frame of each method carries.
LEMMA FrameFacts ==
  ASSUME NEW f \in Frame
  PROVE  /\ f.id \in Nat /\ f.version \in Nat
         /\ f.method \in {"poller.prepare", "poller.prepare.block", "poller.prepare.end", "poller.commit"}
         /\ f.method = "poller.prepare" => f.manifest \in Manifest
         /\ f.method = "poller.prepare.block" => f.block \in Block
         /\ f.method = "poller.prepare.end" => f.directive = "prepare"
BY DEF Frame

\* The constructors make frames.
LEMMA MakesFrames ==
  ASSUME NEW id \in Nat, NEW v \in Nat
  PROVE  /\ \A m \in Manifest : PrepareFrame(id, v, m) \in Frame
         /\ \A b \in Block : BlockFrame(id, v, b) \in Frame
         /\ EndFrame(id, v) \in Frame
         /\ CommitFrame(id, v) \in Frame
BY DEF Frame, PrepareFrame, BlockFrame, EndFrame, CommitFrame

\* Receiving from a channel takes its first element.
LEMMA TailFacts ==
  ASSUME NEW S, NEW q \in Seq(S), q # <<>>
  PROVE  /\ 1 \in DOMAIN q /\ Head(q) = q[1] /\ q[1] \in S
         /\ Tail(q) \in Seq(S)
         /\ \A i \in DOMAIN Tail(q) : i \in Nat /\ 1 < i + 1 /\ i + 1 \in DOMAIN q /\ Tail(q)[i] = q[i + 1]
         /\ \A i \in DOMAIN q : i # 1 => i - 1 \in DOMAIN Tail(q) /\ Tail(q)[i - 1] = q[i]
OBVIOUS

\* Sending appends to it.
LEMMA ConcatFacts ==
  ASSUME NEW S, NEW q \in Seq(S), NEW r \in Seq(S)
  PROVE  /\ q \o r \in Seq(S) /\ Len(q) \in Nat
         /\ DOMAIN q = 1 .. Len(q) /\ DOMAIN r = 1 .. Len(r)
         /\ \A i \in DOMAIN q : i \in DOMAIN (q \o r) /\ (q \o r)[i] = q[i] /\ q[i] \in S
         /\ \A i \in DOMAIN r : Len(q) + i \in DOMAIN (q \o r) /\ (q \o r)[Len(q) + i] = r[i] /\ r[i] \in S
         /\ \A i \in DOMAIN (q \o r) : i \in Nat /\ (i \in DOMAIN q \/ (i > Len(q) /\ i - Len(q) \in DOMAIN r))
OBVIOUS

\* NewChecksPreparation declares what the manifest mentions.
LEMMA NewDeclares ==
  ASSUME NEW v \in Int, NEW m \in Manifest, ManifestSupported(m)
  PROVE  Declared(NewChecksPreparation(v, m)) = {c \in CheckId : m[c] # "none"}
<1> DEFINE entry(id) == IF m[id] = "none" THEN Absent
                        ELSE [action    |-> mapToActionType(m[id]),
                              populated |-> ~doesCheckPreparationNeedPopulating(m[id]),
                              def       |-> NoDef]
<1>1. \A id \in CheckId : entry(id) # Absent <=> m[id] # "none"
  <2> SUFFICES ASSUME NEW id \in CheckId, m[id] # "none" PROVE entry(id) # Absent
    OBVIOUS
  <2>1. entry(id).action = mapToActionType(m[id]) /\ mapToActionType(m[id]) # "absent"
    BY DEF mapToActionType
  <2> QED
    BY <2>1 DEF Absent
<1> HIDE DEF entry
<1>2. NewChecksPreparation(v, m).actions = [id \in CheckId |-> entry(id)]
  BY DEF NewChecksPreparation, entry
<1> QED
  BY <1>1, <1>2 DEF Declared

\* AddDefinitions declares no other checks if the block is about declared ones.
LEMMA AddDeclares ==
  ASSUME NEW cp \in Preparation, NEW b \in Block, {c \in CheckId : b[c] # NoDef} \subseteq Declared(cp)
  PROVE  Declared(AddDefinitions(cp, b)) = Declared(cp)
<1>1. AddDefinitions(cp, b).actions = [id \in CheckId |->
        IF b[id] = NoDef THEN cp.actions[id]
        ELSE IF cp.actions[id] = Absent
        THEN [action |-> "unknown", populated |-> FALSE, def |-> NoDef]
        ELSE [action |-> cp.actions[id].action, populated |-> TRUE, def |-> b[id]]]
  BY DEF AddDefinitions, Preparation
<1>2. ASSUME NEW id \in CheckId
      PROVE  cp.actions[id] = Absent => AddDefinitions(cp, b).actions[id] = Absent
  BY <1>1 DEF Declared
<1> QED
  BY <1>2, AddDefinitionsKeeps DEF Declared

-----------------------------------------------------------------------------
(***************************************************************************)
(* The frames of a preparation.                                            *)
(***************************************************************************)

\* Their number, from the division that cuts the checks into blocks.
LEMMA BlocksType ==
  ASSUME NEW n \in Nat
  PROVE  Blocks(n) \in Nat
<1> DEFINE p == prepareBlockSize
<1>1. p \in Nat /\ p > 0 /\ n + p - 1 \in Nat
  OBVIOUS
<1> QED
  BY <1>1 DEF Blocks

\* The frames of one preparation: numbered, poller.prepare first, poller.prepare.end last
\* and nothing but blocks of checks in the manifest in between.
Preparing(frames, ids, id, version) ==
  /\ frames \in Seq(Frame) /\ Len(frames) \in Nat /\ 1 \in DOMAIN frames
  /\ \A i \in DOMAIN frames :
       /\ frames[i].id = id + i /\ frames[i].version = version
       /\ frames[i].method # "poller.commit"
       /\ frames[i].method = "poller.prepare" <=> i = 1
       /\ frames[i].method = "poller.prepare.end" <=> i = Len(frames)
       /\ frames[i].method = "poller.prepare.block" => Mentions(frames[i]) \subseteq ids
  /\ Mentions(frames[1]) = ids

\* prepareChecks writes such frames.
LEMMA PreparationFacts ==
  ASSUME outMsgId \in Nat, checksVersion \in Nat, NEW n \in Nat, NEW all \in [1 .. n -> CheckId], NEW starting,
         NEW defs \in [CheckId -> Definition],
         NEW frames, frames = PreparationFrames(all, starting, defs)
  PROVE  Preparing(frames, {all[k] : k \in DOMAIN all}, outMsgId, checksVersion + 1)
<1> DEFINE ids == {all[k] : k \in DOMAIN all}
<1> DEFINE b == Blocks(Len(all))
<1> DEFINE v == checksVersion + 1
<1> DEFINE manifest == [c \in CheckId |-> IF c \notin ids THEN "none" ELSE IF c \in starting THEN "start" ELSE "restart"]
<1> DEFINE block(k) == [c \in CheckId |-> IF c \in BlockOf(all, k) THEN defs[c] ELSE NoDef]
<1> DEFINE P == PrepareFrame(outMsgId + 1, v, manifest)
<1> DEFINE B == [k \in 1 .. b |-> BlockFrame(outMsgId + 1 + k, v, block(k))]
<1> DEFINE E == EndFrame(outMsgId + b + 2, v)
<1>1. all \in Seq(CheckId) /\ Len(all) = n
  OBVIOUS
<1>2. b \in Nat
  BY <1>1, BlocksType
<1>3. ids \subseteq CheckId /\ \A k \in 1 .. b : BlockOf(all, k) \subseteq ids
  BY <1>1 DEF BlockOf
<1>4. frames = (<<P>> \o B) \o <<E>>
  BY DEF PreparationFrames
<1>5. manifest \in Manifest
  BY DEF Manifest, ManifestAction
<1>6. \A k \in 1 .. b : block(k) \in Block
  BY DEF Block
<1>7. P \in Frame /\ P.id = outMsgId + 1 /\ P.version = v /\ P.method = "poller.prepare" /\ P.manifest = manifest
  <2>1. v \in Nat /\ outMsgId + 1 \in Nat
    OBVIOUS
  <2> HIDE DEF manifest, v
  <2> QED
    BY <1>5, <2>1, MakesFrames DEF PrepareFrame
<1>8. \A k \in 1 .. b : /\ B[k] \in Frame /\ B[k].id = outMsgId + 1 + k /\ B[k].version = v
                        /\ B[k].method = "poller.prepare.block" /\ B[k].block = block(k)
  <2>1. v \in Nat /\ \A k \in 1 .. b : outMsgId + 1 + k \in Nat
    BY <1>2
  <2> HIDE DEF block, v
  <2> QED
    BY <1>6, <2>1, MakesFrames DEF BlockFrame
<1>9. E \in Frame /\ E.id = outMsgId + b + 2 /\ E.version = v /\ E.method = "poller.prepare.end"
  <2>1. v \in Nat /\ outMsgId + b + 2 \in Nat
    BY <1>2
  <2> HIDE DEF v, b
  <2> QED
    BY <2>1, MakesFrames DEF EndFrame
<1>10. Mentions(P) = ids
  <2> HIDE DEF P
  <2> QED
    BY <1>3, <1>7 DEF Mentions
<1>11. \A k \in 1 .. b : Mentions(B[k]) \subseteq ids
  <2> HIDE DEF B, b, ids
  <2> SUFFICES ASSUME NEW k \in 1 .. b, NEW c \in CheckId, c \notin ids
               PROVE  c \notin Mentions(B[k])
    BY <1>8 DEF Mentions
  <2>1. B[k].method = "poller.prepare.block" /\ B[k].block = block(k)
    BY <1>8
  <2>2. c \notin BlockOf(all, k)
    BY <1>3
  <2>3. block(k)[c] = NoDef
    BY <2>2
  <2> HIDE DEF block
  <2> QED
    BY <2>1, <2>3 DEF Mentions
<1>12. B \in [1 .. b -> Frame]
  <2> DEFINE F(k) == BlockFrame(outMsgId + 1 + k, v, block(k))
  <2>1. \A k \in 1 .. b : F(k) \in Frame
    BY <1>8
  <2> HIDE DEF F, b
  <2>2. [k \in 1 .. b |-> F(k)] \in [1 .. b -> Frame]
    BY <2>1
  <2> QED
    BY <2>2 DEF F
<1> HIDE DEF P, B, E, b, v, ids
<1>13. B \in Seq(Frame) /\ Len(B) = b
  BY <1>2, <1>12
<1>14. /\ frames \in Seq(Frame) /\ Len(frames) = b + 2
       /\ frames[1] = P /\ frames[b + 2] = E /\ \A i \in 2 .. (b + 1) : frames[i] = B[i - 1]
  BY <1>2, <1>4, <1>7, <1>9, <1>13
<1>15. DOMAIN frames = 1 .. (b + 2) /\ \A i \in 1 .. (b + 2) : i = 1 \/ i = b + 2 \/ (i \in 2 .. (b + 1) /\ i - 1 \in 1 .. b)
  BY <1>2, <1>14
<1>16. ASSUME NEW i \in DOMAIN frames
       PROVE  /\ frames[i].id = outMsgId + i /\ frames[i].version = v
              /\ frames[i].method # "poller.commit"
              /\ frames[i].method = "poller.prepare" <=> i = 1
              /\ frames[i].method = "poller.prepare.end" <=> i = Len(frames)
              /\ frames[i].method = "poller.prepare.block" => Mentions(frames[i]) \subseteq ids
  <2>1. CASE i = 1
    BY <1>2, <1>7, <1>14, <2>1
  <2>2. CASE i = b + 2
    BY <1>2, <1>9, <1>14, <2>2
  <2>3. CASE i \in 2 .. (b + 1) /\ i - 1 \in 1 .. b
    <3>1. i \in Nat /\ i # 1 /\ i # b + 2 /\ outMsgId + 1 + (i - 1) = outMsgId + i
      BY <1>2, <2>3
    <3>3. frames[i] = B[i - 1]
      BY <1>14, <2>3
    <3>2. /\ B[i - 1].id = outMsgId + 1 + (i - 1) /\ B[i - 1].version = v
          /\ B[i - 1].method = "poller.prepare.block" /\ Mentions(B[i - 1]) \subseteq ids
      BY <1>8, <1>11, <2>3
    <3> QED
      BY <1>14, <3>1, <3>2, <3>3
  <2> QED
    BY <1>15, <2>1, <2>2, <2>3
<1> QED
  <2>1. Preparing(frames, ids, outMsgId, v)
    BY <1>2, <1>10, <1>14, <1>15, <1>16 DEF Preparing
  <2> QED
    BY <2>1 DEF v, ids

-----------------------------------------------------------------------------
(***************************************************************************)
(* The agent's steps.                                                      *)
(***************************************************************************)

\* What is left to show of a step: the session's own invariant is SessionProofs'.
AgentInv == AgentTypeOK /\ Written /\ Read /\ Older /\ Pending /\ Confirmed

\* A load writes no commit, and only frames of a new version; the entry that it makes is
\* that of its poller.prepare, and no other changes.
Wrote ==
  /\ outMsgId <= outMsgId' /\ checksVersion <= checksVersion'
  /\ \A i \in DOMAIN toPoller' :
       \/ \E j \in DOMAIN toPoller : toPoller'[i] = toPoller[j]
       \/ /\ toPoller'[i].method # "poller.commit" /\ toPoller'[i].version = checksVersion + 1
          /\ toPoller'[i].method = "poller.prepare" =>
               /\ toPoller'[i].id \in DOMAIN pendingPrepares'
               /\ pendingPrepares'[toPoller'[i].id].version = checksVersion + 1
  /\ \A m \in DOMAIN pendingPrepares' :
       m = outMsgId + 1 \/ (m \in DOMAIN pendingPrepares /\ pendingPrepares'[m] = pendingPrepares[m])

\* A preparation is newer than everything before it, and its entry knows its checks.
LEMMA PreparesInv ==
  ASSUME PInv, UNCHANGED <<vars, committedChecks>>, checkId' \in Nat, endpoint' \in {"running", "crashed"},
         NEW n \in Nat, NEW all \in [1 .. n -> CheckId], NEW starting, NEW defs \in [CheckId -> Definition],
         prepareChecks(all, starting, defs)
  PROVE  AgentInv' /\ Wrote
<1> DEFINE ids == {all[k] : k \in DOMAIN all}
<1>1. PICK frames : frames = PreparationFrames(all, starting, defs)
  OBVIOUS
<1>2. /\ checksVersion' = checksVersion + 1
      /\ outMsgId' = outMsgId + Len(frames)
      /\ toPoller' = toPoller \o frames
      /\ pendingPrepares' = [m \in DOMAIN pendingPrepares \cup {outMsgId + 1} |->
                               IF m = outMsgId + 1
                               THEN [version |-> checksVersion + 1, checkIds |-> ids, committing |-> FALSE]
                               ELSE pendingPrepares[m]]
  BY <1>1 DEF prepareChecks
<1>3. /\ checkId \in Nat /\ outMsgId \in Nat /\ checksVersion \in Nat /\ toPoller \in Seq(Frame)
      /\ DOMAIN pendingPrepares \subseteq Nat
      /\ \A m \in DOMAIN pendingPrepares : pendingPrepares[m] \in PendingPrepare
  BY DEF PInv, AgentTypeOK
<1>4. /\ frames \in Seq(Frame) /\ Len(frames) \in Nat /\ 1 \in DOMAIN frames /\ DOMAIN frames = 1 .. Len(frames)
      /\ \A i \in DOMAIN frames :
           /\ frames[i].id = outMsgId + i /\ frames[i].version = checksVersion + 1
           /\ frames[i].method # "poller.commit"
           /\ frames[i].method = "poller.prepare" <=> i = 1
           /\ frames[i].method = "poller.prepare.end" <=> i = Len(frames)
           /\ frames[i].method = "poller.prepare.block" => Mentions(frames[i]) \subseteq ids
      /\ Mentions(frames[1]) = ids
  <2>1. Preparing(frames, ids, outMsgId, checksVersion + 1)
    BY <1>1, <1>3, PreparationFacts
  <2> HIDE DEF ids
  <2>2. frames \in Seq(Frame)
    BY <2>1 DEF Preparing
  <2> QED
    BY <2>1, <2>2 DEF Preparing
<1>4a. /\ outMsgId' = outMsgId + Len(frames) /\ checksVersion' = checksVersion + 1
       /\ Len(frames) \in Nat /\ outMsgId' \in Nat /\ checksVersion' \in Nat
       /\ outMsgId <= outMsgId' /\ checksVersion <= checksVersion'
  <2>1. Len(frames) \in Nat
    BY <1>4
  <2> QED
    BY <1>2, <1>3, <2>1
<1>5. ids \in SUBSET CheckId
  OBVIOUS
<1> HIDE DEF ids
\* The frames are the old ones and then the new ones.
<1>6. /\ toPoller' \in Seq(Frame)
      /\ \A i \in DOMAIN toPoller' :
           /\ i \in Nat /\ toPoller'[i] \in Frame
           /\ \/ i \in DOMAIN toPoller /\ i <= Len(toPoller) /\ toPoller'[i] = toPoller[i]
              \/ \E j \in DOMAIN frames : i = Len(toPoller) + j /\ toPoller'[i] = frames[j]
  <2>1. /\ toPoller \o frames \in Seq(Frame) /\ Len(toPoller) \in Nat
        /\ DOMAIN toPoller = 1 .. Len(toPoller) /\ DOMAIN frames = 1 .. Len(frames)
        /\ \A i \in DOMAIN toPoller : (toPoller \o frames)[i] = toPoller[i] /\ toPoller[i] \in Frame
        /\ \A i \in DOMAIN frames : (toPoller \o frames)[Len(toPoller) + i] = frames[i] /\ frames[i] \in Frame
        /\ \A i \in DOMAIN (toPoller \o frames) :
             i \in Nat /\ (i \in DOMAIN toPoller \/ (i > Len(toPoller) /\ i - Len(toPoller) \in DOMAIN frames))
    BY <1>3, <1>4, ConcatFacts
  <2> SUFFICES ASSUME NEW i \in DOMAIN toPoller'
               PROVE  /\ i \in Nat /\ toPoller'[i] \in Frame
                      /\ \/ i \in DOMAIN toPoller /\ i <= Len(toPoller) /\ toPoller'[i] = toPoller[i]
                         \/ \E j \in DOMAIN frames : i = Len(toPoller) + j /\ toPoller'[i] = frames[j]
    BY <1>2, <2>1
  <2>2. CASE i \in DOMAIN toPoller
    BY <1>2, <2>1, <2>2
  <2>3. CASE i > Len(toPoller) /\ i - Len(toPoller) \in DOMAIN frames
    <3>1. i = Len(toPoller) + (i - Len(toPoller)) /\ i \in Nat
      BY <1>2, <2>1
    <3> QED
      BY <1>2, <2>1, <2>3, <3>1
  <2> QED
    BY <1>2, <2>1, <2>2, <2>3
<1>7. \A i \in DOMAIN toPoller : toPoller[i] \in Frame /\ i \in Nat /\ i <= Len(toPoller) /\ Len(toPoller) \in Nat
  BY <1>3
<1>8. AgentTypeOK'
  <2>1. \A m \in DOMAIN pendingPrepares' : m \in Nat /\ pendingPrepares'[m] \in PendingPrepare
    BY <1>2, <1>3, <1>5 DEF PendingPrepare
  <2> QED
    <3>1. outMsgId' \in Nat /\ checksVersion' \in Nat
      BY <1>2, <1>3, <1>4
    <3> QED
      BY <1>6, <2>1, <3>1 DEF AgentTypeOK
<1>9. /\ \A i \in DOMAIN toPoller : toPoller[i].id <= outMsgId /\ toPoller[i].version <= checksVersion
      /\ \A i \in DOMAIN toPoller : toPoller[i].id \in Nat /\ toPoller[i].version \in Nat
      /\ \A i, j \in DOMAIN toPoller : i < j => Precedes(toPoller[i], toPoller[j])
  BY <1>7, FrameFacts DEF PInv, Written
<1>10. Written'
  <2>1. ASSUME NEW i \in DOMAIN toPoller'
        PROVE  toPoller'[i].id <= outMsgId' /\ toPoller'[i].version <= checksVersion'
    <3>1. CASE i \in DOMAIN toPoller /\ toPoller'[i] = toPoller[i]
      BY <1>3, <1>4a, <1>9, <3>1
    <3>2. ASSUME NEW j \in DOMAIN frames, toPoller'[i] = frames[j]
          PROVE  toPoller'[i].id <= outMsgId' /\ toPoller'[i].version <= checksVersion'
      <4>1. j \in Nat /\ j <= Len(frames) /\ frames[j].id = outMsgId + j /\ frames[j].version = checksVersion + 1
        BY <1>4
      <4> QED
        BY <1>3, <1>4a, <3>2, <4>1
    <3> QED
      BY <1>6, <3>1, <3>2
  <2>2. ASSUME NEW i \in DOMAIN toPoller', NEW j \in DOMAIN toPoller', i < j
        PROVE  Precedes(toPoller'[i], toPoller'[j])
    <3>1. CASE i \in DOMAIN toPoller /\ j \in DOMAIN toPoller /\ toPoller'[i] = toPoller[i] /\ toPoller'[j] = toPoller[j]
      BY <1>9, <2>2, <3>1
    <3>2. ASSUME i \in DOMAIN toPoller, toPoller'[i] = toPoller[i],
                 NEW k \in DOMAIN frames, toPoller'[j] = frames[k]
          PROVE  Precedes(toPoller'[i], toPoller'[j])
      <4>1. /\ toPoller[i].id <= outMsgId /\ toPoller[i].id \in Nat /\ toPoller[i].version <= checksVersion
            /\ toPoller[i].version \in Nat /\ frames[k].id = outMsgId + k /\ frames[k].version = checksVersion + 1
            /\ k \in Nat /\ k > 0
        BY <1>4, <1>9, <3>2
      <4>2. toPoller[i].id < frames[k].id /\ toPoller[i].version < frames[k].version
        BY <1>3, <4>1
      <4> QED
        BY <1>3, <3>2, <4>1, <4>2 DEF Precedes
    <3>3. ASSUME NEW k \in DOMAIN frames, i = Len(toPoller) + k, toPoller'[i] = frames[k],
                 NEW l \in DOMAIN frames, j = Len(toPoller) + l, toPoller'[j] = frames[l]
          PROVE  Precedes(toPoller'[i], toPoller'[j])
      <4>1. k < l /\ k \in Nat /\ l \in Nat /\ k # Len(frames) /\ l # 1
        BY <1>3, <1>4, <2>2, <3>3
      <4>2. frames[k].id < frames[l].id /\ frames[k].version = frames[l].version
            /\ frames[k].version \in Nat /\ frames[k].method # "poller.prepare.end" /\ frames[l].method # "poller.prepare"
        BY <1>3, <1>4, <4>1
      <4>3. frames[k].method = "poller.prepare" /\ frames[l].method = "poller.prepare.block" =>
              Mentions(frames[l]) \subseteq Mentions(frames[k])
        BY <1>4
      <4> QED
        BY <3>3, <4>2, <4>3 DEF Precedes
    <3>4. ASSUME NEW k \in DOMAIN frames, i = Len(toPoller) + k, j \in DOMAIN toPoller PROVE FALSE
      BY <1>4, <1>7, <2>2, <3>4
    <3> QED
      BY <1>6, <3>1, <3>2, <3>3, <3>4
  <2> QED
    BY <2>1, <2>2 DEF Written
<1>11. UNCHANGED <<activePrep, prepareToEndTimer, reconciled, sendCh>>
  BY DEF vars, prepDetails
<1>12. activePrep # NoPrep => activePrep.version \in Int /\ activePrep.version <= checksVersion
  BY DEF PInv, IInv, TypeOK, Preparation, Read
<1>13. Read'
  <2>1. ASSUME NEW i \in DOMAIN toPoller' PROVE Finds(toPoller'[i], activePrep', prepareToEndTimer')
    <3>1. CASE toPoller'[i] = toPoller[i] /\ i \in DOMAIN toPoller
      BY <1>11, <3>1 DEF PInv, Read
    <3>2. ASSUME NEW k \in DOMAIN frames, toPoller'[i] = frames[k] PROVE Finds(toPoller'[i], activePrep', prepareToEndTimer')
      <4>1. frames[k].version = checksVersion + 1
        BY <1>4
      <4> QED
        BY <1>3, <1>11, <1>12, <3>2, <4>1 DEF Finds
    <3> QED
      BY <1>6, <3>1, <3>2
  <2> QED
    BY <1>2, <1>3, <1>11, <1>12, <2>1 DEF Read
<1>14. \A k \in DOMAIN reconciled : reconciled[k].version \in Int /\ reconciled[k].version <= checksVersion
  <2>1. reconciled \in Seq(Preparation)
    BY DEF PInv, IInv, TypeOK
  <2>2. \A k \in DOMAIN reconciled : reconciled[k] \in Preparation
    BY <2>1
  <2> QED
    BY <2>2 DEF PInv, Older, Preparation
<1>15. Older'
  <2> SUFFICES ASSUME NEW k \in DOMAIN reconciled
               PROVE  /\ reconciled[k].version <= checksVersion'
                      /\ activePrep # NoPrep => reconciled[k].version < activePrep.version
                      /\ \A i \in DOMAIN toPoller' :
                           toPoller'[i].method = "poller.prepare" => reconciled[k].version < toPoller'[i].version
    BY <1>11 DEF Older
  <2>1. reconciled[k].version <= checksVersion' /\ (activePrep # NoPrep => reconciled[k].version < activePrep.version)
    BY <1>2, <1>3, <1>14 DEF PInv, Older
  <2>2. ASSUME NEW i \in DOMAIN toPoller', toPoller'[i].method = "poller.prepare"
        PROVE  reconciled[k].version < toPoller'[i].version
    <3>1. CASE toPoller'[i] = toPoller[i] /\ i \in DOMAIN toPoller
      BY <2>2, <3>1 DEF PInv, Older
    <3>2. ASSUME NEW j \in DOMAIN frames, toPoller'[i] = frames[j] PROVE reconciled[k].version < toPoller'[i].version
      BY <1>3, <1>4, <1>14, <3>2
    <3> QED
      BY <1>6, <3>1, <3>2
  <2> QED
    BY <2>1, <2>2
<1>16. /\ \A m \in DOMAIN pendingPrepares : m \in Nat /\ m <= outMsgId /\ m # outMsgId + 1
       /\ \A m \in DOMAIN pendingPrepares : pendingPrepares'[m] = pendingPrepares[m]
       /\ DOMAIN pendingPrepares' = DOMAIN pendingPrepares \cup {outMsgId + 1}
  <2>1. \A m \in DOMAIN pendingPrepares : m \in Nat /\ m <= outMsgId /\ m # outMsgId + 1
    BY <1>3 DEF PInv, Pending, Knows
  <2> QED
    BY <1>2, <2>1
<1>17. Pending'
  <2>1. ASSUME NEW m \in DOMAIN pendingPrepares PROVE Knows(m)'
    <3>1. pendingPrepares[m].version \in Nat /\ pendingPrepares[m].version <= checksVersion /\ m <= outMsgId /\ m \in Nat
      BY <1>3 DEF PInv, Pending, Knows, PendingPrepare
    <3>2. pendingPrepares'[m] = pendingPrepares[m]
      BY <1>16
    <3>3. ASSUME NEW i \in DOMAIN toPoller', toPoller'[i].method = "poller.prepare",
                 toPoller'[i].version = pendingPrepares[m].version
          PROVE  pendingPrepares[m].checkIds = Mentions(toPoller'[i])
      <4>1. CASE toPoller'[i] = toPoller[i] /\ i \in DOMAIN toPoller
        BY <3>3, <4>1 DEF PInv, Pending, Knows
      <4>2. ASSUME NEW j \in DOMAIN frames, toPoller'[i] = frames[j] PROVE FALSE
        BY <1>3, <1>4, <3>1, <3>3, <4>2
      <4> QED
        BY <1>6, <4>1, <4>2
    <3>4. m <= outMsgId' /\ pendingPrepares[m].version <= checksVersion'
      BY <1>3, <1>4a, <3>1
    <3>5. activePrep # NoPrep /\ activePrep.version = pendingPrepares[m].version =>
            pendingPrepares[m].checkIds = Declared(activePrep)
      BY DEF PInv, Pending, Knows
    <3> QED
      BY <1>11, <3>2, <3>3, <3>4, <3>5 DEF Knows
  <2>2. ASSUME NEW x, x = outMsgId + 1 PROVE Knows(x)'
    <3>1. pendingPrepares'[x] = [version |-> checksVersion + 1, checkIds |-> ids, committing |-> FALSE]
      BY <1>2, <2>2
    <3>2. x <= outMsgId'
      BY <1>2, <1>3, <1>4, <2>2
    <3>3. ASSUME NEW i \in DOMAIN toPoller', toPoller'[i].method = "poller.prepare",
                 toPoller'[i].version = checksVersion + 1
          PROVE  ids = Mentions(toPoller'[i])
      <4>1. CASE toPoller'[i] = toPoller[i] /\ i \in DOMAIN toPoller
        BY <1>3, <1>9, <3>3, <4>1
      <4>2. ASSUME NEW j \in DOMAIN frames, toPoller'[i] = frames[j] PROVE ids = Mentions(toPoller'[i])
        BY <1>4, <3>3, <4>2
      <4> QED
        BY <1>6, <4>1, <4>2
    <3>4. activePrep' # NoPrep => activePrep'.version # checksVersion + 1
      BY <1>3, <1>11, <1>12
    <3> QED
      <4>1. /\ pendingPrepares'[x].version = checksVersion + 1 /\ pendingPrepares'[x].checkIds = ids
            /\ checksVersion + 1 <= checksVersion'
        BY <1>2, <1>3, <3>1
      <4> QED
        BY <3>2, <3>3, <3>4, <4>1 DEF Knows
  <2>3. ASSUME NEW i \in DOMAIN toPoller', toPoller'[i].method = "poller.commit"
        PROVE  Committing(toPoller'[i].id, pendingPrepares') /\ pendingPrepares'[toPoller'[i].id].version = toPoller'[i].version
    <3>1. toPoller'[i] = toPoller[i] /\ i \in DOMAIN toPoller
      BY <1>4, <1>6, <2>3
    <3> QED
      BY <1>16, <2>3, <3>1 DEF PInv, Pending, Committing
  <2> QED
    BY <1>16, <2>1, <2>2, <2>3 DEF Pending
<1>18. Confirmed'
  <2>1. Confirming' = Confirming /\ Newest' = Newest /\ committedChecks' = committedChecks
    BY <1>11 DEF Confirming, Newest
  <2>2. sendCh \in Seq(Response)
    BY DEF PInv, IInv, TypeOK
  <2>3. ASSUME NEW i \in Confirming
        PROVE  /\ sendCh[i].id <= outMsgId'
               /\ \A j \in DOMAIN toPoller' : sendCh[i].id < toPoller'[j].id
               /\ \A j \in Confirming : i < j => sendCh[i].id < sendCh[j].id
               /\ \/ \E j \in Confirming : i < j
                  \/ Committing(sendCh[i].id, pendingPrepares') /\ pendingPrepares'[sendCh[i].id].checkIds = Newest
    <3>1. sendCh[i].id \in Int /\ sendCh[i].id <= outMsgId
      <4>1. sendCh[i] \in Response
        BY <2>2 DEF Confirming
      <4> QED
        BY <4>1 DEF PInv, Confirmed, Response
    <3>2. ASSUME NEW j \in DOMAIN toPoller' PROVE sendCh[i].id < toPoller'[j].id
      <4>1. CASE toPoller'[j] = toPoller[j] /\ j \in DOMAIN toPoller
        BY <4>1 DEF PInv, Confirmed
      <4>2. ASSUME NEW k \in DOMAIN frames, toPoller'[j] = frames[k] PROVE sendCh[i].id < toPoller'[j].id
        BY <1>3, <1>4, <3>1, <4>2
      <4> QED
        BY <1>6, <4>1, <4>2
    <3>3. \/ \E j \in Confirming : i < j
          \/ Committing(sendCh[i].id, pendingPrepares') /\ pendingPrepares'[sendCh[i].id].checkIds = Newest
      BY <1>16 DEF PInv, Confirmed, Committing
    <3> QED
      BY <1>2, <1>3, <1>4, <3>1, <3>2, <3>3 DEF PInv, Confirmed
  <2> QED
    BY <1>11, <2>1, <2>3 DEF Confirmed, PInv
<1>19. Wrote
  <2>1. ASSUME NEW i \in DOMAIN toPoller', NEW j \in DOMAIN frames, toPoller'[i] = frames[j]
        PROVE  /\ toPoller'[i].method # "poller.commit" /\ toPoller'[i].version = checksVersion + 1
               /\ toPoller'[i].method = "poller.prepare" =>
                    /\ toPoller'[i].id \in DOMAIN pendingPrepares'
                    /\ pendingPrepares'[toPoller'[i].id].version = checksVersion + 1
    <3>1. /\ frames[j].method # "poller.commit" /\ frames[j].version = checksVersion + 1
          /\ frames[j].method = "poller.prepare" => frames[j].id = outMsgId + 1
      BY <1>4
    <3>2. /\ outMsgId + 1 \in DOMAIN pendingPrepares'
          /\ pendingPrepares'[outMsgId + 1].version = checksVersion + 1
      BY <1>2
    <3> QED
      BY <2>1, <3>1, <3>2
  <2>2. \A m \in DOMAIN pendingPrepares' :
          m = outMsgId + 1 \/ (m \in DOMAIN pendingPrepares /\ pendingPrepares'[m] = pendingPrepares[m])
    BY <1>16
  <2> QED
    BY <1>4a, <1>6, <2>1, <2>2 DEF Wrote
<1> QED
  BY <1>8, <1>10, <1>13, <1>15, <1>17, <1>18, <1>19 DEF AgentInv

\* A load prepares its checks or makes the agent panic.
LEMMA LoadsInv ==
  ASSUME PInv, EndpointLoads
  PROVE  AgentInv' /\ Wrote
<1>1. PICK n \in 0 .. MaxFiles, defs \in [CheckId -> Definition] :
             Loaded(n) \subseteq CheckId /\ (applyInitialChecks(n, defs) \/ Reload(n, defs))
  BY DEF EndpointLoads
<1>2. n \in Nat /\ checkId + n \in Nat
  BY DEF PInv, AgentTypeOK
<1>3. UNCHANGED <<vars, committedChecks>> /\ checkId' = checkId + n
  BY <1>1 DEF EndpointLoads, pollerVars, applyInitialChecks, Reload
<1>4. ASSUME NEW first, NEW starting, NEW all \in Classified(n, first), prepareChecks(all, starting, defs),
             endpoint' = endpoint
      PROVE  AgentInv' /\ Wrote
  <2>1. all \in [1 .. n -> CheckId]
    BY <1>1, <1>4 DEF Classified
  <2> QED
    BY <1>2, <1>3, <1>4, <2>1, PreparesInv DEF PInv, AgentTypeOK
<1>5. ASSUME UNCHANGED <<outMsgId, checksVersion, pendingPrepares, toPoller>>, endpoint' = "crashed"
      PROVE  AgentInv' /\ Wrote
  <2>1. UNCHANGED <<activePrep, prepareToEndTimer, reconciled, sendCh, committedChecks>>
    BY <1>3 DEF vars, prepDetails
  <2>2. AgentTypeOK' /\ Written' /\ Read' /\ Older'
    BY <1>2, <1>3, <1>5, <2>1 DEF PInv, AgentTypeOK, Written, Read, Older
  <2>3. Pending' /\ Confirmed'
    BY <1>5, <2>1 DEF PInv, Pending, Knows, Confirmed, Confirming, Newest
  <2>4. Wrote
    BY <1>5 DEF Wrote, PInv, AgentTypeOK
  <2> QED
    BY <2>2, <2>3, <2>4 DEF AgentInv
<1> QED
  BY <1>1, <1>4, <1>5 DEF applyInitialChecks, Reload

\* The response is taken out of sendCh, and of the confirmations only the first one goes.
LEMMA TransmitFacts ==
  ASSUME PInv, Transmit
  PROVE  /\ UNCHANGED <<activePrep, prepareToEndTimer, reconciled>> /\ sendCh # <<>> /\ Head(sendCh) = sendCh[1]
         /\ sendCh[1].id \in Int /\ 1 \in DOMAIN sendCh
         /\ \A i \in DOMAIN sendCh : sendCh[i].id \in Int /\ i \in Nat
         /\ \A i \in Confirming' : i \in Nat /\ i + 1 \in Confirming /\ sendCh'[i] = sendCh[i + 1] /\ 1 < i + 1
         /\ \A i \in Confirming : i = 1 \/ (i - 1 \in Confirming' /\ sendCh'[i - 1] = sendCh[i] /\ i \in Nat)
<1>1. sendCh \in Seq(Response) /\ sendCh # <<>> /\ sendCh' = Tail(sendCh)
  BY DEF PInv, IInv, TypeOK, Transmit
<1>2. \A i \in DOMAIN sendCh : sendCh[i].id \in Int /\ i \in Nat
  <2>1. \A i \in DOMAIN sendCh : sendCh[i] \in Response /\ i \in Nat
    BY <1>1
  <2> QED
    BY <2>1 DEF Response
<1>3. /\ 1 \in DOMAIN sendCh /\ Head(sendCh) = sendCh[1]
      /\ \A i \in DOMAIN Tail(sendCh) : i \in Nat /\ 1 < i + 1 /\ i + 1 \in DOMAIN sendCh /\ Tail(sendCh)[i] = sendCh[i + 1]
      /\ \A i \in DOMAIN sendCh : i # 1 => i - 1 \in DOMAIN Tail(sendCh) /\ Tail(sendCh)[i - 1] = sendCh[i]
  BY <1>1, TailFacts
<1>4. UNCHANGED <<activePrep, prepareToEndTimer, reconciled>>
  BY DEF Transmit, prepDetails
<1>5. \A i \in Confirming' : i \in Nat /\ i + 1 \in Confirming /\ sendCh'[i] = sendCh[i + 1] /\ 1 < i + 1
  BY <1>1, <1>3 DEF Confirming
<1>6. \A i \in Confirming : i = 1 \/ (i - 1 \in Confirming' /\ sendCh'[i - 1] = sendCh[i] /\ i \in Nat)
  BY <1>1, <1>2, <1>3 DEF Confirming
<1> QED
  BY <1>1, <1>2, <1>3, <1>4, <1>5, <1>6

\* A response is read and the entries that wait for a confirmation are still there: what
\* Confirmed says of the confirmations that are left still holds.
LEMMA StillConfirmed ==
  ASSUME PInv, Transmit, outMsgId' \in Nat, outMsgId <= outMsgId',
         \A j \in DOMAIN toPoller' : \/ \E k \in DOMAIN toPoller : toPoller'[j].id = toPoller[k].id
                                     \/ toPoller'[j].id \in Nat /\ toPoller'[j].id > outMsgId,
         \A m \in Int : (1 \in Confirming => m # sendCh[1].id) /\ Committing(m, pendingPrepares) =>
           Committing(m, pendingPrepares') /\ pendingPrepares'[m] = pendingPrepares[m],
         Confirming' = {} => committedChecks' = Newest
  PROVE  Confirmed'
<1>1. outMsgId \in Nat
  BY DEF PInv, AgentTypeOK
<1>2. Newest' = Newest
  BY TransmitFacts DEF Newest
<1>3. ASSUME NEW i \in Confirming'
      PROVE  /\ sendCh'[i].id <= outMsgId'
             /\ \A j \in DOMAIN toPoller' : sendCh'[i].id < toPoller'[j].id
             /\ \A j \in Confirming' : i < j => sendCh'[i].id < sendCh'[j].id
             /\ \/ \E j \in Confirming' : i < j
                \/ Committing(sendCh'[i].id, pendingPrepares') /\ pendingPrepares'[sendCh'[i].id].checkIds = Newest
  <2>1. i \in Nat /\ i + 1 \in Confirming /\ sendCh'[i] = sendCh[i + 1] /\ 1 < i + 1
    BY TransmitFacts
  <2>2. sendCh[i + 1].id \in Int /\ sendCh[i + 1].id <= outMsgId
    BY <2>1, TransmitFacts DEF PInv, Confirmed, Confirming
  <2>3. \A j \in DOMAIN toPoller' : sendCh'[i].id < toPoller'[j].id
    BY <1>1, <2>1, <2>2 DEF PInv, Confirmed
  <2>4. \A j \in Confirming' : i < j => sendCh'[i].id < sendCh'[j].id
    <3> SUFFICES ASSUME NEW j \in Confirming', i < j PROVE sendCh'[i].id < sendCh'[j].id
      OBVIOUS
    <3>1. j \in Nat /\ j + 1 \in Confirming /\ sendCh'[j] = sendCh[j + 1] /\ i + 1 < j + 1
      BY <2>1, TransmitFacts
    <3> QED
      BY <2>1, <3>1 DEF PInv, Confirmed
  <2>5. ASSUME ~ \E j \in Confirming' : i < j
        PROVE  Committing(sendCh'[i].id, pendingPrepares') /\ pendingPrepares'[sendCh'[i].id].checkIds = Newest
    <3>1. ~ \E j \in Confirming : i + 1 < j
      <4> SUFFICES ASSUME NEW j \in Confirming, i + 1 < j PROVE FALSE
        OBVIOUS
      <4>1. j \in Nat /\ j - 1 \in Confirming' /\ i < j - 1
        BY <2>1, TransmitFacts
      <4> QED
        BY <2>5, <4>1
    <3>2. Committing(sendCh[i + 1].id, pendingPrepares) /\ pendingPrepares[sendCh[i + 1].id].checkIds = Newest
      BY <2>1, <3>1 DEF PInv, Confirmed
    <3>3. 1 \in Confirming => sendCh[i + 1].id # sendCh[1].id
      BY <2>1, <2>2 DEF PInv, Confirmed
    <3> QED
      BY <2>1, <2>2, <3>2, <3>3
  <2>6. sendCh'[i].id <= outMsgId'
    BY <1>1, <2>1, <2>2
  <2> QED
    BY <2>3, <2>4, <2>5, <2>6
<1> QED
  BY <1>2, <1>3 DEF Confirmed

\* handleResponse: a commit goes out with an entry of its own, an entry goes away when
\* its preparation failed or its commit was confirmed, and the last confirmation is about
\* what was handed over last.
LEMMA HandlesInv ==
  ASSUME PInv, EndpointHandlesResponse
  PROVE  AgentInv'
<1> DEFINE id == sendCh[1].id
<1> DEFINE status == sendCh[1].status
<1>1. /\ Transmit /\ handleResponse(id, status)
      /\ UNCHANGED <<activePrep, prepareToEndTimer, reconciled>> /\ id \in Int /\ 1 \in DOMAIN sendCh
  BY TransmitFacts DEF EndpointHandlesResponse
<1>2. /\ checkId \in Nat /\ outMsgId \in Nat /\ checksVersion \in Nat /\ toPoller \in Seq(Frame)
      /\ endpoint \in {"running", "crashed"}
      /\ DOMAIN pendingPrepares \subseteq Nat
      /\ \A m \in DOMAIN pendingPrepares : pendingPrepares[m] \in PendingPrepare
  BY DEF PInv, AgentTypeOK
<1>3. 1 \in Confirming <=> status = "committed"
  BY <1>1 DEF Confirming
<1> HIDE DEF id, status
<1>4. UNCHANGED <<checkId, checksVersion, endpoint>>
  BY <1>1 DEF handleResponse
<1>5. 1 \notin Confirming => (Confirming' = {} => Confirming = {})
  BY <1>1, TransmitFacts
\* No frame is written: entries go away, except those of commits on their way.
<1>6. ASSUME UNCHANGED <<outMsgId, toPoller>>, DOMAIN pendingPrepares' \subseteq DOMAIN pendingPrepares,
             \A m \in DOMAIN pendingPrepares' : pendingPrepares'[m] = pendingPrepares[m],
             \A m \in DOMAIN pendingPrepares : (1 \in Confirming => m # id) /\ pendingPrepares[m].committing =>
               m \in DOMAIN pendingPrepares',
             Confirming' = {} => committedChecks' = Newest
      PROVE  AgentInv'
  <2>1. AgentTypeOK'
    BY <1>2, <1>4, <1>6 DEF AgentTypeOK
  <2>2. Written' /\ Read' /\ Older'
    BY <1>1, <1>4, <1>6 DEF PInv, Written, Read, Older
  <2>3. \A m \in DOMAIN pendingPrepares' : Knows(m)'
    BY <1>1, <1>4, <1>6 DEF PInv, Pending, Knows
  <2>4. ASSUME NEW i \in DOMAIN toPoller, toPoller[i].method = "poller.commit"
        PROVE  /\ Committing(toPoller[i].id, pendingPrepares')
               /\ pendingPrepares'[toPoller[i].id].version = toPoller[i].version
    <3>1. toPoller[i].id \in Nat
      BY <1>2, FrameFacts
    <3>2. 1 \in Confirming => toPoller[i].id # id
      BY <1>1, <3>1 DEF PInv, Confirmed, id
    <3> QED
      BY <1>6, <2>4, <3>2 DEF PInv, Pending, Committing
  <2>5. Pending'
    BY <1>6, <2>3, <2>4 DEF Pending
  <2>6. Confirmed'
    <3>1. \A m \in Int : (1 \in Confirming => m # sendCh[1].id) /\ Committing(m, pendingPrepares) =>
            Committing(m, pendingPrepares') /\ pendingPrepares'[m] = pendingPrepares[m]
      BY <1>6 DEF Committing, id
    <3>2. outMsgId' \in Nat /\ outMsgId <= outMsgId'
      BY <1>2, <1>6
    <3> QED
      BY <1>1, <1>6, <3>1, <3>2, StillConfirmed
  <2> QED
    BY <2>1, <2>2, <2>5, <2>6 DEF AgentInv
<1>7. CASE id \notin DOMAIN pendingPrepares
  <2>1. UNCHANGED <<outMsgId, committedChecks, pendingPrepares, toPoller>>
    BY <1>1, <1>7 DEF handleResponse
  <2>2. Confirming' = {} => committedChecks' = Newest
    <3>1. CASE 1 \notin Confirming
      BY <1>5, <2>1, <3>1 DEF PInv, Confirmed
    <3>2. CASE 1 \in Confirming
      <4> SUFFICES ASSUME Confirming' = {} PROVE FALSE
        OBVIOUS
      <4>1. ~ \E j \in Confirming : 1 < j
        BY <1>1, TransmitFacts
      <4> QED
        BY <1>7, <3>2, <4>1 DEF PInv, Confirmed, Committing, id
    <3> QED
      BY <3>1, <3>2
  <2> QED
    BY <1>6, <2>1, <2>2
<1>8. CASE id \in DOMAIN pendingPrepares /\ pendingPrepares[id].committing
  <2>1. UNCHANGED <<outMsgId, toPoller>> /\ handlePollerCommitResponse(id, status)
    BY <1>1, <1>8 DEF handleResponse
  <2>2. CASE status = "committed"
    <3>1. committedChecks' = pendingPrepares[id].checkIds /\ pendingPrepares' = RemovePending(id)
      BY <2>1, <2>2 DEF handlePollerCommitResponse
    <3>2. Confirming' = {} => committedChecks' = Newest
      <4> SUFFICES ASSUME Confirming' = {} PROVE committedChecks' = Newest
        OBVIOUS
      <4>1. ~ \E j \in Confirming : 1 < j
        BY <1>1, TransmitFacts
      <4> QED
        BY <1>3, <2>2, <3>1, <4>1 DEF PInv, Confirmed, id
    <3> QED
      BY <1>3, <1>6, <2>1, <2>2, <3>1, <3>2 DEF RemovePending
  <2>3. CASE status # "committed"
    <3>1. UNCHANGED <<committedChecks, pendingPrepares>>
      BY <2>1, <2>3 DEF handlePollerCommitResponse
    <3>2. Confirming' = {} => committedChecks' = Newest
      BY <1>3, <1>5, <2>3, <3>1 DEF PInv, Confirmed
    <3> QED
      BY <1>6, <2>1, <3>1, <3>2
  <2> QED
    BY <2>2, <2>3
<1>9. CASE id \in DOMAIN pendingPrepares /\ ~pendingPrepares[id].committing
  <2>1. handlePollerPrepareResponse(id, status) /\ UNCHANGED committedChecks
    BY <1>1, <1>9 DEF handleResponse
  <2>2. Confirming' = {} => committedChecks' = Newest
    <3>1. CASE 1 \notin Confirming
      BY <1>5, <2>1, <3>1 DEF PInv, Confirmed
    <3>2. CASE 1 \in Confirming
      <4> SUFFICES ASSUME Confirming' = {} PROVE FALSE
        OBVIOUS
      <4>1. ~ \E j \in Confirming : 1 < j
        BY <1>1, TransmitFacts
      <4> QED
        BY <1>9, <3>2, <4>1 DEF PInv, Confirmed, Committing, id
    <3> QED
      BY <3>1, <3>2
  <2>3. CASE status # "prepared"
    <3>1. pendingPrepares' = RemovePending(id) /\ UNCHANGED <<outMsgId, toPoller>>
      BY <2>1, <2>3 DEF handlePollerPrepareResponse
    <3> QED
      BY <1>6, <1>9, <2>2, <3>1 DEF RemovePending
  <2>4. CASE status = "prepared"
    <3> DEFINE x == outMsgId + 1
    <3> DEFINE commit == CommitFrame(x, pendingPrepares[id].version)
    <3>1. /\ outMsgId' = x /\ toPoller' = Append(toPoller, commit)
          /\ pendingPrepares' = [m \in DOMAIN RemovePending(id) \cup {x} |->
               IF m = x THEN [pendingPrepares[id] EXCEPT !.committing = TRUE] ELSE pendingPrepares[m]]
      BY <2>1, <2>4 DEF handlePollerPrepareResponse
    <3>2. x \in Nat /\ x > outMsgId /\ \A m \in DOMAIN pendingPrepares : m # x /\ m <= outMsgId /\ m \in Nat
      BY <1>2 DEF PInv, Pending, Knows
    <3>3. /\ DOMAIN pendingPrepares' = (DOMAIN pendingPrepares \ {id}) \cup {x}
          /\ \A m \in DOMAIN pendingPrepares \ {id} : pendingPrepares'[m] = pendingPrepares[m]
          /\ pendingPrepares'[x] = [pendingPrepares[id] EXCEPT !.committing = TRUE]
      BY <3>1, <3>2 DEF RemovePending
    <3>4. /\ pendingPrepares'[x] \in PendingPrepare /\ pendingPrepares'[x].committing
          /\ pendingPrepares'[x].version = pendingPrepares[id].version
          /\ pendingPrepares'[x].checkIds = pendingPrepares[id].checkIds
          /\ pendingPrepares[id].version \in Nat
      BY <1>2, <1>9, <3>3 DEF PendingPrepare
    <3>5. commit \in Frame /\ commit.id = x /\ commit.version = pendingPrepares[id].version /\ commit.method = "poller.commit"
      BY <3>2, <3>4, MakesFrames DEF CommitFrame
    <3> HIDE DEF commit, x
    <3>6. /\ toPoller' \in Seq(Frame)
          /\ \A i \in DOMAIN toPoller' :
               \/ i \in DOMAIN toPoller /\ toPoller'[i] = toPoller[i]
               \/ i = Len(toPoller) + 1 /\ toPoller'[i] = commit
          /\ \A i \in DOMAIN toPoller : i \in Nat /\ i <= Len(toPoller) /\ Len(toPoller) \in Nat
      BY <1>2, <3>1, <3>5
    <3>7. \A i \in DOMAIN toPoller :
            /\ toPoller[i].id \in Nat /\ toPoller[i].id <= outMsgId
            /\ toPoller[i].version \in Nat /\ toPoller[i].version <= checksVersion
      BY <1>2, FrameFacts DEF PInv, Written
    <3>8. AgentTypeOK'
      BY <1>2, <1>4, <3>1, <3>2, <3>3, <3>4, <3>6 DEF AgentTypeOK
    <3>9. Written'
      <4>1. pendingPrepares[id].version <= checksVersion
        BY <1>9 DEF PInv, Pending, Knows
      <4>2. \A i \in DOMAIN toPoller' : toPoller'[i].id <= outMsgId' /\ toPoller'[i].version <= checksVersion'
        BY <1>2, <1>4, <3>1, <3>2, <3>5, <3>6, <3>7, <4>1
      <4>3. ASSUME NEW i \in DOMAIN toPoller', NEW j \in DOMAIN toPoller', i < j
            PROVE  Precedes(toPoller'[i], toPoller'[j])
        <5>1. i \in DOMAIN toPoller /\ toPoller'[i] = toPoller[i]
          BY <3>6, <4>3
        <5>2. CASE j \in DOMAIN toPoller /\ toPoller'[j] = toPoller[j]
          BY <4>3, <5>1, <5>2 DEF PInv, Written
        <5>3. CASE toPoller'[j] = commit
          BY <1>2, <3>2, <3>5, <3>7, <5>1, <5>3 DEF Precedes
        <5> QED
          BY <3>6, <5>2, <5>3
      <4> QED
        BY <4>2, <4>3 DEF Written
    <3>10. Read'
      <4>1. ASSUME NEW i \in DOMAIN toPoller' PROVE Finds(toPoller'[i], activePrep', prepareToEndTimer')
        <5>1. CASE i \in DOMAIN toPoller /\ toPoller'[i] = toPoller[i]
          BY <1>1, <5>1 DEF PInv, Read
        <5>2. CASE toPoller'[i] = commit
          BY <3>5, <5>2 DEF Finds
        <5> QED
          BY <3>6, <5>1, <5>2
      <4> QED
        BY <1>1, <1>4, <4>1 DEF PInv, Read
    <3>11. Older'
      BY <1>1, <1>4, <3>5, <3>6 DEF PInv, Older
    <3>12. ASSUME NEW i \in DOMAIN toPoller', toPoller'[i].method = "poller.prepare"
           PROVE  i \in DOMAIN toPoller /\ toPoller'[i] = toPoller[i]
      BY <3>5, <3>6, <3>12
    <3>13. ASSUME NEW m \in DOMAIN pendingPrepares' PROVE Knows(m)'
      <4>1. CASE m # x
        <5>1. m \in DOMAIN pendingPrepares /\ pendingPrepares'[m] = pendingPrepares[m] /\ m <= outMsgId'
          BY <1>2, <3>1, <3>2, <3>3, <3>13, <4>1
        <5> QED
          BY <1>1, <1>4, <3>12, <5>1 DEF PInv, Pending, Knows
      <4>2. CASE m = x
        <5>1. /\ pendingPrepares'[m].version = pendingPrepares[id].version
              /\ pendingPrepares'[m].checkIds = pendingPrepares[id].checkIds
          BY <3>4, <4>2
        <5>2. m <= outMsgId'
          BY <3>1, <3>2, <4>2
        <5> QED
          BY <1>1, <1>4, <1>9, <3>12, <5>1, <5>2 DEF PInv, Pending, Knows
      <4> QED
        BY <4>1, <4>2
    <3>14. ASSUME NEW m \in Int, Committing(m, pendingPrepares)
           PROVE  Committing(m, pendingPrepares') /\ pendingPrepares'[m] = pendingPrepares[m]
      BY <1>9, <3>3, <3>14 DEF Committing
    <3>15. ASSUME NEW i \in DOMAIN toPoller', toPoller'[i].method = "poller.commit"
           PROVE  /\ Committing(toPoller'[i].id, pendingPrepares')
                  /\ pendingPrepares'[toPoller'[i].id].version = toPoller'[i].version
      <4>1. CASE i \in DOMAIN toPoller /\ toPoller'[i] = toPoller[i]
        BY <3>7, <3>14, <3>15, <4>1 DEF PInv, Pending
      <4>2. CASE toPoller'[i] = commit
        BY <3>3, <3>4, <3>5, <4>2 DEF Committing
      <4> QED
        BY <3>6, <4>1, <4>2
    <3>16. Pending'
      BY <3>13, <3>15 DEF Pending
    <3>17. Confirmed'
      <4>1. \A j \in DOMAIN toPoller' : \/ \E k \in DOMAIN toPoller : toPoller'[j].id = toPoller[k].id
                                        \/ toPoller'[j].id \in Nat /\ toPoller'[j].id > outMsgId
        BY <3>2, <3>5, <3>6
      <4>2. outMsgId' \in Nat /\ outMsgId <= outMsgId'
        BY <1>2, <3>1, <3>2
      <4> QED
        BY <1>1, <2>2, <3>14, <4>1, <4>2, StillConfirmed
    <3> QED
      BY <3>8, <3>9, <3>10, <3>11, <3>16, <3>17 DEF AgentInv
  <2> QED
    BY <2>3, <2>4
<1> QED
  BY <1>7, <1>8, <1>9

-----------------------------------------------------------------------------
(***************************************************************************)
(* The session's steps.                                                    *)
(***************************************************************************)

\* The session's own invariant does not depend on who its server is.
LEMMA ReceiveIInv ==
  ASSUME PInv, SessionReceives
  PROVE  IInv'
<1> DEFINE f == toPoller[1]
<1>1. f \in Frame /\ handleFrame(f) /\ received' = received + 1
  BY TailFacts DEF SessionReceives, PInv, AgentTypeOK
<1> HIDE DEF f
<1>2. f.id \in Int /\ f.version \in Int /\ received' \in Nat /\ IInv
  BY <1>1, FrameFacts DEF PInv, IInv, TypeOK
<1>3. CASE f.method = "poller.prepare" /\ handlePollerPrepare(f.id, f.version, f.manifest, Valid(f.manifest))
  <2>1. f.manifest \in Manifest /\ Valid(f.manifest) \in BOOLEAN
    BY <1>1, <1>3, FrameFacts DEF Valid
  <2> QED
    BY <1>2, <1>3, <2>1, PrepareIInv
<1>4. CASE f.method = "poller.prepare.block" /\ handlePollerPrepareBlock(f.version, f.block)
  <2>1. f.block \in Block
    BY <1>1, <1>4, FrameFacts
  <2> QED
    BY <1>2, <1>4, <2>1, BlockIInv
<1>5. CASE f.method = "poller.prepare.end" /\ handlePollerPrepareEnd(f.id, f.version, f.directive)
  <2>1. f.directive \in Directive
    BY <1>1, <1>5, FrameFacts DEF Directive
  <2> QED
    BY <1>2, <1>5, <2>1, EndIInv
<1>6. CASE f.method = "poller.commit" /\ handlePollerCommit(f.id, f.version)
  BY <1>2, <1>6, CommitIInv
<1> QED
  BY <1>1, <1>3, <1>4, <1>5, <1>6 DEF handleFrame

\* A frame is read: it preceded what is left.
LEMMA ReceiveFacts ==
  ASSUME PInv, SessionReceives, NEW f, f = toPoller[1]
  PROVE  /\ f \in Frame /\ handleFrame(f) /\ 1 \in DOMAIN toPoller /\ handler = "running"
         /\ UNCHANGED <<checkId, outMsgId, checksVersion, committedChecks, pendingPrepares, endpoint>>
         /\ \A i \in DOMAIN toPoller' :
              /\ i + 1 \in DOMAIN toPoller /\ toPoller'[i] = toPoller[i + 1]
              /\ toPoller'[i] \in Frame /\ Precedes(f, toPoller'[i])
         /\ AgentTypeOK' /\ Written'
<1>1. /\ toPoller \in Seq(Frame) /\ toPoller # <<>> /\ toPoller' = Tail(toPoller) /\ handler = "running"
      /\ UNCHANGED <<checkId, outMsgId, checksVersion, committedChecks, pendingPrepares, endpoint>>
      /\ handleFrame(Head(toPoller))
  BY DEF SessionReceives, PInv, AgentTypeOK
<1>2. /\ 1 \in DOMAIN toPoller /\ Head(toPoller) = toPoller[1] /\ toPoller[1] \in Frame
      /\ Tail(toPoller) \in Seq(Frame)
      /\ \A i \in DOMAIN Tail(toPoller) :
           i \in Nat /\ 1 < i + 1 /\ i + 1 \in DOMAIN toPoller /\ Tail(toPoller)[i] = toPoller[i + 1]
  BY <1>1, TailFacts
<1>3. \A i \in DOMAIN toPoller : toPoller[i] \in Frame
  BY <1>1
<1>4. \A i \in DOMAIN toPoller' :
        /\ i \in Nat /\ i + 1 \in DOMAIN toPoller /\ toPoller'[i] = toPoller[i + 1]
        /\ toPoller'[i] \in Frame /\ Precedes(f, toPoller'[i])
  BY <1>1, <1>2, <1>3 DEF PInv, Written
<1>5. AgentTypeOK'
  BY <1>1, <1>2 DEF PInv, AgentTypeOK
<1>6. Written'
  <2>1. \A i \in DOMAIN toPoller' : toPoller'[i].id <= outMsgId' /\ toPoller'[i].version <= checksVersion'
    BY <1>1, <1>4 DEF PInv, Written
  <2>2. ASSUME NEW i \in DOMAIN toPoller', NEW j \in DOMAIN toPoller', i < j
        PROVE  Precedes(toPoller'[i], toPoller'[j])
    <3>1. i + 1 < j + 1
      BY <1>4, <2>2
    <3> QED
      BY <1>4, <3>1 DEF PInv, Written
  <2> QED
    BY <2>1, <2>2 DEF Written
<1> QED
  BY <1>1, <1>2, <1>4, <1>5, <1>6

\* Responses that confirm no commit leave the confirmations as they are.
LEMMA StillConfirming ==
  ASSUME PInv, UNCHANGED <<outMsgId, committedChecks, pendingPrepares, reconciled>>,
         \A i \in DOMAIN toPoller' : \E j \in DOMAIN toPoller : toPoller'[i] = toPoller[j],
         NEW rs \in Seq(Response), sendCh' = sendCh \o rs, \A i \in DOMAIN rs : rs[i].status # "committed"
  PROVE  Confirmed'
<1>1. sendCh \in Seq(Response)
  BY DEF PInv, IInv, TypeOK
<1>2. /\ \A i \in DOMAIN sendCh : i \in DOMAIN sendCh' /\ sendCh'[i] = sendCh[i] /\ i <= Len(sendCh)
      /\ \A i \in DOMAIN sendCh' :
           i \in DOMAIN sendCh \/ (i - Len(sendCh) \in DOMAIN rs /\ sendCh'[i] = rs[i - Len(sendCh)])
  <2> DEFINE q == sendCh \o rs
  <2>1. /\ Len(sendCh) \in Nat /\ DOMAIN sendCh = 1 .. Len(sendCh)
        /\ \A i \in DOMAIN sendCh : i \in DOMAIN q /\ q[i] = sendCh[i]
        /\ \A i \in DOMAIN rs : q[Len(sendCh) + i] = rs[i]
        /\ \A i \in DOMAIN q : i \in Nat /\ (i \in DOMAIN sendCh \/ (i > Len(sendCh) /\ i - Len(sendCh) \in DOMAIN rs))
    BY <1>1, ConcatFacts
  <2>2. \A i \in Nat : i - Len(sendCh) \in DOMAIN rs => q[i] = rs[i - Len(sendCh)]
    <3> SUFFICES ASSUME NEW i \in Nat, i - Len(sendCh) \in DOMAIN rs PROVE q[i] = rs[i - Len(sendCh)]
      OBVIOUS
    <3>1. Len(sendCh) + (i - Len(sendCh)) = i
      BY <2>1
    <3> HIDE DEF q
    <3> QED
      BY <2>1, <3>1
  <2> HIDE DEF q
  <2>3. sendCh' = q
    BY DEF q
  <2>4. \A i \in DOMAIN sendCh : i <= Len(sendCh)
    BY <1>1
  <2>5. \A i \in DOMAIN q : i \in DOMAIN sendCh \/ (i - Len(sendCh) \in DOMAIN rs /\ q[i] = rs[i - Len(sendCh)])
    BY <2>1, <2>2
  <2>6. \A i \in DOMAIN sendCh : i \in DOMAIN q /\ q[i] = sendCh[i]
    BY <2>1
  <2> QED
    BY <2>3, <2>4, <2>5, <2>6
<1>3. Confirming' = Confirming /\ \A i \in Confirming : sendCh'[i] = sendCh[i]
  BY <1>2 DEF Confirming
<1>4. Newest' = Newest
  BY DEF Newest
<1>5. ASSUME NEW i \in Confirming
      PROVE  /\ sendCh[i].id <= outMsgId
             /\ \A j \in DOMAIN toPoller' : sendCh[i].id < toPoller'[j].id
             /\ \A j \in Confirming : i < j => sendCh[i].id < sendCh[j].id
             /\ \/ \E j \in Confirming : i < j
                \/ Committing(sendCh[i].id, pendingPrepares) /\ pendingPrepares[sendCh[i].id].checkIds = Newest
  BY DEF PInv, Confirmed
<1>6. Confirming = {} => committedChecks = Newest
  BY DEF PInv, Confirmed
<1>7. ASSUME NEW i \in Confirming'
      PROVE  /\ sendCh'[i].id <= outMsgId'
             /\ \A j \in DOMAIN toPoller' : sendCh'[i].id < toPoller'[j].id
             /\ \A j \in Confirming' : i < j => sendCh'[i].id < sendCh'[j].id
             /\ \/ \E j \in Confirming' : i < j
                \/ Committing(sendCh'[i].id, pendingPrepares') /\ pendingPrepares'[sendCh'[i].id].checkIds = Newest'
  BY <1>3, <1>4, <1>5
<1> QED
  BY <1>3, <1>4, <1>6, <1>7 DEF Confirmed

\* A frame that hands nothing over and keeps or drops the active preparation.
LEMMA KeepsInv ==
  ASSUME PInv, SessionReceives, UNCHANGED <<reconciled, handler>>,
         NEW rs \in Seq(Response), sendCh' = sendCh \o rs, \A i \in DOMAIN rs : rs[i].status # "committed",
         activePrep' # NoPrep => /\ activePrep # NoPrep /\ activePrep'.version = activePrep.version
                                 /\ Declared(activePrep') = Declared(activePrep),
         \A i \in DOMAIN toPoller' : Finds(toPoller'[i], activePrep', prepareToEndTimer')
  PROVE  AgentInv' /\ HandlerSurvives' /\ CommitsInOrder'
<1>1. /\ UNCHANGED <<outMsgId, checksVersion, committedChecks, pendingPrepares>>
      /\ \A i \in DOMAIN toPoller' : i + 1 \in DOMAIN toPoller /\ toPoller'[i] = toPoller[i + 1]
      /\ AgentTypeOK' /\ Written'
  BY ReceiveFacts
<1>2. Read'
  BY <1>1 DEF PInv, Read
<1>3. Older'
  BY <1>1 DEF PInv, Older
<1>4. ASSUME NEW m \in DOMAIN pendingPrepares PROVE Knows(m)'
  BY <1>1 DEF PInv, Pending, Knows
<1>5. Pending'
  BY <1>1, <1>4 DEF PInv, Pending
<1>6. Confirmed'
  BY <1>1, StillConfirming
<1> QED
  BY <1>1, <1>2, <1>3, <1>5, <1>6 DEF PInv, AgentInv, HandlerSurvives, CommitsInOrder

\* poller.prepare: an older preparation is superseded, and nothing that is still to be
\* read belongs to it.
LEMMA PrepareReads ==
  ASSUME PInv, SessionReceives, NEW f, f = toPoller[1], f.method = "poller.prepare"
  PROVE  AgentInv' /\ HandlerSurvives' /\ CommitsInOrder'
<1>1. /\ f \in Frame /\ handleFrame(f) /\ 1 \in DOMAIN toPoller
      /\ UNCHANGED <<outMsgId, checksVersion, committedChecks, pendingPrepares>>
      /\ \A i \in DOMAIN toPoller' :
           /\ i + 1 \in DOMAIN toPoller /\ toPoller'[i] = toPoller[i + 1]
           /\ toPoller'[i] \in Frame /\ Precedes(f, toPoller'[i])
      /\ AgentTypeOK' /\ Written'
  BY ReceiveFacts
<1>2. handlePollerPrepare(f.id, f.version, f.manifest, Valid(f.manifest))
  BY <1>1 DEF handleFrame
<1>3. f.id \in Int /\ f.version \in Nat /\ f.manifest \in Manifest
  BY <1>1, FrameFacts
<1>4. Finds(f, activePrep, prepareToEndTimer) /\ \A i \in DOMAIN toPoller' : Finds(toPoller'[i], activePrep, prepareToEndTimer)
  BY <1>1 DEF PInv, Read
<1>5. activePrep # NoPrep => activePrep.version \in Int
  BY DEF PInv, IInv, TypeOK, Preparation
<1>6. Superseded(f.version) \in Seq(Response) /\ \A i \in DOMAIN Superseded(f.version) : Superseded(f.version)[i].status = "ignored"
  <2>1. Superseded(f.version) \in Seq(Response)
    <3>1. IInv
      BY DEF PInv
    <3>2. f.version \in Int
      BY <1>3
    <3> QED
      BY <3>1, <3>2, SupersededType
  <2> QED
    BY <2>1 DEF Superseded, Result
<1>7. CASE PrepareIgnored(f.id, f.version)
  <2> DEFINE rs == <<Result(f.id, f.version, "ignored")>>
  <2>1. rs \in Seq(Response) /\ \A i \in DOMAIN rs : rs[i].status # "committed"
    BY <1>3 DEF Result, Response, Status
  <2>2. sendCh' = sendCh \o rs /\ UNCHANGED <<activePrep, prepareToEndTimer, reconciled, handler>>
    BY <1>7 DEF PrepareIgnored, Respond, prepDetails
  <2> HIDE DEF rs
  <2> QED
    BY <1>4, <2>1, <2>2, KeepsInv
<1>8. CASE PrepareRefused(f.id, f.version, f.manifest, Valid(f.manifest))
  <2> DEFINE rs == Append(Superseded(f.version), Result(f.id, f.version, "failed"))
  <2>1. rs \in Seq(Response) /\ \A i \in DOMAIN rs : rs[i].status # "committed"
    <3>1. Result(f.id, f.version, "failed") \in Response /\ Result(f.id, f.version, "failed").status = "failed"
      BY <1>3 DEF Result, Response, Status
    <3> QED
      BY <1>6, <3>1
  <2>2. sendCh' = sendCh \o rs /\ UNCHANGED <<activePrep, reconciled, handler>>
    BY <1>8 DEF PrepareRefused, Respond
  <2> HIDE DEF rs
  <2>3. ASSUME NEW i \in DOMAIN toPoller' PROVE Finds(toPoller'[i], activePrep', prepareToEndTimer')
    <3>1. toPoller'[i].version \in Nat /\ (toPoller'[i].method # "poller.commit" => f.version <= toPoller'[i].version)
      BY <1>1, FrameFacts DEF Precedes
    <3> QED
      BY <1>3, <1>4, <1>5, <2>2, <3>1 DEF Finds
  <2> QED
    BY <2>1, <2>2, <2>3, KeepsInv
<1>9. CASE PrepareAccepted(f.id, f.version, f.manifest, Valid(f.manifest))
  <2>1. /\ sendCh' = sendCh \o Superseded(f.version) /\ UNCHANGED <<reconciled, handler>> /\ prepareToEndTimer' = "running"
        /\ ManifestSupported(f.manifest) /\ activePrep' = NewChecksPreparation(f.version, f.manifest)
    BY <1>9 DEF PrepareAccepted, Respond
  <2>2. activePrep'.version = f.version /\ Declared(activePrep') = Mentions(f)
    BY <1>3, <2>1, NewIsPreparation, NewDeclares DEF Mentions
  <2>3. ASSUME NEW i \in DOMAIN toPoller' PROVE Finds(toPoller'[i], activePrep', prepareToEndTimer')
    BY <1>1, <2>1, <2>2, <2>3 DEF Finds, Precedes
  <2>4. Read'
    BY <1>1, <2>2, <2>3 DEF PInv, Read, Written
  <2>5. Older'
    BY <1>1, <2>1, <2>2 DEF PInv, Older
  <2>6. ASSUME NEW m \in DOMAIN pendingPrepares PROVE Knows(m)'
    BY <1>1, <2>2 DEF PInv, Pending, Knows
  <2>7. Pending'
    BY <1>1, <2>6 DEF PInv, Pending
  <2>8. Confirmed'
    BY <1>1, <1>6, <2>1, StillConfirming
  <2> QED
    BY <1>1, <2>1, <2>4, <2>5, <2>7, <2>8 DEF PInv, AgentInv, HandlerSurvives, CommitsInOrder
<1> QED
  BY <1>2, <1>7, <1>8, <1>9 DEF handlePollerPrepare

\* poller.prepare.block: the timer that it restarts is there.
LEMMA BlockReads ==
  ASSUME PInv, SessionReceives, NEW f, f = toPoller[1], f.method = "poller.prepare.block"
  PROVE  AgentInv' /\ HandlerSurvives' /\ CommitsInOrder'
<1>1. /\ f \in Frame /\ handleFrame(f) /\ 1 \in DOMAIN toPoller /\ handler = "running"
      /\ \A i \in DOMAIN toPoller' : i + 1 \in DOMAIN toPoller /\ toPoller'[i] = toPoller[i + 1]
  BY ReceiveFacts
<1>2. handlePollerPrepareBlock(f.version, f.block) /\ f.block \in Block
  BY <1>1, FrameFacts DEF handleFrame
<1>3. Finds(f, activePrep, prepareToEndTimer) /\ \A i \in DOMAIN toPoller' : Finds(toPoller'[i], activePrep, prepareToEndTimer)
  BY <1>1 DEF PInv, Read
<1>4. sendCh' = sendCh => sendCh' = sendCh \o <<>>
  BY DEF PInv, IInv, TypeOK
<1>5. <<>> \in Seq(Response) /\ \A i \in DOMAIN <<>> : <<>>[i].status # "committed"
  OBVIOUS
<1>6. CASE BlockIgnored(f.version)
  <2>1. UNCHANGED <<activePrep, prepareToEndTimer, reconciled, handler, sendCh>>
    BY <1>6 DEF BlockIgnored, prepDetails
  <2> QED
    BY <1>3, <1>4, <1>5, <2>1, KeepsInv
<1>7. CASE BlockAdded(f.version, f.block)
  <2>1. activePrep \in Preparation /\ activePrep # NoPrep /\ activePrep.version = f.version
    BY <1>7 DEF BlockAdded, VersionApplies, PInv, IInv, TypeOK
  <2>2. prepareToEndTimer \in {"running", "fired"} /\ Mentions(f) \subseteq Declared(activePrep)
    BY <1>3, <2>1 DEF Finds
  <2>3. /\ activePrep' = AddDefinitions(activePrep, f.block) /\ prepareToEndTimer' = "running"
        /\ UNCHANGED <<reconciled, handler, sendCh>>
    BY <1>7, <2>2 DEF BlockAdded
  <2>4. activePrep'.version = activePrep.version /\ Declared(activePrep') = Declared(activePrep)
    BY <1>2, <2>1, <2>2, <2>3, AddDefinitionsKeeps, AddDeclares DEF Mentions
  <2>5. \A i \in DOMAIN toPoller' : Finds(toPoller'[i], activePrep', prepareToEndTimer')
    BY <1>3, <2>1, <2>3, <2>4 DEF Finds
  <2> QED
    BY <1>4, <1>5, <2>1, <2>3, <2>4, <2>5, KeepsInv
<1> QED
  BY <1>2, <1>6, <1>7 DEF handlePollerPrepareBlock

\* poller.prepare.end: the timer that it stops is there, and no frame of the preparation
\* needs it after that.
LEMMA EndReads ==
  ASSUME PInv, SessionReceives, NEW f, f = toPoller[1], f.method = "poller.prepare.end"
  PROVE  AgentInv' /\ HandlerSurvives' /\ CommitsInOrder'
<1>1. /\ f \in Frame /\ handleFrame(f) /\ 1 \in DOMAIN toPoller /\ handler = "running"
      /\ \A i \in DOMAIN toPoller' :
           /\ i + 1 \in DOMAIN toPoller /\ toPoller'[i] = toPoller[i + 1]
           /\ toPoller'[i] \in Frame /\ Precedes(f, toPoller'[i])
  BY ReceiveFacts
<1>2. handlePollerPrepareEnd(f.id, f.version, "prepare")
  BY <1>1, FrameFacts DEF handleFrame
<1>3. Finds(f, activePrep, prepareToEndTimer) /\ \A i \in DOMAIN toPoller' : Finds(toPoller'[i], activePrep, prepareToEndTimer)
  BY <1>1 DEF PInv, Read
<1>4. f.id \in Int /\ f.version \in Nat
  BY <1>1, FrameFacts
<1>5. activePrep # NoPrep => srcPrepMsg \in Int
  BY DEF PInv, IInv, TypeOK, PrepLinked
<1>6. ASSUME NEW id \in Int, NEW st \in {"failed", "prepared"}
      PROVE  /\ <<Result(id, f.version, st)>> \in Seq(Response)
             /\ \A i \in DOMAIN <<Result(id, f.version, st)>> : <<Result(id, f.version, st)>>[i].status # "committed"
  <2>1. Result(id, f.version, st) \in Response /\ Result(id, f.version, st).status # "committed"
    BY <1>4, <1>6 DEF Result, Response, Status
  <2> QED
    BY <2>1
<1>7. CASE EndNothingActive(f.id, f.version, "prepare")
  <2>1. /\ sendCh' = sendCh \o <<Result(f.id, f.version, "failed")>>
        /\ UNCHANGED <<activePrep, prepareToEndTimer, reconciled, handler>>
    BY <1>7 DEF EndNothingActive, Respond, prepDetails
  <2> QED
    BY <1>3, <1>4, <1>6, <2>1, KeepsInv
<1>8. CASE EndInvalid(f.version, "prepare")
  <2>1. /\ sendCh' = sendCh \o <<Result(srcPrepMsg, f.version, "failed")>> /\ activePrep # NoPrep
        /\ UNCHANGED <<activePrep, prepareToEndTimer, reconciled, handler>>
    BY <1>8 DEF EndInvalid, Respond, prepDetails
  <2> QED
    BY <1>3, <1>5, <1>6, <2>1, KeepsInv
<1>9. CASE EndPrepared(f.version, "prepare")
  <2>1. activePrep # NoPrep /\ activePrep.version = f.version
    BY <1>9 DEF EndPrepared, Validate, VersionApplies
  <2>2. prepareToEndTimer \in {"running", "fired"}
    BY <1>3, <2>1 DEF Finds
  <2>3. /\ sendCh' = sendCh \o <<Result(srcPrepMsg, f.version, "prepared")>>
        /\ UNCHANGED <<activePrep, reconciled, handler>>
    BY <1>9, <2>2 DEF EndPrepared, Respond
  <2>4. ASSUME NEW i \in DOMAIN toPoller' PROVE Finds(toPoller'[i], activePrep', prepareToEndTimer')
    <3>1. toPoller'[i].version \in Nat /\ (toPoller'[i].method # "poller.commit" => f.version < toPoller'[i].version)
      BY <1>1, FrameFacts DEF Precedes
    <3> QED
      BY <1>3, <1>4, <2>1, <2>3, <3>1 DEF Finds
  <2> QED
    BY <1>5, <1>6, <2>1, <2>3, <2>4, KeepsInv
<1> QED
  BY <1>2, <1>7, <1>8, <1>9 DEF handlePollerPrepareEnd, EndAbort, EndWithoutSource, EndUnexpected

\* poller.commit: what is handed over is newer than everything before it, and the
\* confirmation finds the entry that knows its checks.
LEMMA CommitReads ==
  ASSUME PInv, SessionReceives, NEW f, f = toPoller[1], f.method = "poller.commit"
  PROVE  AgentInv' /\ HandlerSurvives' /\ CommitsInOrder'
<1>1. /\ f \in Frame /\ handleFrame(f) /\ 1 \in DOMAIN toPoller /\ handler = "running"
      /\ UNCHANGED <<outMsgId, checksVersion, committedChecks, pendingPrepares>>
      /\ \A i \in DOMAIN toPoller' :
           /\ i + 1 \in DOMAIN toPoller /\ toPoller'[i] = toPoller[i + 1]
           /\ toPoller'[i] \in Frame /\ Precedes(f, toPoller'[i])
      /\ AgentTypeOK' /\ Written'
  BY ReceiveFacts
<1>2. handlePollerCommit(f.id, f.version)
  BY <1>1 DEF handleFrame
<1>3. f.id \in Nat /\ f.version \in Nat
  BY <1>1, FrameFacts
<1>4. ASSUME NEW st \in {"ignored", "committed"}
      PROVE  Result(f.id, f.version, st) \in Response /\ Result(f.id, f.version, st).status = st
             /\ Result(f.id, f.version, st).id = f.id
  BY <1>3, <1>4 DEF Result, Response, Status
<1>5. CASE CommitIgnored(f.id, f.version)
  <2>1. /\ sendCh' = sendCh \o <<Result(f.id, f.version, "ignored")>>
        /\ UNCHANGED <<activePrep, prepareToEndTimer, reconciled, handler>>
    BY <1>5 DEF CommitIgnored, Respond, prepDetails
  <2>2. \A i \in DOMAIN toPoller' : Finds(toPoller'[i], activePrep, prepareToEndTimer)
    BY <1>1 DEF PInv, Read
  <2>3. /\ <<Result(f.id, f.version, "ignored")>> \in Seq(Response)
        /\ \A i \in DOMAIN <<Result(f.id, f.version, "ignored")>> :
             <<Result(f.id, f.version, "ignored")>>[i].status # "committed"
    BY <1>4
  <2> QED
    BY <2>1, <2>2, <2>3, KeepsInv
<1>6. CASE CommitApplied(f.id, f.version)
  <2> DEFINE r == Result(f.id, f.version, "committed")
  <2>1. /\ activePrep # NoPrep /\ activePrep.version = f.version /\ sendCh' = sendCh \o <<r>>
        /\ reconciled' = Append(reconciled, activePrep) /\ activePrep' = NoPrep /\ UNCHANGED handler
    BY <1>6 DEF CommitApplied, VersionApplies, Respond, clear
  <2>2. r \in Response /\ r.status = "committed" /\ r.id = f.id
    BY <1>4
  <2> HIDE DEF r
  <2>3. activePrep \in Preparation /\ reconciled \in Seq(Preparation) /\ sendCh \in Seq(Response)
    BY <2>1 DEF PInv, IInv, TypeOK
  <2>4. /\ Len(reconciled') = Len(reconciled) + 1 /\ reconciled' # <<>> /\ Len(reconciled) \in Nat
        /\ reconciled'[Len(reconciled) + 1] = activePrep
        /\ \A k \in DOMAIN reconciled' : \/ k \in DOMAIN reconciled /\ reconciled'[k] = reconciled[k] /\ k <= Len(reconciled)
                                         \/ k = Len(reconciled) + 1 /\ reconciled'[k] = activePrep
        /\ \A k \in DOMAIN reconciled : k <= Len(reconciled) /\ k \in Nat
    BY <2>1, <2>3
  <2>5. Read'
    BY <2>1 DEF Read, Finds
  <2>6. \A k \in DOMAIN reconciled : reconciled[k].version < activePrep.version
    BY <2>1 DEF PInv, Older
  <2>7. Older'
    <3> SUFFICES ASSUME NEW k \in DOMAIN reconciled'
                 PROVE  /\ reconciled'[k].version <= checksVersion
                        /\ \A i \in DOMAIN toPoller' :
                             toPoller'[i].method = "poller.prepare" => reconciled'[k].version < toPoller'[i].version
      BY <1>1, <2>1 DEF Older
    <3>1. CASE k \in DOMAIN reconciled /\ reconciled'[k] = reconciled[k]
      BY <1>1, <3>1 DEF PInv, Older
    <3>2. CASE reconciled'[k] = activePrep
      BY <1>1, <2>1, <3>2 DEF PInv, Read, Finds
    <3> QED
      BY <2>4, <3>1, <3>2
  <2>8. CommitsInOrder'
    <3> SUFFICES ASSUME NEW i \in DOMAIN reconciled', NEW j \in DOMAIN reconciled', i < j
                 PROVE  reconciled'[i].version < reconciled'[j].version
      BY DEF CommitsInOrder
    <3>1. i \in DOMAIN reconciled /\ reconciled'[i] = reconciled[i]
      BY <2>4
    <3>2. CASE j \in DOMAIN reconciled /\ reconciled'[j] = reconciled[j]
      BY <3>1, <3>2 DEF PInv, CommitsInOrder
    <3>3. CASE reconciled'[j] = activePrep
      BY <2>6, <3>1, <3>3
    <3> QED
      BY <2>4, <3>2, <3>3
  <2>9. Pending'
    <3>1. ASSUME NEW m \in DOMAIN pendingPrepares PROVE Knows(m)'
      BY <1>1, <2>1 DEF PInv, Pending, Knows
    <3> QED
      BY <1>1, <3>1 DEF PInv, Pending
  <2>10. Confirmed'
    <3>1. Newest' = Declared(activePrep)
      BY <2>4 DEF Newest
    <3>2. Committing(f.id, pendingPrepares') /\ pendingPrepares'[f.id].checkIds = Declared(activePrep)
      <4>1. Committing(f.id, pendingPrepares) /\ pendingPrepares[f.id].version = f.version
        BY <1>1 DEF PInv, Pending
      <4> QED
        BY <1>1, <2>1, <4>1 DEF PInv, Pending, Knows, Committing
    <3> DEFINE l == Len(sendCh) + 1
    <3>3. /\ l \in DOMAIN sendCh' /\ sendCh'[l] = r /\ l \in Nat
          /\ \A i \in DOMAIN sendCh : i < l /\ i \in Nat
          /\ \A i \in DOMAIN sendCh' : i = l \/ (i \in DOMAIN sendCh /\ sendCh'[i] = sendCh[i])
      BY <2>1, <2>2, <2>3
    <3> HIDE DEF l
    <3>4. l \in Confirming' /\ \A i \in Confirming' : i = l \/ (i \in Confirming /\ sendCh'[i] = sendCh[i] /\ i < l)
      BY <2>2, <3>3 DEF Confirming
    <3>5. f.id <= outMsgId /\ \A j \in DOMAIN toPoller' : f.id < toPoller'[j].id
      BY <1>1 DEF PInv, Written, Precedes
    <3>6. ASSUME NEW i \in Confirming'
          PROVE  /\ sendCh'[i].id <= outMsgId
                 /\ \A j \in DOMAIN toPoller' : sendCh'[i].id < toPoller'[j].id
                 /\ \A j \in Confirming' : i < j => sendCh'[i].id < sendCh'[j].id
                 /\ \/ \E j \in Confirming' : i < j
                    \/ Committing(sendCh'[i].id, pendingPrepares') /\ pendingPrepares'[sendCh'[i].id].checkIds = Newest'
      <4>1. CASE i = l
        <5>1. sendCh'[i].id = f.id
          BY <2>2, <3>3, <4>1
        <5>2. \A j \in Confirming' : ~(i < j)
          <6> SUFFICES ASSUME NEW j \in Confirming', i < j PROVE FALSE
            OBVIOUS
          <6>1. i \in Nat /\ (j = i \/ (j < i /\ j \in Nat))
            BY <3>3, <3>4, <4>1 DEF Confirming
          <6> QED
            BY <6>1
        <5> QED
          BY <3>1, <3>2, <3>5, <5>1, <5>2
      <4>2. CASE i \in Confirming /\ sendCh'[i] = sendCh[i] /\ i < l
        <5>1. /\ sendCh[i].id <= outMsgId /\ sendCh[i].id < f.id
              /\ \A j \in DOMAIN toPoller : sendCh[i].id < toPoller[j].id
              /\ \A j \in Confirming : i < j => sendCh[i].id < sendCh[j].id
          BY <1>1, <4>2 DEF PInv, Confirmed
        <5>2. \A j \in DOMAIN toPoller' : sendCh'[i].id < toPoller'[j].id
          BY <1>1, <4>2, <5>1
        <5>3. \A j \in Confirming' : i < j => sendCh'[i].id < sendCh'[j].id
          BY <2>2, <3>3, <3>4, <4>2, <5>1
        <5> QED
          BY <3>4, <4>2, <5>1, <5>2, <5>3
      <4> QED
        BY <3>4, <4>1, <4>2
    <3> QED
      BY <1>1, <3>4, <3>6 DEF Confirmed
  <2> QED
    BY <1>1, <2>1, <2>5, <2>7, <2>8, <2>9, <2>10 DEF PInv, AgentInv, HandlerSurvives
<1> QED
  BY <1>2, <1>5, <1>6 DEF handlePollerCommit

\* The timer fires or expires, or the session ends.
LEMMA AloneInv ==
  ASSUME PInv, SessionAlone
  PROVE  AgentInv' /\ HandlerSurvives' /\ CommitsInOrder'
<1>1. UNCHANGED <<checkId, outMsgId, checksVersion, committedChecks, pendingPrepares, endpoint, toPoller>>
  BY DEF SessionAlone, agentVars
<1>2. AgentTypeOK' /\ Written'
  BY <1>1 DEF PInv, AgentTypeOK, Written
<1>3. CASE HandlerExits
  <2>1. UNCHANGED <<activePrep, prepareToEndTimer, reconciled, sendCh>> /\ handler' = "done"
    BY <1>3 DEF HandlerExits, prepDetails
  <2>2. Read' /\ Older' /\ Pending' /\ Confirmed'
    BY <1>1, <2>1 DEF PInv, Read, Older, Pending, Knows, Confirmed, Confirming, Newest
  <2> QED
    BY <1>2, <2>1, <2>2 DEF PInv, AgentInv, HandlerSurvives, CommitsInOrder
<1>4. CASE TimerFires
  <2>1. UNCHANGED <<activePrep, reconciled, sendCh, handler>> /\ prepareToEndTimer' = "fired"
    BY <1>4 DEF TimerFires
  <2>2. Read'
    BY <1>1, <2>1 DEF PInv, Read, Finds
  <2>3. Older' /\ Pending' /\ Confirmed'
    BY <1>1, <2>1 DEF PInv, Older, Pending, Knows, Confirmed, Confirming, Newest
  <2> QED
    BY <1>2, <2>1, <2>2, <2>3 DEF PInv, AgentInv, HandlerSurvives, CommitsInOrder
<1>5. CASE PrepareToEndExpired
  <2> DEFINE rs == <<Result(srcPrepMsg, activePrep.version, "failed")>>
  <2>1. srcPrepMsg \in Int /\ srcPrepMsg # NoMsg /\ activePrep.version \in Int
    BY <1>5 DEF PrepareToEndExpired, PInv, IInv, TypeOK, PrepLinked, Preparation
  <2>2. sendCh' = sendCh \o rs /\ activePrep' = NoPrep /\ UNCHANGED <<reconciled, handler>>
    BY <1>5, <2>1 DEF PrepareToEndExpired, Respond, clear
  <2>3. rs \in Seq(Response) /\ \A i \in DOMAIN rs : rs[i].status # "committed"
    BY <2>1 DEF Result, Response, Status
  <2> HIDE DEF rs
  <2>4. Read' /\ Older'
    BY <1>1, <2>2 DEF PInv, Read, Finds, Older
  <2>5. Pending'
    BY <1>1, <2>2 DEF PInv, Pending, Knows
  <2>6. Confirmed'
    BY <1>1, <2>2, <2>3, StillConfirming
  <2> QED
    BY <1>2, <2>2, <2>4, <2>5, <2>6 DEF PInv, AgentInv, HandlerSurvives, CommitsInOrder
<1> QED
  BY <1>3, <1>4, <1>5 DEF SessionAlone

-----------------------------------------------------------------------------
(***************************************************************************)
(* The theorems.                                                           *)
(***************************************************************************)

\* Nothing has been written or read yet.
LEMMA InitPInv == ProtocolInit => PInv
<1> SUFFICES ASSUME ProtocolInit PROVE PInv
  OBVIOUS
<1>1. IInv
  BY InitIInv DEF ProtocolInit
<1>2. toPoller = <<>> /\ sendCh = <<>> /\ reconciled = <<>> /\ pendingPrepares = <<>> /\ activePrep = NoPrep
  BY DEF ProtocolInit, Init, AgentInit
<1>3. AgentTypeOK
  BY <1>2 DEF ProtocolInit, AgentInit, AgentTypeOK
<1>4. Written /\ Read /\ Older /\ Pending
  BY <1>2 DEF Written, Read, Older, Pending
<1>5. Confirmed
  BY <1>2 DEF ProtocolInit, AgentInit, Confirmed, Confirming, Newest
<1>6. HandlerSurvives /\ CommitsInOrder
  BY <1>2 DEF ProtocolInit, Init, HandlerSurvives, CommitsInOrder
<1> QED
  BY <1>1, <1>3, <1>4, <1>5, <1>6 DEF PInv

\* Every step of the two ends and of the scheduler keeps the invariant.
LEMMA NextPInv ==
  ASSUME PInv, [ProtocolNext]_protocolVars
  PROVE  PInv'
<1>1. ASSUME UNCHANGED <<handler, reconciled>> PROVE HandlerSurvives' /\ CommitsInOrder'
  BY <1>1 DEF PInv, HandlerSurvives, CommitsInOrder
<1>2. CASE EndpointLoads
  <2>1. UNCHANGED vars
    BY <1>2 DEF EndpointLoads, pollerVars
  <2>2. IInv' /\ UNCHANGED <<handler, reconciled>>
    BY <2>1, NextIInv DEF PInv, vars
  <2> QED
    BY <1>1, <1>2, <2>2, LoadsInv DEF PInv, AgentInv
<1>3. CASE EndpointHandlesResponse
  <2>1. Transmit
    BY <1>3 DEF EndpointHandlesResponse
  <2>2. IInv' /\ UNCHANGED <<handler, reconciled>>
    BY <2>1, NextIInv DEF PInv, Next, Transmit
  <2> QED
    BY <1>1, <1>3, <2>2, HandlesInv DEF PInv, AgentInv
<1>4. CASE SessionReceives
  <2> DEFINE f == toPoller[1]
  <2>1. f \in Frame
    BY <1>4, ReceiveFacts
  <2>2. f.method \in {"poller.prepare", "poller.prepare.block", "poller.prepare.end", "poller.commit"}
    BY <2>1, FrameFacts
  <2>3. AgentInv' /\ HandlerSurvives' /\ CommitsInOrder'
    BY <1>4, <2>2, PrepareReads, BlockReads, EndReads, CommitReads
  <2> QED
    BY <1>4, <2>3, ReceiveIInv DEF PInv, AgentInv
<1>5. CASE SessionAlone
  <2>1. IInv'
    BY <1>5, NextIInv DEF PInv, SessionAlone, Next
  <2> QED
    BY <1>5, <2>1, AloneInv DEF PInv, AgentInv
<1>6. CASE SchedulerReconciles \/ UNCHANGED protocolVars
  <2>1. UNCHANGED <<vars, agentVars>>
    BY <1>6 DEF SchedulerReconciles, protocolVars
  <2>2. UNCHANGED <<activePrep, prepareToEndTimer, reconciled, sendCh, handler, checkId, outMsgId, checksVersion,
                    committedChecks, pendingPrepares, endpoint, toPoller>>
    BY <2>1 DEF vars, prepDetails, agentVars
  <2>3. IInv'
    BY <2>1, NextIInv DEF PInv
  <2>4. AgentTypeOK' /\ Written' /\ Read' /\ Older'
    BY <2>2 DEF PInv, AgentTypeOK, Written, Read, Older
  <2>5. Pending' /\ Confirmed'
    BY <2>2 DEF PInv, Pending, Knows, Confirmed, Confirming, Newest
  <2> QED
    BY <1>1, <2>2, <2>3, <2>4, <2>5 DEF PInv
<1> QED
  BY <1>2, <1>3, <1>4, <1>5, <1>6 DEF ProtocolNext

\* The invariant of the protocol holds in every reachable state.
THEOREM ProtocolInvariant == ProtocolSpec => []PInv
  BY InitPInv, NextPInv, PTL DEF ProtocolSpec

\* runFrameHandlingAndTimeout neither panics nor blocks for good with the bundled
\* endpoint, however preparations, expiries and commits interleave.
THEOREM ProtocolHandlerSurvives == ProtocolSpec => []HandlerSurvives
  BY ProtocolInvariant, PTL DEF PInv

\* ReconcileChecks gets preparations of growing versions only.
THEOREM ProtocolCommitsInOrder == ProtocolSpec => []CommitsInOrder
  BY ProtocolInvariant, PTL DEF PInv

\* When nothing is in flight, the agent's committedChecks are the checks of the
\* preparation that the session handed over last.
THEOREM ProtocolAgreement == ProtocolSpec => []Agreement
<1>1. PInv => Agreement
  <2> SUFFICES ASSUME PInv, Quiet
               PROVE  committedChecks = IF reconciled = <<>> THEN NoSet ELSE Declared(reconciled[Len(reconciled)])
    BY DEF Agreement
  <2>1. Confirming = {}
    BY DEF Quiet, Confirming
  <2> QED
    BY <2>1 DEF PInv, Confirmed, Newest
<1> QED
  BY <1>1, ProtocolInvariant, PTL

\* What SessionProofs shows of prepDetails with an arbitrary server holds with this one.
THEOREM ProtocolSessionInvariant == ProtocolSpec => [](PrepLinked /\ VotedIsComplete /\ UnansweredIsTimed)
<1>1. PInv => PrepLinked /\ VotedIsComplete /\ UnansweredIsTimed
  BY DEF PInv, IInv
<1> QED
  BY <1>1, ProtocolInvariant, PTL

-----------------------------------------------------------------------------
(***************************************************************************)
(* The protocol implements TwoPhaseCommit.                                 *)
(***************************************************************************)

\* The version v was voted for, or is none that the session can prepare any more.
Settled(v, prep, timer, frames) ==
  /\ prep # NoPrep /\ prep.version = v => timer = "nil"
  /\ \A j \in DOMAIN frames : frames[j].method = "poller.prepare" => v < frames[j].version

\* The frame that the session owes an answer, and every poller.prepare on its way, has the
\* version that the agent's entry for it has.
Numbered ==
  /\ activePrep # NoPrep =>
       /\ srcPrepMsg <= outMsgId
       /\ srcPrepMsg \in DOMAIN pendingPrepares => pendingPrepares[srcPrepMsg].version = activePrep.version
  /\ \A i \in DOMAIN toPoller :
       toPoller[i].method = "poller.prepare" /\ toPoller[i].id \in DOMAIN pendingPrepares =>
         pendingPrepares[toPoller[i].id].version = toPoller[i].version

\* Commits, and the votes that will become commits, are about versions that are settled.
Voted ==
  /\ \A i \in DOMAIN toPoller : toPoller[i].method = "poller.commit" => Settled(toPoller[i].version, activePrep, prepareToEndTimer, toPoller)
  /\ \A i \in DOMAIN sendCh :
       sendCh[i].status = "prepared" =>
         /\ sendCh[i].id <= outMsgId
         /\ sendCh[i].id \in DOMAIN pendingPrepares => Settled(pendingPrepares[sendCh[i].id].version, activePrep, prepareToEndTimer, toPoller)

\* What was sent has types.
LEMMA SentTypes ==
  ASSUME PInv
  PROVE  /\ outMsgId \in Nat /\ checksVersion \in Nat
         /\ sendCh \in Seq(Response)
         /\ \A i \in DOMAIN sendCh : sendCh[i].id \in Int
         /\ \A i \in DOMAIN toPoller :
              /\ toPoller[i] \in Frame /\ toPoller[i].id \in Nat /\ toPoller[i].version \in Nat
              /\ toPoller[i].id <= outMsgId /\ toPoller[i].version <= checksVersion
         /\ \A m \in DOMAIN pendingPrepares :
              m \in Nat /\ m <= outMsgId /\ pendingPrepares[m].version \in Nat /\ pendingPrepares[m].version <= checksVersion
         /\ activePrep # NoPrep => srcPrepMsg \in Int /\ activePrep.version \in Int /\ activePrep.version <= checksVersion
<1>1. outMsgId \in Nat /\ checksVersion \in Nat /\ toPoller \in Seq(Frame) /\ sendCh \in Seq(Response)
  BY DEF PInv, AgentTypeOK, IInv, TypeOK
<1>2. \A i \in DOMAIN sendCh : sendCh[i] \in Response
  BY <1>1
<1>3. \A i \in DOMAIN sendCh : sendCh[i].id \in Int
  BY <1>2 DEF Response
<1>4. \A i \in DOMAIN toPoller :
        /\ toPoller[i] \in Frame /\ toPoller[i].id \in Nat /\ toPoller[i].version \in Nat
        /\ toPoller[i].id <= outMsgId /\ toPoller[i].version <= checksVersion
  BY <1>1, FrameFacts DEF PInv, Written
<1>5. \A m \in DOMAIN pendingPrepares :
        m \in Nat /\ m <= outMsgId /\ pendingPrepares[m].version \in Nat /\ pendingPrepares[m].version <= checksVersion
  BY DEF PInv, AgentTypeOK, PendingPrepare, Pending, Knows
<1>6. activePrep # NoPrep => srcPrepMsg \in Int /\ activePrep.version \in Int /\ activePrep.version <= checksVersion
  BY DEF PInv, IInv, TypeOK, PrepLinked, Preparation, Read
<1> QED
  BY <1>1, <1>3, <1>4, <1>5, <1>6

\* Responses are appended or taken, and none of the new ones is a vote.
NoNewVote ==
  \A i \in DOMAIN sendCh' : sendCh'[i].status = "prepared" => \E j \in DOMAIN sendCh : sendCh'[i] = sendCh[j]

\* Responses that are appended and are no votes.
LEMMA AppendsNoVote ==
  ASSUME PInv, NEW rs \in Seq(Response), sendCh' = sendCh \o rs, \A i \in DOMAIN rs : rs[i].status # "prepared"
  PROVE  NoNewVote
<1>1. sendCh \in Seq(Response)
  BY SentTypes
<1> DEFINE q == sendCh \o rs
<1>2. /\ Len(sendCh) \in Nat
      /\ \A i \in DOMAIN sendCh : q[i] = sendCh[i]
      /\ \A i \in DOMAIN rs : q[Len(sendCh) + i] = rs[i]
      /\ \A i \in DOMAIN q : i \in Nat /\ (i \in DOMAIN sendCh \/ (i > Len(sendCh) /\ i - Len(sendCh) \in DOMAIN rs))
  BY <1>1, ConcatFacts
<1> HIDE DEF q
<1> SUFFICES ASSUME NEW i \in DOMAIN q, q[i].status = "prepared"
             PROVE  \E j \in DOMAIN sendCh : q[i] = sendCh[j]
  BY DEF NoNewVote, q
<1>3. CASE i \in DOMAIN sendCh
  BY <1>2, <1>3
<1>4. CASE i > Len(sendCh) /\ i - Len(sendCh) \in DOMAIN rs
  <2>1. Len(sendCh) + (i - Len(sendCh)) = i
    BY <1>2
  <2>2. q[i] = rs[i - Len(sendCh)]
    BY <1>2, <1>4, <2>1
  <2> QED
    BY <1>4, <2>2
<1> QED
  BY <1>2, <1>3, <1>4

\* A step that gives no vote and unsettles no version keeps the votes.
LEMMA VotesCarryOver ==
  ASSUME Voted, UNCHANGED <<outMsgId, pendingPrepares>>, NoNewVote,
         \A i \in DOMAIN toPoller' : \E j \in DOMAIN toPoller : toPoller'[i] = toPoller[j],
         ASSUME NEW v, Settled(v, activePrep, prepareToEndTimer, toPoller)
         PROVE  Settled(v, activePrep', prepareToEndTimer', toPoller')
  PROVE  Voted'
<1>1. ASSUME NEW i \in DOMAIN toPoller', toPoller'[i].method = "poller.commit"
      PROVE  Settled(toPoller'[i].version, activePrep', prepareToEndTimer', toPoller')
  BY <1>1 DEF Voted
<1>2. ASSUME NEW i \in DOMAIN sendCh', sendCh'[i].status = "prepared"
      PROVE  /\ sendCh'[i].id <= outMsgId'
             /\ sendCh'[i].id \in DOMAIN pendingPrepares' =>
                  Settled(pendingPrepares'[sendCh'[i].id].version, activePrep', prepareToEndTimer', toPoller')
  <2>1. PICK j \in DOMAIN sendCh : sendCh'[i] = sendCh[j]
    BY <1>2 DEF NoNewVote
  <2>2. /\ sendCh[j].id <= outMsgId
        /\ sendCh[j].id \in DOMAIN pendingPrepares =>
             Settled(pendingPrepares[sendCh[j].id].version, activePrep, prepareToEndTimer, toPoller)
    BY <1>2, <2>1 DEF Voted
  <2> QED
    BY <2>1, <2>2
<1> QED
  BY <1>1, <1>2 DEF Voted

\* A step of the session that keeps or drops the active preparation, gives no vote and
\* revives no timer.
LEMMA KeepsVotes ==
  ASSUME PInv, Numbered, Voted, UNCHANGED <<outMsgId, pendingPrepares>>, NoNewVote,
         \A i \in DOMAIN toPoller' : \E j \in DOMAIN toPoller : toPoller'[i] = toPoller[j],
         activePrep' # NoPrep =>
           /\ activePrep # NoPrep /\ activePrep'.version = activePrep.version /\ srcPrepMsg' = srcPrepMsg
           /\ prepareToEndTimer = "nil" => prepareToEndTimer' = "nil"
  PROVE  Numbered' /\ Voted'
<1>1. ASSUME NEW v, Settled(v, activePrep, prepareToEndTimer, toPoller) PROVE Settled(v, activePrep', prepareToEndTimer', toPoller')
  BY <1>1 DEF Settled
<1>2. Numbered'
  BY DEF Numbered
<1> QED
  BY <1>1, <1>2, VotesCarryOver

\* A load: its entry is new, and its version newer than every settled one.
LEMMA LoadsVotes ==
  ASSUME PInv, Numbered, Voted, EndpointLoads
  PROVE  Numbered' /\ Voted'
<1>1. UNCHANGED <<activePrep, srcPrepMsg, prepareToEndTimer, sendCh>>
  BY DEF EndpointLoads, pollerVars, vars, prepDetails
<1>2. Wrote
  BY LoadsInv
<1>3. outMsgId' \in Nat
  BY LoadsInv DEF AgentInv, AgentTypeOK
<1>4. ASSUME NEW m \in Int, m <= outMsgId, m \in DOMAIN pendingPrepares'
      PROVE  m \in DOMAIN pendingPrepares /\ pendingPrepares'[m] = pendingPrepares[m]
  BY <1>2, <1>4, SentTypes DEF Wrote
<1>5. ASSUME NEW v \in Nat, v <= checksVersion, Settled(v, activePrep, prepareToEndTimer, toPoller) PROVE Settled(v, activePrep', prepareToEndTimer', toPoller')
  <2>1. ASSUME NEW j \in DOMAIN toPoller', toPoller'[j].method = "poller.prepare" PROVE v < toPoller'[j].version
    <3>1. CASE \E k \in DOMAIN toPoller : toPoller'[j] = toPoller[k]
      BY <1>5, <2>1, <3>1 DEF Settled
    <3>2. CASE toPoller'[j].version = checksVersion + 1
      BY <1>5, <3>2, SentTypes
    <3> QED
      BY <1>2, <3>1, <3>2 DEF Wrote
  <2> QED
    BY <1>1, <1>5, <2>1 DEF Settled
<1>6. Numbered'
  <2>1. ASSUME activePrep # NoPrep
        PROVE  /\ srcPrepMsg <= outMsgId'
               /\ srcPrepMsg \in DOMAIN pendingPrepares' => pendingPrepares'[srcPrepMsg].version = activePrep.version
    <3>1. srcPrepMsg \in Int /\ srcPrepMsg <= outMsgId /\ outMsgId \in Nat
      BY <2>1, SentTypes DEF Numbered
    <3>2. srcPrepMsg <= outMsgId'
      BY <1>2, <1>3, <3>1 DEF Wrote
    <3> QED
      BY <1>4, <2>1, <3>1, <3>2 DEF Numbered
  <2>2. ASSUME NEW i \in DOMAIN toPoller', toPoller'[i].method = "poller.prepare",
               toPoller'[i].id \in DOMAIN pendingPrepares'
        PROVE  pendingPrepares'[toPoller'[i].id].version = toPoller'[i].version
    <3>1. ASSUME NEW j \in DOMAIN toPoller, toPoller'[i] = toPoller[j]
          PROVE  pendingPrepares'[toPoller'[i].id].version = toPoller'[i].version
      <4>1. toPoller[j].id \in Int /\ toPoller[j].id <= outMsgId
        BY SentTypes
      <4> QED
        BY <1>4, <2>2, <3>1, <4>1 DEF Numbered
    <3> QED
      BY <1>2, <2>2, <3>1 DEF Wrote
  <2> QED
    BY <1>1, <2>1, <2>2 DEF Numbered
<1>7. ASSUME NEW i \in DOMAIN toPoller', toPoller'[i].method = "poller.commit" PROVE Settled(toPoller'[i].version, activePrep', prepareToEndTimer', toPoller')
  <2>1. PICK j \in DOMAIN toPoller : toPoller'[i] = toPoller[j]
    BY <1>2, <1>7 DEF Wrote
  <2>2. toPoller[j].version \in Nat /\ toPoller[j].version <= checksVersion /\ Settled(toPoller[j].version, activePrep, prepareToEndTimer, toPoller)
    BY <1>7, <2>1, SentTypes DEF Voted
  <2>3. PICK v \in Nat : v = toPoller[j].version
    BY <2>2
  <2>4. Settled(v, activePrep', prepareToEndTimer', toPoller')
    BY <1>5, <2>2, <2>3
  <2> QED
    BY <2>1, <2>3, <2>4 DEF Settled
<1>8. ASSUME NEW i \in DOMAIN sendCh, sendCh[i].status = "prepared"
      PROVE  /\ sendCh[i].id <= outMsgId'
             /\ sendCh[i].id \in DOMAIN pendingPrepares' => Settled(pendingPrepares'[sendCh[i].id].version, activePrep', prepareToEndTimer', toPoller')
  <2>1. sendCh[i].id \in Int /\ sendCh[i].id <= outMsgId /\ outMsgId \in Nat
    BY <1>8, SentTypes DEF Voted
  <2>2. ASSUME sendCh[i].id \in DOMAIN pendingPrepares' PROVE Settled(pendingPrepares'[sendCh[i].id].version, activePrep', prepareToEndTimer', toPoller')
    <3>1. sendCh[i].id \in DOMAIN pendingPrepares /\ pendingPrepares'[sendCh[i].id] = pendingPrepares[sendCh[i].id]
      BY <1>4, <2>1, <2>2
    <3>2. PICK v \in Nat : v = pendingPrepares[sendCh[i].id].version /\ v <= checksVersion
      BY <3>1, SentTypes
    <3>3. Settled(v, activePrep, prepareToEndTimer, toPoller)
      BY <1>8, <3>1, <3>2 DEF Voted
    <3>4. Settled(v, activePrep', prepareToEndTimer', toPoller')
      BY <1>5, <3>2, <3>3
    <3> QED
      BY <1>1, <3>1, <3>2, <3>4 DEF Settled
  <2>3. sendCh[i].id <= outMsgId'
    BY <1>2, <1>3, <2>1 DEF Wrote
  <2> QED
    BY <2>2, <2>3
<1> QED
  BY <1>1, <1>6, <1>7, <1>8 DEF Voted

\* A response is read: a commit is written for a version that was voted for.
LEMMA HandlesVotes ==
  ASSUME PInv, Numbered, Voted, EndpointHandlesResponse
  PROVE  Numbered' /\ Voted'
<1> DEFINE id == sendCh[1].id
<1> DEFINE status == sendCh[1].status
<1> DEFINE x == outMsgId + 1
<1>1. /\ Transmit /\ handleResponse(id, status) /\ id \in Int /\ 1 \in DOMAIN sendCh
      /\ UNCHANGED <<activePrep, srcPrepMsg, prepareToEndTimer>>
  BY TransmitFacts DEF EndpointHandlesResponse, Transmit, prepDetails
<1>2. \A i \in DOMAIN sendCh' : \E j \in DOMAIN sendCh : sendCh'[i] = sendCh[j]
  BY <1>1, SentTypes, TailFacts DEF Transmit
<1>3. NoNewVote
  BY <1>2 DEF NoNewVote
<1> HIDE DEF id, status
<1>4. CASE id \in DOMAIN pendingPrepares /\ ~pendingPrepares[id].committing /\ status = "prepared"
  <2> DEFINE commit == CommitFrame(x, pendingPrepares[id].version)
  <2>1. /\ outMsgId' = x /\ toPoller' = Append(toPoller, commit)
        /\ pendingPrepares' = [m \in DOMAIN RemovePending(id) \cup {x} |->
             IF m = x THEN [pendingPrepares[id] EXCEPT !.committing = TRUE] ELSE pendingPrepares[m]]
    BY <1>1, <1>4 DEF handleResponse, handlePollerPrepareResponse
  <2>2. x \in Nat /\ outMsgId \in Nat /\ \A m \in Int : m <= outMsgId => m <= x /\ m # x
    BY SentTypes
  <2>3. ASSUME NEW m \in Int, m <= outMsgId, m \in DOMAIN pendingPrepares'
        PROVE  m \in DOMAIN pendingPrepares /\ pendingPrepares'[m] = pendingPrepares[m]
    BY <2>1, <2>2, <2>3 DEF RemovePending
  <2>4. commit.version = pendingPrepares[id].version /\ commit.method = "poller.commit"
    BY DEF CommitFrame
  <2> HIDE DEF commit, x
  <2>5. \A i \in DOMAIN toPoller' : (\E j \in DOMAIN toPoller : toPoller'[i] = toPoller[j]) \/ toPoller'[i] = commit
    <3>1. toPoller \in Seq(Frame)
      BY DEF PInv, AgentTypeOK
    <3> QED
      BY <2>1, <3>1
  <2>6. ASSUME NEW v, Settled(v, activePrep, prepareToEndTimer, toPoller) PROVE Settled(v, activePrep', prepareToEndTimer', toPoller')
    BY <1>1, <2>4, <2>5, <2>6 DEF Settled
  <2>7. Numbered'
    <3>1. ASSUME activePrep # NoPrep
          PROVE  /\ srcPrepMsg <= outMsgId'
                 /\ srcPrepMsg \in DOMAIN pendingPrepares' => pendingPrepares'[srcPrepMsg].version = activePrep.version
      <4>1. srcPrepMsg \in Int /\ srcPrepMsg <= outMsgId
        BY <3>1, SentTypes DEF Numbered
      <4> QED
        BY <2>1, <2>2, <2>3, <3>1, <4>1 DEF Numbered
    <3>2. ASSUME NEW i \in DOMAIN toPoller', toPoller'[i].method = "poller.prepare",
                 toPoller'[i].id \in DOMAIN pendingPrepares'
          PROVE  pendingPrepares'[toPoller'[i].id].version = toPoller'[i].version
      <4>1. PICK j \in DOMAIN toPoller : toPoller'[i] = toPoller[j]
        BY <2>4, <2>5, <3>2
      <4>2. toPoller[j].id \in Int /\ toPoller[j].id <= outMsgId
        BY SentTypes
      <4> QED
        BY <2>3, <3>2, <4>1, <4>2 DEF Numbered
    <3> QED
      BY <1>1, <3>1, <3>2 DEF Numbered
  <2>8. Settled(pendingPrepares[id].version, activePrep, prepareToEndTimer, toPoller)
    BY <1>1, <1>4 DEF Voted, id, status
  <2>9. ASSUME NEW i \in DOMAIN toPoller', toPoller'[i].method = "poller.commit" PROVE Settled(toPoller'[i].version, activePrep', prepareToEndTimer', toPoller')
    <3>1. Settled(toPoller'[i].version, activePrep, prepareToEndTimer, toPoller)
      BY <2>4, <2>5, <2>8, <2>9 DEF Voted
    <3>2. PICK v : v = toPoller'[i].version
      OBVIOUS
    <3> QED
      BY <2>6, <3>1, <3>2 DEF Settled
  <2>10. ASSUME NEW i \in DOMAIN sendCh', sendCh'[i].status = "prepared"
         PROVE  /\ sendCh'[i].id <= outMsgId'
                /\ sendCh'[i].id \in DOMAIN pendingPrepares' => Settled(pendingPrepares'[sendCh'[i].id].version, activePrep', prepareToEndTimer', toPoller')
    <3>1. PICK j \in DOMAIN sendCh : sendCh'[i] = sendCh[j]
      BY <1>2
    <3>2. sendCh[j].id \in Int /\ sendCh[j].id <= outMsgId
      BY <2>10, <3>1, SentTypes DEF Voted
    <3>3. ASSUME sendCh[j].id \in DOMAIN pendingPrepares' PROVE Settled(pendingPrepares'[sendCh[j].id].version, activePrep', prepareToEndTimer', toPoller')
      <4>1. sendCh[j].id \in DOMAIN pendingPrepares /\ pendingPrepares'[sendCh[j].id] = pendingPrepares[sendCh[j].id]
        BY <2>3, <3>2, <3>3
      <4>2. PICK v : v = pendingPrepares[sendCh[j].id].version
        OBVIOUS
      <4>3. Settled(v, activePrep, prepareToEndTimer, toPoller)
        BY <2>10, <3>1, <4>1, <4>2 DEF Voted
      <4>4. Settled(v, activePrep', prepareToEndTimer', toPoller')
        BY <2>6, <4>3
      <4>5. v = pendingPrepares'[sendCh'[i].id].version
        BY <3>1, <4>1, <4>2
      <4> QED
        BY <3>1, <4>4, <4>5 DEF Settled
    <3> QED
      BY <2>1, <2>2, <3>1, <3>2, <3>3
  <2> QED
    BY <2>7, <2>9, <2>10 DEF Voted
<1>5. CASE ~(id \in DOMAIN pendingPrepares /\ ~pendingPrepares[id].committing /\ status = "prepared")
  <2>1. /\ UNCHANGED <<outMsgId, toPoller>>
        /\ \A m \in DOMAIN pendingPrepares' : m \in DOMAIN pendingPrepares /\ pendingPrepares'[m] = pendingPrepares[m]
    BY <1>1, <1>5 DEF handleResponse, handlePollerPrepareResponse, handlePollerCommitResponse, RemovePending
  <2>2. ASSUME NEW v PROVE Settled(v, activePrep', prepareToEndTimer', toPoller') <=> Settled(v, activePrep, prepareToEndTimer, toPoller)
    BY <1>1, <2>1 DEF Settled
  <2>3. Numbered'
    BY <1>1, <2>1 DEF Numbered
  <2>4. ASSUME NEW i \in DOMAIN sendCh', sendCh'[i].status = "prepared"
        PROVE  /\ sendCh'[i].id <= outMsgId
               /\ sendCh'[i].id \in DOMAIN pendingPrepares' => Settled(pendingPrepares'[sendCh'[i].id].version, activePrep, prepareToEndTimer, toPoller)
    BY <1>2, <2>1, <2>4 DEF Voted
  <2>5. ASSUME NEW i \in DOMAIN toPoller, toPoller[i].method = "poller.commit" PROVE Settled(toPoller[i].version, activePrep, prepareToEndTimer, toPoller)
    BY <2>5 DEF Voted
  <2> QED
    BY <1>1, <2>1, <2>3, <2>4, <2>5 DEF Voted, Settled
<1> QED
  BY <1>4, <1>5

\* A frame is read.  An accepted preparation is newer than every settled version, and the
\* vote on a preparation settles its version.
LEMMA ReceivesVotes ==
  ASSUME PInv, Numbered, Voted, SessionReceives
  PROVE  Numbered' /\ Voted'
<1> DEFINE f == toPoller[1]
<1>1. /\ f \in Frame /\ handleFrame(f) /\ 1 \in DOMAIN toPoller
      /\ UNCHANGED <<outMsgId, pendingPrepares>>
      /\ \A i \in DOMAIN toPoller' :
           /\ i + 1 \in DOMAIN toPoller /\ toPoller'[i] = toPoller[i + 1]
           /\ toPoller'[i] \in Frame /\ Precedes(f, toPoller'[i])
  BY ReceiveFacts
<1>2. /\ f.id \in Int /\ f.version \in Nat
      /\ f.method \in {"poller.prepare", "poller.prepare.block", "poller.prepare.end", "poller.commit"}
      /\ f.method = "poller.prepare.end" => f.directive = "prepare"
  BY <1>1, FrameFacts
<1>3. \A i \in DOMAIN toPoller' : \E j \in DOMAIN toPoller : toPoller'[i] = toPoller[j]
  BY <1>1
<1>4. Finds(f, activePrep, prepareToEndTimer)
  BY <1>1 DEF PInv, Read
<1>5. activePrep # NoPrep => srcPrepMsg \in Int /\ activePrep.version \in Int
  BY SentTypes
<1>6. sendCh \in Seq(Response) /\ (sendCh' = sendCh => NoNewVote)
  BY SentTypes DEF NoNewVote
<1>7. ASSUME NEW id \in Int, NEW st \in {"ignored", "failed", "committed"}, sendCh' = sendCh \o <<Result(id, f.version, st)>>
      PROVE  NoNewVote
  <2> DEFINE rs == <<Result(id, f.version, st)>>
  <2>1. Result(id, f.version, st) \in Response /\ Result(id, f.version, st).status # "prepared"
    BY <1>2, <1>7 DEF Result, Response, Status
  <2>2. rs \in Seq(Response) /\ \A i \in DOMAIN rs : rs[i].status # "prepared"
    BY <2>1
  <2>3. sendCh' = sendCh \o rs
    BY <1>7
  <2> HIDE DEF rs
  <2> QED
    BY <2>2, <2>3, AppendsNoVote
<1>8. /\ Superseded(f.version) \in Seq(Response)
      /\ \A i \in DOMAIN Superseded(f.version) : Superseded(f.version)[i].status = "ignored"
  <2>1. Superseded(f.version) \in Seq(Response)
    <3>1. IInv
      BY DEF PInv
    <3>2. f.version \in Int
      BY <1>2
    <3> QED
      BY <3>1, <3>2, SupersededType
  <2> QED
    BY <2>1 DEF Superseded, Result
<1> HIDE DEF f
<1>9. CASE PrepareIgnored(f.id, f.version) \/ CommitIgnored(f.id, f.version) \/ EndNothingActive(f.id, f.version, "prepare")
  <2>1. PICK st \in {"ignored", "failed"} : sendCh' = sendCh \o <<Result(f.id, f.version, st)>>
    BY <1>9 DEF PrepareIgnored, CommitIgnored, EndNothingActive, Respond
  <2>2. NoNewVote
    BY <1>2, <1>7, <2>1
  <2>3. UNCHANGED <<activePrep, srcPrepMsg, prepareToEndTimer>>
    BY <1>9 DEF PrepareIgnored, CommitIgnored, EndNothingActive, prepDetails
  <2> QED
    BY <1>1, <1>3, <2>2, <2>3, KeepsVotes
<1>10. CASE PrepareRefused(f.id, f.version, f.manifest, Valid(f.manifest))
  <2> DEFINE rs == Append(Superseded(f.version), Result(f.id, f.version, "failed"))
  <2>1. rs \in Seq(Response) /\ \A i \in DOMAIN rs : rs[i].status # "prepared"
    <3>1. Result(f.id, f.version, "failed") \in Response /\ Result(f.id, f.version, "failed").status = "failed"
      BY <1>2 DEF Result, Response, Status
    <3> QED
      BY <1>8, <3>1
  <2>2. sendCh' = sendCh \o rs /\ UNCHANGED <<activePrep, srcPrepMsg>>
    BY <1>10 DEF PrepareRefused, Respond
  <2>3. prepareToEndTimer = "nil" => prepareToEndTimer' = "nil"
    BY <1>10 DEF PrepareRefused, StopTimer
  <2> HIDE DEF rs
  <2>4. NoNewVote
    BY <2>1, <2>2, AppendsNoVote
  <2> QED
    BY <1>1, <1>3, <2>2, <2>3, <2>4, KeepsVotes
<1>11. CASE f.method = "poller.prepare" /\ PrepareAccepted(f.id, f.version, f.manifest, Valid(f.manifest))
  <2>1. /\ sendCh' = sendCh \o Superseded(f.version) /\ srcPrepMsg' = f.id
        /\ activePrep' = NewChecksPreparation(f.version, f.manifest)
    BY <1>11 DEF PrepareAccepted, Respond
  <2>2. activePrep'.version = f.version
    BY <2>1 DEF NewChecksPreparation
  <2>3. NoNewVote
    BY <1>8, <2>1, AppendsNoVote
  <2>4. ASSUME NEW v, Settled(v, activePrep, prepareToEndTimer, toPoller)
        PROVE  Settled(v, activePrep', prepareToEndTimer', toPoller')
    <3>1. v < f.version
      BY <1>1, <1>11, <2>4 DEF Settled, f
    <3>2. v # f.version
      BY <1>2, <3>1
    <3> QED
      BY <1>3, <2>2, <2>4, <3>2 DEF Settled
  <2>5. f.id <= outMsgId /\ (f.id \in DOMAIN pendingPrepares => pendingPrepares[f.id].version = f.version)
    BY <1>1, <1>11, SentTypes DEF Numbered, f
  <2>6. Numbered'
    <3>1. \A i \in DOMAIN toPoller' :
            toPoller'[i].method = "poller.prepare" /\ toPoller'[i].id \in DOMAIN pendingPrepares =>
              pendingPrepares[toPoller'[i].id].version = toPoller'[i].version
      BY <1>3 DEF Numbered
    <3> QED
      BY <1>1, <2>1, <2>2, <2>5, <3>1 DEF Numbered
  <2> QED
    BY <1>1, <1>3, <2>3, <2>4, <2>6, VotesCarryOver
<1>12. CASE BlockIgnored(f.version)
  <2>1. UNCHANGED <<activePrep, srcPrepMsg, prepareToEndTimer, sendCh>>
    BY <1>12 DEF BlockIgnored, prepDetails
  <2> QED
    BY <1>1, <1>3, <1>6, <2>1, KeepsVotes
<1>13. CASE f.method = "poller.prepare.block" /\ BlockAdded(f.version, f.block)
  <2>1. activePrep # NoPrep /\ activePrep.version = f.version
    BY <1>13 DEF BlockAdded, VersionApplies
  <2>2. prepareToEndTimer \in {"running", "fired"}
    BY <1>4, <1>13, <2>1 DEF Finds
  <2>3. activePrep'.version = activePrep.version
    BY <1>13 DEF BlockAdded, AddDefinitions
  <2>4. UNCHANGED <<srcPrepMsg, sendCh>>
    BY <1>13 DEF BlockAdded
  <2> QED
    BY <1>1, <1>3, <1>6, <2>1, <2>2, <2>3, <2>4, KeepsVotes
<1>14. CASE EndInvalid(f.version, "prepare")
  <2>1. sendCh' = sendCh \o <<Result(srcPrepMsg, f.version, "failed")>> /\ activePrep # NoPrep
    BY <1>14 DEF EndInvalid, Respond
  <2>2. NoNewVote
    BY <1>5, <1>7, <2>1
  <2>3. UNCHANGED <<activePrep, srcPrepMsg, prepareToEndTimer>>
    BY <1>14 DEF EndInvalid, prepDetails
  <2> QED
    BY <1>1, <1>3, <2>2, <2>3, KeepsVotes
<1>15. CASE f.method = "poller.prepare.end" /\ EndPrepared(f.version, "prepare")
  <2> DEFINE r == Result(srcPrepMsg, f.version, "prepared")
  <2>1. activePrep # NoPrep /\ activePrep.version = f.version
    BY <1>15 DEF EndPrepared, Validate, VersionApplies
  <2>2. prepareToEndTimer \in {"running", "fired"}
    BY <1>4, <1>15, <2>1 DEF Finds
  <2>3. /\ sendCh' = sendCh \o <<r>> /\ prepareToEndTimer' = "nil"
        /\ UNCHANGED <<activePrep, srcPrepMsg>>
    BY <1>15, <2>2 DEF EndPrepared, Respond
  <2>4. r \in Response /\ r.id = srcPrepMsg
    BY <1>2, <1>5, <2>1 DEF Result, Response, Status
  <2> HIDE DEF r
  <2>5. ASSUME NEW v, Settled(v, activePrep, prepareToEndTimer, toPoller)
        PROVE  Settled(v, activePrep', prepareToEndTimer', toPoller')
    BY <1>3, <2>3, <2>5 DEF Settled
  <2>6. Settled(f.version, activePrep', prepareToEndTimer', toPoller')
    BY <1>1, <1>15, <2>3 DEF Settled, Precedes
  <2>7. /\ srcPrepMsg <= outMsgId
        /\ srcPrepMsg \in DOMAIN pendingPrepares => pendingPrepares[srcPrepMsg].version = f.version
    BY <2>1 DEF Numbered
  <2>8. Numbered'
    BY <1>1, <1>3, <2>3 DEF Numbered
  <2>9. ASSUME NEW i \in DOMAIN toPoller', toPoller'[i].method = "poller.commit"
        PROVE  Settled(toPoller'[i].version, activePrep', prepareToEndTimer', toPoller')
    BY <1>3, <2>5, <2>9 DEF Voted
  <2>10. ASSUME NEW i \in DOMAIN sendCh', sendCh'[i].status = "prepared"
         PROVE  /\ sendCh'[i].id <= outMsgId'
                /\ sendCh'[i].id \in DOMAIN pendingPrepares' =>
                     Settled(pendingPrepares'[sendCh'[i].id].version, activePrep', prepareToEndTimer', toPoller')
    <3>1. sendCh'[i] = r \/ \E j \in DOMAIN sendCh : sendCh'[i] = sendCh[j]
      BY <1>6, <2>3, <2>4
    <3>2. CASE sendCh'[i] = r
      BY <1>1, <2>4, <2>6, <2>7, <3>2
    <3>3. CASE \E j \in DOMAIN sendCh : sendCh'[i] = sendCh[j]
      <4>1. PICK j \in DOMAIN sendCh : sendCh'[i] = sendCh[j]
        BY <3>3
      <4>2. /\ sendCh[j].id <= outMsgId
            /\ sendCh[j].id \in DOMAIN pendingPrepares =>
                 Settled(pendingPrepares[sendCh[j].id].version, activePrep, prepareToEndTimer, toPoller)
        BY <2>10, <4>1 DEF Voted
      <4> QED
        BY <1>1, <2>5, <4>1, <4>2
    <3> QED
      BY <3>1, <3>2, <3>3
  <2> QED
    BY <2>8, <2>9, <2>10 DEF Voted
<1>16. CASE CommitApplied(f.id, f.version)
  <2>1. sendCh' = sendCh \o <<Result(f.id, f.version, "committed")>> /\ activePrep' = NoPrep
    BY <1>16 DEF CommitApplied, Respond, clear
  <2>2. NoNewVote
    BY <1>2, <1>7, <2>1
  <2> QED
    BY <1>1, <1>3, <2>1, <2>2, KeepsVotes
<1>17. CASE f.method = "poller.prepare"
  BY <1>1, <1>9, <1>10, <1>11, <1>17 DEF handleFrame, handlePollerPrepare
<1>18. CASE f.method = "poller.prepare.block"
  BY <1>1, <1>12, <1>13, <1>18 DEF handleFrame, handlePollerPrepareBlock
<1>19. CASE f.method = "poller.prepare.end"
  BY <1>1, <1>2, <1>9, <1>14, <1>15, <1>19
  DEF handleFrame, handlePollerPrepareEnd, EndAbort, EndWithoutSource, EndUnexpected
<1>20. CASE f.method = "poller.commit"
  BY <1>1, <1>9, <1>16, <1>20 DEF handleFrame, handlePollerCommit
<1> QED
  BY <1>2, <1>17, <1>18, <1>19, <1>20

\* The timer fires or expires, or the session ends.
LEMMA AloneVotes ==
  ASSUME PInv, Numbered, Voted, SessionAlone
  PROVE  Numbered' /\ Voted'
<1>1. UNCHANGED <<outMsgId, pendingPrepares, toPoller>>
  BY DEF SessionAlone, agentVars
<1>2. CASE HandlerExits
  BY <1>1, <1>2, KeepsVotes DEF HandlerExits, prepDetails, NoNewVote
<1>3. CASE TimerFires
  BY <1>1, <1>3, KeepsVotes DEF TimerFires, NoNewVote
<1>4. CASE PrepareToEndExpired
  <2> DEFINE rs == <<Result(srcPrepMsg, activePrep.version, "failed")>>
  <2>1. srcPrepMsg \in Int /\ srcPrepMsg # NoMsg /\ activePrep.version \in Int
    BY <1>4 DEF PrepareToEndExpired, PInv, IInv, TypeOK, PrepLinked, Preparation
  <2>2. sendCh' = sendCh \o rs /\ activePrep' = NoPrep
    BY <1>4, <2>1 DEF PrepareToEndExpired, Respond, clear
  <2>3. rs \in Seq(Response) /\ \A i \in DOMAIN rs : rs[i].status # "prepared"
    BY <2>1 DEF Result, Response, Status
  <2> HIDE DEF rs
  <2>4. NoNewVote
    BY <2>2, <2>3, AppendsNoVote
  <2> QED
    BY <1>1, <2>2, <2>4, KeepsVotes
<1> QED
  BY <1>2, <1>3, <1>4 DEF SessionAlone

\* The invariant with the votes.
VInv == PInv /\ Numbered /\ Voted

\* Every commit on its way, and every vote that will become one, is about a version that
\* was voted for and not forgotten, or that is gone.
THEOREM ProtocolVotes == ProtocolSpec => []VInv
<1>1. ProtocolInit => VInv
  <2> SUFFICES ASSUME ProtocolInit PROVE VInv
    OBVIOUS
  <2>1. toPoller = <<>> /\ sendCh = <<>> /\ activePrep = NoPrep
    BY DEF ProtocolInit, Init, AgentInit
  <2> QED
    BY <2>1, InitPInv DEF VInv, Numbered, Voted
<1>2. VInv /\ [ProtocolNext]_protocolVars => VInv'
  <2> SUFFICES ASSUME VInv, [ProtocolNext]_protocolVars PROVE VInv'
    OBVIOUS
  <2>1. PInv /\ Numbered /\ Voted /\ PInv'
    BY NextPInv DEF VInv
  <2>2. CASE SchedulerReconciles \/ UNCHANGED protocolVars
    <3>1. UNCHANGED <<activePrep, srcPrepMsg, prepareToEndTimer, sendCh, outMsgId, pendingPrepares, toPoller>>
      BY <2>2 DEF SchedulerReconciles, protocolVars, vars, prepDetails, agentVars
    <3> QED
      BY <2>1, <3>1 DEF VInv, Numbered, Voted
  <2> QED
    BY <2>1, <2>2, LoadsVotes, HandlesVotes, ReceivesVotes, AloneVotes DEF ProtocolNext, VInv
<1> QED
  BY <1>1, <1>2, PTL DEF ProtocolSpec

\* phaseOf and prepOf are the refinement mapping of TPC.
phaseOf == IF Gone THEN "idle" ELSE IF prepareToEndTimer = "nil" THEN "prepared" ELSE "preparing"
prepOf == IF Gone THEN NoPrep ELSE activePrep

\* A step that leaves the mapped state alone.
Stutter == phaseOf' = phaseOf /\ prepOf' = prepOf /\ reconciled' = reconciled

\* The five steps of TwoPhaseCommit in terms of the mapping.
LEMMA MappedSteps ==
  /\ TPC!Accept  <=> /\ phaseOf' = "preparing" /\ prepOf' \in Preparation
                     /\ phaseOf = "idle" \/ prepOf'.version >= prepOf.version
                     /\ reconciled' = reconciled
  /\ TPC!Populate <=> /\ phaseOf = "preparing" /\ phaseOf' = "preparing" /\ prepOf' \in Preparation
                      /\ prepOf'.version = prepOf.version
                      /\ Declared(prepOf) \subseteq Declared(prepOf')
                      /\ reconciled' = reconciled
  /\ TPC!Vote    <=> /\ phaseOf = "preparing" /\ phaseOf' = "prepared" /\ Complete(prepOf)
                     /\ prepOf' = prepOf /\ reconciled' = reconciled
  /\ TPC!Abandon <=> /\ phaseOf # "idle" /\ phaseOf' = "idle" /\ prepOf' = NoPrep
                     /\ reconciled' = reconciled
  /\ TPC!Commit  <=> /\ phaseOf = "prepared" /\ phaseOf' = "idle" /\ prepOf' = NoPrep
                     /\ reconciled' = Append(reconciled, prepOf)
  /\ Stutter <=> UNCHANGED TPC!tpcVars
  BY DEF TPC!Accept, TPC!Populate, TPC!Vote, TPC!Abandon, TPC!Commit, TPC!Declared, TPC!Complete,
         Declared, Complete, TPC!Preparation, TPC!ActionableCheck, TPC!ActionType, TPC!Absent, TPC!NoDef,
         Preparation, ActionableCheck, ActionType, Absent, NoDef, TPC!tpcVars, Stutter, phaseOf, prepOf

\* A frame that the session reads maps to a step of TwoPhaseCommit or to a stutter: the
\* commit that is applied is about a version that is settled, hence voted for.
LEMMA ReceiveRefines ==
  ASSUME VInv, SessionReceives
  PROVE  [TPC!TPCNext]_(TPC!tpcVars)
<1> DEFINE f == toPoller[1]
<1> DEFINE Goal == \/ TPC!Accept \/ TPC!Populate \/ TPC!Vote \/ TPC!Abandon \/ TPC!Commit
                   \/ UNCHANGED TPC!tpcVars
<1> SUFFICES Goal
  BY DEF TPC!TPCNext
<1> USE DEF phaseOf, prepOf, Gone
<1>1. f \in Frame /\ handleFrame(f) /\ 1 \in DOMAIN toPoller /\ handler = "running"
  BY ReceiveFacts DEF VInv
<1>2. /\ f.version \in Int
      /\ f.method \in {"poller.prepare", "poller.prepare.block", "poller.prepare.end", "poller.commit"}
      /\ f.method = "poller.prepare" => f.manifest \in Manifest
      /\ f.method = "poller.prepare.block" => f.block \in Block
      /\ f.method = "poller.prepare.end" => f.directive = "prepare"
  BY <1>1, FrameFacts
<1>3. ASSUME UNCHANGED <<prepDetails, handler, reconciled>> PROVE Goal
  <2>1. Stutter
    BY <1>3 DEF Stutter, prepDetails
  <2> QED
    BY <2>1, MappedSteps
<1>4. Finds(f, activePrep, prepareToEndTimer)
  BY <1>1 DEF VInv, PInv, Read
<1>5. activePrep # NoPrep => activePrep \in Preparation /\ activePrep.version \in Int
  BY DEF VInv, PInv, IInv, TypeOK, Preparation
<1>6. f.method = "poller.commit" => Settled(f.version, activePrep, prepareToEndTimer, toPoller)
  BY <1>1 DEF VInv, Voted
<1> HIDE DEF f
<1>7. CASE f.method = "poller.prepare"
  <2> DEFINE valid == Valid(f.manifest)
  <2>1. handlePollerPrepare(f.id, f.version, f.manifest, valid)
    BY <1>1, <1>7 DEF handleFrame
  <2> HIDE DEF valid
  <2>2. CASE PrepareIgnored(f.id, f.version)
    BY <1>3, <2>2 DEF PrepareIgnored
  <2>3. CASE PrepareRefused(f.id, f.version, f.manifest, valid)
    <3>1. Stutter
      BY <2>3 DEF PrepareRefused, Stutter, StopTimer
    <3> QED
      BY <3>1, MappedSteps
  <2>4. CASE PrepareAccepted(f.id, f.version, f.manifest, valid)
    <3>1. activePrep' \in Preparation /\ activePrep' # NoPrep /\ activePrep'.version = f.version
      BY <1>2, <1>7, <2>4, NewIsPreparation, PreparationIsNotNil DEF PrepareAccepted
    <3>2. handler' = "running" /\ prepareToEndTimer' = "running" /\ reconciled' = reconciled
      BY <1>1, <2>4 DEF PrepareAccepted
    <3>3. activePrep # NoPrep => f.version >= activePrep.version
      BY <1>2, <1>5, <2>4 DEF PrepareAccepted, IsOlder
    <3>4. TPC!Accept
      BY <1>1, <3>1, <3>2, <3>3, MappedSteps
    <3> QED
      BY <3>4
  <2> QED
    BY <2>1, <2>2, <2>3, <2>4 DEF handlePollerPrepare
<1>8. CASE f.method = "poller.prepare.block"
  <2>1. handlePollerPrepareBlock(f.version, f.block)
    BY <1>1, <1>8 DEF handleFrame
  <2>2. CASE BlockIgnored(f.version)
    BY <1>3, <2>2 DEF BlockIgnored
  <2>3. CASE BlockAdded(f.version, f.block)
    <3>1. /\ activePrep # NoPrep /\ activePrep' # NoPrep /\ activePrep' \in Preparation
          /\ activePrep'.version = activePrep.version /\ Declared(activePrep) \subseteq Declared(activePrep')
          /\ activePrep.version = f.version /\ reconciled' = reconciled
      BY <1>2, <1>5, <1>8, <2>3, AddDefinitionsKeeps, PreparationIsNotNil DEF BlockAdded, VersionApplies
    <3>2. prepareToEndTimer \in {"running", "fired"}
      BY <1>4, <1>8, <3>1 DEF Finds
    <3>3. prepareToEndTimer' = "running" /\ handler' = handler
      BY <2>3, <3>2 DEF BlockAdded
    <3>4. TPC!Populate
      BY <1>1, <3>1, <3>2, <3>3, MappedSteps
    <3> QED
      BY <3>4
  <2> QED
    BY <2>1, <2>2, <2>3 DEF handlePollerPrepareBlock
<1>9. CASE f.method = "poller.prepare.end"
  <2>1. handlePollerPrepareEnd(f.id, f.version, "prepare")
    BY <1>1, <1>2, <1>9 DEF handleFrame
  <2>2. CASE EndNothingActive(f.id, f.version, "prepare") \/ EndInvalid(f.version, "prepare")
    BY <1>3, <2>2 DEF EndNothingActive, EndInvalid
  <2>3. CASE EndPrepared(f.version, "prepare")
    <3>1. activePrep # NoPrep /\ activePrep.version = f.version /\ Complete(activePrep)
      BY <2>3 DEF EndPrepared, Validate, VersionApplies
    <3>2. prepareToEndTimer # "nil"
      BY <1>4, <1>9, <3>1 DEF Finds
    <3>3. TPC!Vote
      BY <1>1, <2>3, <3>1, <3>2, MappedSteps DEF EndPrepared
    <3> QED
      BY <3>3
  <2> QED
    BY <2>1, <2>2, <2>3 DEF handlePollerPrepareEnd, EndAbort, EndWithoutSource, EndUnexpected
<1>10. CASE f.method = "poller.commit"
  <2>1. handlePollerCommit(f.id, f.version)
    BY <1>1, <1>10 DEF handleFrame
  <2>2. CASE CommitIgnored(f.id, f.version)
    BY <1>3, <2>2 DEF CommitIgnored
  <2>3. CASE CommitApplied(f.id, f.version)
    <3>1. activePrep # NoPrep /\ activePrep.version = f.version
      BY <2>3 DEF CommitApplied, VersionApplies
    <3>2. prepareToEndTimer = "nil"
      BY <1>6, <1>10, <3>1 DEF Settled
    <3>3. TPC!Commit
      BY <1>1, <2>3, <3>1, <3>2, MappedSteps DEF CommitApplied, clear
    <3> QED
      BY <3>3
  <2> QED
    BY <2>1, <2>2, <2>3 DEF handlePollerCommit
<1> QED
  BY <1>2, <1>7, <1>8, <1>9, <1>10

\* So does every other step.
LEMMA StepRefines ==
  ASSUME VInv, [ProtocolNext]_protocolVars
  PROVE  [TPC!TPCNext]_(TPC!tpcVars)
<1> DEFINE Goal == TPC!Abandon \/ UNCHANGED TPC!tpcVars
<1>1. ASSUME Goal PROVE [TPC!TPCNext]_(TPC!tpcVars)
  BY <1>1 DEF TPC!TPCNext
<1> USE DEF phaseOf, prepOf, Gone
<1>2. ASSUME UNCHANGED <<prepDetails, handler, reconciled>> PROVE Goal
  <2>1. Stutter
    BY <1>2 DEF Stutter, prepDetails
  <2> QED
    BY <2>1, MappedSteps
<1>3. CASE EndpointLoads \/ EndpointHandlesResponse \/ SchedulerReconciles \/ UNCHANGED protocolVars
  <2>1. UNCHANGED <<prepDetails, handler, reconciled>>
    BY <1>3 DEF EndpointLoads, pollerVars, EndpointHandlesResponse, Transmit, SchedulerReconciles, protocolVars, vars
  <2> QED
    BY <1>1, <1>2, <2>1
<1>4. CASE SessionAlone /\ PrepareToEndExpired
  <2>1. prepareToEndTimer = "fired" /\ handler = "running" /\ activePrep # NoPrep /\ srcPrepMsg # NoMsg
    BY <1>4 DEF PrepareToEndExpired, VInv, PInv, IInv, PrepLinked
  <2>2. TPC!Abandon
    BY <1>4, <2>1, MappedSteps DEF PrepareToEndExpired, clear
  <2> QED
    BY <1>1, <2>2
<1>5. CASE SessionAlone /\ HandlerExits
  <2>1. CASE activePrep = NoPrep
    <3>1. Stutter
      BY <1>5, <2>1 DEF HandlerExits, prepDetails, Stutter
    <3> QED
      BY <1>1, <3>1, MappedSteps
  <2>2. CASE activePrep # NoPrep
    <3>1. TPC!Abandon
      BY <1>5, <2>2, MappedSteps DEF HandlerExits, prepDetails
    <3> QED
      BY <1>1, <3>1
  <2> QED
    BY <2>1, <2>2
<1>6. CASE SessionAlone /\ TimerFires
  <2>1. Stutter
    BY <1>6 DEF TimerFires, Stutter
  <2> QED
    BY <1>1, <2>1, MappedSteps
<1> QED
  BY <1>3, <1>4, <1>5, <1>6, ReceiveRefines DEF ProtocolNext, SessionAlone

\* With the bundled endpoint the exchange implements the abstract two-phase commit: what
\* is handed to the reconciler is complete and was voted for.
THEOREM ProtocolRefinement == ProtocolSpec => ImplementsTwoPhaseCommit
<1>1. ProtocolInit => TPC!TPCInit
  BY DEF ProtocolInit, Init, TPC!TPCInit, Gone
<1>2. VInv /\ [ProtocolNext]_protocolVars => [TPC!TPCNext]_(TPC!tpcVars)
  BY StepRefines
<1> QED
  BY <1>1, <1>2, ProtocolVotes, PTL DEF ProtocolSpec, ImplementsTwoPhaseCommit, TPC!TPCSpec

=============================================================================
