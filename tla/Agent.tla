---------------------------------- MODULE Agent --------------------------------
(***************************************************************************)
(* The server's half of the two-phase commit: endpoint/agent.go of the     *)
(* bundled endpoint, one agent per connected poller.  The go routine       *)
(* runPrepareResponseCoordinator owns all of its state; it takes bundles   *)
(* of checks, loaded from files at first and again on every file event,    *)
(* and the poller's responses.                                             *)
(*                                                                         *)
(* loadChecks numbers the checks of every load afresh, so a check ID is a  *)
(* number and a load is the run of numbers after the last one.             *)
(***************************************************************************)
EXTENDS ChecksPreparation, Sequences

CONSTANTS
  prepareBlockSize,  \* how many definitions a poller.prepare.block carries
  MaxLoads,          \* bound: how often the checks are loaded
  MaxFiles,          \* bound: how many check files a load finds
  NoSet              \* a nil set.Set

ASSUME BlockSizeAssumption == prepareBlockSize \in Nat \ {0}
ASSUME MaxLoadsAssumption == MaxLoads \in Nat /\ MaxFiles \in Nat
ASSUME CheckIdAssumption == CheckId \subseteq Nat

VARIABLES
  checkId,          \* number of the last check ID given out
  outMsgId,         \* ID of the last frame sent
  checksVersion,    \* version of the last preparation
  committedChecks,  \* IDs of the last commit that was confirmed, or NoSet
  pendingPrepares,  \* frame ID -> pendingPrepare, for the frames awaiting a response
  endpoint,         \* "crashed" after a panic
  toPoller          \* the connection: frames written and not yet read

agentVars == <<checkId, outMsgId, checksVersion, committedChecks, pendingPrepares, endpoint, toPoller>>

PendingPrepare == [version : Nat, checkIds : SUBSET CheckId, committing : BOOLEAN]

AgentInit ==
  /\ checkId = 0 /\ outMsgId = 0 /\ checksVersion = 0
  /\ committedChecks = NoSet
  /\ pendingPrepares = <<>>
  /\ endpoint = "running"
  /\ toPoller = <<>>

-----------------------------------------------------------------------------
(***************************************************************************)
(* prepareChecks: the whole preparation is written at once.                *)
(***************************************************************************)

PrepareFrame(id, version, manifest) ==
  [id |-> id, method |-> "poller.prepare", version |-> version, manifest |-> manifest]
BlockFrame(id, version, block) ==
  [id |-> id, method |-> "poller.prepare.block", version |-> version, block |-> block]
EndFrame(id, version) ==
  [id |-> id, method |-> "poller.prepare.end", version |-> version, directive |-> "prepare"]
CommitFrame(id, version) ==
  [id |-> id, method |-> "poller.commit", version |-> version]

\* The number of blocks for n checks, and the checks in the k-th of them.
Blocks(n) == (n + prepareBlockSize - 1) \div prepareBlockSize
BlockOf(all, k) ==
  {all[i] : i \in {j \in DOMAIN all : (k - 1) * prepareBlockSize < j /\ j <= k * prepareBlockSize}}

\* all: the IDs in the order in which they are sent; starting: the ones to start.
PreparationFrames(all, starting, defs) ==
  LET version == checksVersion + 1
      ids == {all[i] : i \in DOMAIN all}
      n == Blocks(Len(all))
  IN  <<PrepareFrame(outMsgId + 1, version,
          [c \in CheckId |-> IF c \notin ids THEN "none" ELSE IF c \in starting THEN "start" ELSE "restart"])>>
      \o [k \in 1 .. n |->
           BlockFrame(outMsgId + 1 + k, version, [c \in CheckId |-> IF c \in BlockOf(all, k) THEN defs[c] ELSE NoDef])]
      \o <<EndFrame(outMsgId + n + 2, version)>>

\* Mutant: the version is not incremented.
prepareChecksSameVersion(all, starting, defs) ==
  LET frames == PreparationFrames(all, starting, defs)
      ourPending == [version    |-> checksVersion + 1,
                     checkIds   |-> {all[i] : i \in DOMAIN all},
                     committing |-> FALSE]
  IN  /\ UNCHANGED checksVersion
      /\ outMsgId' = outMsgId + Len(frames)
      /\ toPoller' = toPoller \o frames
      /\ pendingPrepares' = [m \in DOMAIN pendingPrepares \cup {outMsgId + 1} |->
                               IF m = outMsgId + 1 THEN ourPending ELSE pendingPrepares[m]]

\* all is checksToStart followed by checksToRestart, starting the IDs in the former.
prepareChecks(all, starting, defs) ==
  LET frames == PreparationFrames(all, starting, defs)
      ourPending == [version    |-> checksVersion + 1,
                     checkIds   |-> {all[i] : i \in DOMAIN all},
                     committing |-> FALSE]
  IN  /\ checksVersion' = checksVersion + 1
      /\ outMsgId' = outMsgId + Len(frames)
      /\ toPoller' = toPoller \o frames
      /\ pendingPrepares' = [m \in DOMAIN pendingPrepares \cup {outMsgId + 1} |->
                               IF m = outMsgId + 1 THEN ourPending ELSE pendingPrepares[m]]

\* The IDs that loadChecks gives out for n files.
Loaded(n) == (checkId + 1) .. (checkId + n)

\* The n loaded IDs, the ones in first before the others and otherwise as loaded.
Classified(n, first) ==
  {all \in [1 .. n -> Loaded(n)] :
     \A i, j \in 1 .. n : i < j =>
       \/ all[i] \in first /\ all[j] \notin first
       \/ (all[i] \in first <=> all[j] \in first) /\ all[i] < all[j]}

\* applyInitialChecks, once per agent: every check is to be started.
applyInitialChecks(n, defs) ==
  /\ endpoint = "running"
  /\ checksVersion = 0 /\ checksVersion < MaxLoads
  /\ checkId' = checkId + n
  /\ \E all \in Classified(n, Loaded(n)) : prepareChecks(all, Loaded(n), defs)
  /\ UNCHANGED <<committedChecks, endpoint>>

\* runFileWatcher hands over a reload, and what is committed is to be started.  Contains
\* on a nil set.Set panics.
Reload(n, defs) ==
  /\ endpoint = "running"
  /\ checksVersion > 0 /\ checksVersion < MaxLoads
  /\ checkId' = checkId + n
  /\ IF n > 0 /\ committedChecks = NoSet
     THEN /\ endpoint' = "crashed"
          /\ UNCHANGED <<outMsgId, checksVersion, committedChecks, pendingPrepares, toPoller>>
     ELSE /\ \E all \in Classified(n, committedChecks) : prepareChecks(all, Loaded(n) \cap committedChecks, defs)
          /\ UNCHANGED <<committedChecks, endpoint>>

-----------------------------------------------------------------------------
(***************************************************************************)
(* handleResponse, for a response with a frame ID and a status.            *)
(***************************************************************************)

RemovePending(id) == [m \in DOMAIN pendingPrepares \ {id} |-> pendingPrepares[m]]

\* The commit goes out under an ID of its own.
handlePollerPrepareResponse(id, status) ==
  \/ /\ status = "prepared"
     /\ outMsgId' = outMsgId + 1
     /\ toPoller' = Append(toPoller, CommitFrame(outMsgId + 1, pendingPrepares[id].version))
     /\ pendingPrepares' = [m \in DOMAIN RemovePending(id) \cup {outMsgId + 1} |->
          IF m = outMsgId + 1 THEN [pendingPrepares[id] EXCEPT !.committing = TRUE] ELSE pendingPrepares[m]]
  \/ /\ status # "prepared"
     /\ pendingPrepares' = RemovePending(id)
     /\ UNCHANGED <<outMsgId, toPoller>>

\* Mutant: every answer to a commit is taken for a confirmation.
handlePollerCommitResponseAny(id, status) ==
  /\ committedChecks' = pendingPrepares[id].checkIds
  /\ pendingPrepares' = RemovePending(id)

\* Any status but "committed" leaves the entry where it is.
handlePollerCommitResponse(id, status) ==
  \/ /\ status = "committed"
     /\ committedChecks' = pendingPrepares[id].checkIds
     /\ pendingPrepares' = RemovePending(id)
  \/ /\ status # "committed"
     /\ UNCHANGED <<committedChecks, pendingPrepares>>

handleResponse(id, status) ==
  /\ endpoint = "running"
  /\ \/ /\ id \notin DOMAIN pendingPrepares
        /\ UNCHANGED <<outMsgId, committedChecks, pendingPrepares, toPoller>>
     \/ /\ id \in DOMAIN pendingPrepares /\ ~pendingPrepares[id].committing
        /\ handlePollerPrepareResponse(id, status)
        /\ UNCHANGED committedChecks
     \/ /\ id \in DOMAIN pendingPrepares /\ pendingPrepares[id].committing
        /\ handlePollerCommitResponse(id, status)
        /\ UNCHANGED <<outMsgId, toPoller>>
  /\ UNCHANGED <<checkId, checksVersion, endpoint>>

=============================================================================
