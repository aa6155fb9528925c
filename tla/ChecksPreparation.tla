--------------------------- MODULE ChecksPreparation ---------------------------
(***************************************************************************)
(* The data type behind the two-phase commit of checks:                    *)
(* poller/checks_preparation.go.  A preparation is the version of a        *)
(* poller.prepare together with the map checkId -> ActionableCheck that    *)
(* its manifest declares and that the poller.prepare.block messages fill   *)
(* in.  Everything here is a constant operator; the session keeps the      *)
(* state.                                                                  *)
(*                                                                         *)
(* The Go map Actions is a total function over CheckId in which Absent     *)
(* marks a key that is not in the map.  A check definition (check.CheckIn) *)
(* is abstracted to what the scheduler can tell apart about it.  A         *)
(* manifest or a block is a function of the check ID: a later entry for    *)
(* the same ID overwrites an earlier one in the code.                      *)
(***************************************************************************)
EXTENDS Integers

CONSTANTS
  CheckId,     \* the check IDs that messages mention
  Definition,  \* the kinds of check definitions that blocks carry
  NoPrep       \* a nil *ChecksPreparation

\* "enabled" parses and is polled, "disabled" parses and is not polled,
\* "invalid" is refused by check.NewCheckParsed (unsupported type, bad details),
\* "noDetails" has a nil RawDetails, which the check constructors dereference.
DefinitionKind == {"enabled", "disabled", "invalid", "noDetails"}

\* The zero check.CheckIn that a manifest entry starts with.
NoDef == "none"

ASSUME DefinitionAssumption == Definition \subseteq DefinitionKind

-----------------------------------------------------------------------------

ActionType == {"unknown", "start", "restart", "continue"}

ActionableCheck == [action : ActionType, populated : BOOLEAN, def : Definition \cup {NoDef}]

Absent == [action |-> "absent", populated |-> FALSE, def |-> NoDef]

Preparation == [version : Int, actions : [CheckId -> ActionableCheck \cup {Absent}]]

\* "bogus" stands for every action string that the protocol does not define,
\* "none" for a check that the message does not mention.
ManifestAction == {"start", "restart", "continue", "bogus"}
Manifest == [CheckId -> ManifestAction \cup {"none"}]
Block == [CheckId -> Definition \cup {NoDef}]

ASSUME NoPrepAssumption == NoPrep \notin Preparation

-----------------------------------------------------------------------------

mapToActionType(action) ==
  IF action \in {"start", "restart", "continue"} THEN action ELSE "unknown"

doesCheckPreparationNeedPopulating(action) == action # "continue"

\* NewChecksPreparation returns an error for a manifest with any other action.
ManifestSupported(manifest) ==
  \A id \in CheckId : manifest[id] # "none" => mapToActionType(manifest[id]) # "unknown"

NewChecksPreparation(version, manifest) ==
  [version |-> version,
   actions |-> [id \in CheckId |->
      IF manifest[id] = "none" THEN Absent
      ELSE [action    |-> mapToActionType(manifest[id]),
            populated |-> ~doesCheckPreparationNeedPopulating(manifest[id]),
            def       |-> NoDef]]]

\* Mutant: a message applies to whatever preparation is active.
VersionAppliesAny(cp, version) == cp # NoPrep

VersionApplies(cp, version) == cp # NoPrep /\ cp.version = version

IsNewer(cp, version) == cp = NoPrep \/ version > cp.version

IsOlder(cp, version) == cp # NoPrep /\ version < cp.version

\* A definition for an undeclared check leaves an empty entry of unknown action,
\* so that Validate refuses the whole preparation.
AddDefinitions(cp, block) ==
  [cp EXCEPT !.actions = [id \in CheckId |->
     IF block[id] = NoDef THEN cp.actions[id]
     ELSE IF cp.actions[id] = Absent
          THEN [action |-> "unknown", populated |-> FALSE, def |-> NoDef]
          ELSE [action |-> cp.actions[id].action, populated |-> TRUE, def |-> block[id]]]]

Declared(cp) == {id \in CheckId : cp.actions[id] # Absent}

\* The part of Validate that looks at the actions.
Complete(cp) ==
  \A id \in Declared(cp) : cp.actions[id].action # "unknown" /\ cp.actions[id].populated

\* Mutant: the loop over the actions is missing.
ValidateVersion(cp, version) == VersionApplies(cp, version)

Validate(cp, version) == VersionApplies(cp, version) /\ Complete(cp)

=============================================================================
