----------------------------- MODULE TwoPhaseCommit -----------------------------
(***************************************************************************)
(* What the two-phase commit of checks promises, without frames, timers,   *)
(* responses or go routines: at most one preparation is under way; its     *)
(* version never goes back while it is; only a complete one is voted on,   *)
(* and from then on it cannot change; whatever is handed to the reconciler *)
(* is the preparation under way, after its vote and once.                  *)
(***************************************************************************)
EXTENDS ChecksPreparation, Sequences

VARIABLES
  phase,  \* "idle", "preparing" or, after the positive vote, "prepared"
  prep,   \* the preparation under way, NoPrep when idle
  log     \* the preparations handed to the reconciler, in order

tpcVars == <<phase, prep, log>>

TPCInit == phase = "idle" /\ prep = NoPrep /\ log = <<>>

\* A new preparation, which may supersede the one under way.
Accept ==
  /\ phase' = "preparing"
  /\ prep' \in Preparation
  /\ phase = "idle" \/ prep'.version >= prep.version
  /\ UNCHANGED log

\* Definitions arrive: no check is ever taken out of the preparation.
Populate ==
  /\ phase = "preparing" /\ phase' = "preparing"
  /\ prep' \in Preparation
  /\ prep'.version = prep.version
  /\ Declared(prep) \subseteq Declared(prep')
  /\ UNCHANGED log

Vote ==
  /\ phase = "preparing" /\ phase' = "prepared"
  /\ Complete(prep)
  /\ UNCHANGED <<prep, log>>

\* Abort, expiry, or the end of the session or of the process.
Abandon ==
  /\ phase # "idle" /\ phase' = "idle"
  /\ prep' = NoPrep
  /\ UNCHANGED log

\* Only what was voted for, so that a preparation that is reconciled is complete.
Commit ==
  /\ phase = "prepared" /\ phase' = "idle"
  /\ prep' = NoPrep
  /\ log' = Append(log, prep)

TPCNext == Accept \/ Populate \/ Vote \/ Abandon \/ Commit

TPCSpec == TPCInit /\ [][TPCNext]_tpcVars

=============================================================================
