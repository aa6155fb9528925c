------------------------------- MODULE MCCheckRun ------------------------------
(* Model-checking instance of CheckRun. *)
EXTENDS CheckRun

MCPluginMetric == {"m1", "m2", "m3"}
MCKnownUnit == {"m1", "m2"}
=============================================================================
