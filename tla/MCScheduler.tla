------------------------------ MODULE MCScheduler ------------------------------
(* Model-checking instance of Scheduler: one check that two sessions prepare. *)
EXTENDS Scheduler

CONSTANTS c1, s1, s2

MCCheckId == {c1}
MCSessions == {s1, s2}
=============================================================================
