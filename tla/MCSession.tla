------------------------------- MODULE MCSession -------------------------------
(* Model-checking instance of Session. *)
EXTENDS Session

CONSTANTS c1, c2

MCCheckId == {c1, c2}
MCOneCheck == {c1}

\* An older, an equal and a newer version, all above newestCommittedVersion ...
MCVersion == 1 .. 2
\* ... and one at its initial value.
MCAnyVersion == 0 .. 2
=============================================================================
