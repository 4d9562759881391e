------------------------------ MODULE MCUndoLog ------------------------------
(* Instances of UndoLog for TLC: the calls of one session and its sagas. *)
EXTENDS UndoLog

CONSTANTS s1, s2, t1

OneSession  == [s \in Sigs |-> t1]
Steps       == [s \in Sigs |-> IF s = s1 THEN 0 ELSE 1]
Compensable == [s \in Sigs |-> "compensable"]

\* No action and no invariant of the runs reads answer: states that differ in it
\* alone behave alike.
WithoutAnswers ==
    <<dbVars, clockVars, pc, sig, eff, sent, reply, tries, due, runs, sagaVars, owed>>
=============================================================================
