------------------------------- MODULE MCSaga -------------------------------
(* Instances of Saga for TLC: one session with up to three undo entries. *)
EXTENDS Saga

CONSTANTS s1, s2, s3, t1

OneSession  == [s \in Sigs |-> t1]
Steps       == [s \in Sigs |-> CASE s = s1 -> 0 [] s = s2 -> 1 [] OTHER -> 2]
Compensable == [s \in Sigs |-> "compensable"]
=============================================================================
