--------------------------- MODULE MCEffectEngine ---------------------------
(* Instances of EffectEngine for TLC: the calls of one session. *)
EXTENDS EngineClaims, TLC

CONSTANTS s1, s2, t1

OneSession   == [s \in Sigs |-> t1]
Steps        == [s \in Sigs |-> IF s = s1 THEN 0 ELSE 1]
Mixed        == [s \in Sigs |-> IF s = s1 THEN "compensable" ELSE "irreversible"]
CompAndSafe  == [s \in Sigs |-> IF s = s1 THEN "compensable" ELSE "safe"]
Irreversible == [s \in Sigs |-> "irreversible"]
Compensable  == [s \in Sigs |-> "compensable"]

Symm == Permutations(Calls) \cup Permutations(Sweepers)
=============================================================================
