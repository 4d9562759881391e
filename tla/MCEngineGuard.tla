---------------------------- MODULE MCEngineGuard ----------------------------
(* Instances of EngineGuard for TLC. *)
EXTENDS EngineGuard, TLC

Symm == Permutations(Calls)
=============================================================================
