---------------------------- MODULE EngineClaims ----------------------------
(***************************************************************************)
(* Statements the repository's documents, comments and tests make about    *)
(* the engine and that its code does not keep.  Each is quoted with its    *)
(* place; TLC finds the behaviour of EffectEngine that contradicts it.     *)
(***************************************************************************)
EXTENDS EffectEngineInv

(* docs/reference/effect-states.md:175 on the Fail RPC: "Tool execution failed.
   Effect is reset to retry."; the row it leaves cannot be read again. *)
FailedCanRetry == \A c \in Calls : answer[c] # "unreadable"
=============================================================================
