------------------------------- MODULE UndoLog -------------------------------
(***************************************************************************)
(* The engine and the saga orchestrator on one database.  Sessions are     *)
(* compensated while their agents still call tools, humans decide and the  *)
(* timeout processors run.                                                 *)
(***************************************************************************)
EXTENDS EffectEngineInv, Saga

VARIABLE owed   \* owed[w]: the tools that had run when call w loaded its stack

allTheVars == <<vars, sagaVars, owed>>

SystemInit ==
    /\ Init
    /\ SagaLocalInit
    /\ owed = [w \in Runners |-> {}]

EngineStep == Next /\ UNCHANGED <<sagaVars, owed>>

RanIn(s) == {e \in Effects : SessionOfEffect(e) = s /\ TierOfEffect(e) = "compensable"
                             /\ runs[e] > 0}

SagaStep ==
    /\ SagaNext
    /\ UNCHANGED <<callVars, due, runs>>
    /\ owed' = [w \in Runners |->
          IF spc[w] = "load" /\ spc'[w] = "call" THEN RanIn(target[w])
          ELSE IF spc[w] = "idle" THEN {} ELSE owed[w]]

SystemNext == EngineStep \/ SagaStep

SystemSpec == SystemInit /\ [][SystemNext]_allTheVars
-----------------------------------------------------------------------------
(* What the two promise together: when compensate_session answers
   "compensated", every compensable tool of the session that had run when it
   loaded the stack has been undone, or its entry is recorded as failed.  It
   takes the engine's order of push_undo_entry and set_executing and the
   orchestrator's walk of the stack. *)
RollbackComplete ==
    \A w \in Runners : outcome[w] = "compensated" => \A e \in owed[w] : Dealt(e)
-----------------------------------------------------------------------------
(* The inductive invariant behind it                                       *)

\* What a call still has to do is on its session's stack.
TodoOnStack ==
    \A w \in Runners : Walking(w) =>
        \A e \in todo[w] : SessionOfEffect(e) = target[w] /\ Registered(e)

\* Entries move forward only, and "compensated" is written after a success.
EntriesGenuine ==
    \A e \in Effects :
        /\ undo[e] \in {"none", "pending", "compensated", "failed"}
        /\ undo[e] = "compensated" => e \in undone

\* What a call owes is in its list until it is dealt with, and it has not
\* answered yet.
OwedCovered ==
    /\ owed \in [Runners -> SUBSET Effects]
    /\ \A w \in Runners :
          /\ Walking(w) => \A e \in owed[w] : e \in todo[w] \/ Dealt(e)
          /\ spc[w] # "idle" => outcome[w] = "none"

(* The conjunction every step of the engine and of the orchestrator preserves.
   TodoExact, LifoOrder and the second half of NothingForgotten are not part of
   it: a tool call may push an entry while the session is compensated. *)
SystemInv ==
    /\ IndInv
    /\ EntryShape
    /\ SagaTypeOK
    /\ TodoOnStack
    /\ PostShape
    /\ EntriesGenuine
    /\ OwedCovered
    /\ RollbackComplete
=============================================================================
