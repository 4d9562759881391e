--------------------------- MODULE EffectEngineInv ---------------------------
(***************************************************************************)
(* The inductive invariant behind the safety properties of EffectEngine.   *)
(* The properties are not inductive by themselves: they follow from who    *)
(* may still hand out, or hold, the right to run a tool.                   *)
(***************************************************************************)
EXTENDS EffectEngine

\* The request has inserted the row and has not yet decided who may run it.
Opening(c, e) == pc[c] \in {"push", "begin", "request"} /\ eff[c] = e

Undecided(e) == approval[e] \in {"none", "pending"}

\* What pc says about the request's own variables.
RequestShape ==
    \A c \in Calls :
        /\ pc[c] \in InterceptPC => sig[c] \in Sigs
        /\ pc[c] = "insert" => TierOf[sig[c]] # "safe"
        /\ pc[c] \in {"replay", "push", "begin", "request", "park"} => eff[c] \in Effects
        /\ pc[c] \in {"session", "lock", "lookup", "insert"} => eff[c] = None
        /\ pc[c] \in {"push", "begin"} => TierOfEffect(eff[c]) = "compensable"
        /\ pc[c] = "request" => TierOfEffect(eff[c]) = "irreversible"
        /\ pc[c] \notin ProxyPC => sent[c] = "proposed"

\* Only logged calls have rows, and nothing refers to a row that is not there.
NoRowNoTrace ==
    \A e \in Effects :
        /\ state[e] # "none" => TierOfEffect(e) # "safe"
        /\ state[e] = "none" =>
              /\ ~Released(e)
              /\ approval[e] = "none"
              /\ \A c \in Calls : pc[c] # "idle" => eff[c] # e

\* One request opens a row, and while it does nobody may run the tool.
OneOpener ==
    \A e \in Effects :
        /\ \A c, d \in Calls : Opening(c, e) /\ Opening(d, e) => c = d
        /\ (\E c \in Calls : Opening(c, e)) => ~Released(e)

\* The undo entry is there from "begin" on.
UndoBeforeBegin ==
    \A c \in Calls : pc[c] = "begin" => undo[eff[c]] # "none"

\* Approval requests belong to irreversible effects, one to each.
ApprovalShape ==
    \A e \in Effects :
        /\ approval[e] # "none" => TierOfEffect(e) = "irreversible"
        /\ \A c \in Calls : pc[c] = "request" /\ eff[c] = e => approval[e] = "none"

\* Until a human decides, an effect has its proposed arguments and, if it is
\* irreversible, no request is running its tool or reporting on it.
GateShut ==
    \A e \in Effects : Undecided(e) =>
        /\ audit[e]["approve"] = 0
        /\ audit[e]["reject"] = 0
        /\ args_snapshot[e] = "proposed"
        /\ TierOfEffect(e) = "irreversible" =>
              \A c \in Calls : pc[c] \in ProxyPC => eff[c] # e

\* A processor only selects requests that exist.
DueExist ==
    \A w \in Sweepers : \A e \in Effects : e \in due[w] => approval[e] # "none"

\* Commit and fail are reported after the run.
ReportedAfterRun ==
    \A c \in Calls : pc[c] \in {"commit", "fail"} /\ eff[c] # None => runs[eff[c]] = 1

\* A committed result keeps its row out of flight.  The saga orchestrator, not
\* the engine, writes "compensation_failed".
CommittedAtRest ==
    \A e \in Effects :
        result_snapshot[e] = "ok" => state[e] \in {"committed", "replayed", "compensation_failed"}

(* The conjunction that every step of the engine, the proxy, the humans, the
   timeout processor and the clock preserves. *)
IndInv ==
    /\ StoreTypeOK
    /\ EngineTypeOK
    /\ RequestShape
    /\ NoRowNoTrace
    /\ OneOpener
    /\ UndoBeforeBegin
    /\ ApprovalShape
    /\ GateShut
    /\ DueExist
    /\ ReportedAfterRun
    /\ CommittedAtRest
    /\ AtMostOneRun
    /\ UndoRegisteredFirst
    /\ HumanGate
    /\ ResultIsGenuine
    /\ OneHumanDecision
    /\ RejectionHalts
    /\ ArgsAudited

\* The entries of the undo stacks have effect rows and positions of their own.
EntryShape ==
    /\ \A e \in Effects : undo[e] # "none" => state[e] # "none"
    /\ \A e, f \in Effects :
          /\ undo[e] # "none" /\ undo[f] # "none"
          /\ SessionOfEffect(e) = SessionOfEffect(f) /\ StepOf[e[1]] = StepOf[f[1]]
          => e = f

\* No engine step gives a compensation up.
NoneGivenUp == \A e \in Effects : state[e] # "compensation_failed"
=============================================================================
