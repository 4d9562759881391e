------------------------------ MODULE AgentRuns ------------------------------
(***************************************************************************)
(* Turns of an agent run through one facade, one after another or at the   *)
(* same time, and invoked again as the guides say after an approval: a     *)
(* graph with the state it returned, the others with the session id read   *)
(* from the facade.                                                        *)
(***************************************************************************)
EXTENDS GraphFacade, CrewFacade, IndexFacade, KernelFacade

Kinds == {"graph", "crew", "query", "chat", "kernel"}

vars == <<kind, held, runs, log>>

Init == SessionInit /\ kind \in Kinds

\* A first invocation is new work, or continues the facade's last session
\* ("pass undolog_step_index to continue").  A later one is a retry.
Keys(t) ==
    IF count[t] > 0 THEN {resume[t]}
    ELSE {NoKeys} \cup (IF facade.session = NoSession THEN {}
                        ELSE {[session |-> facade.session, step |-> facade.step]})

Invoke(t) ==
    /\ count[t] < MaxInvocations
    /\ run[t].at \in {"idle", "parked", "raised"}
    /\ \/ kind = "graph" /\ run[t].at # "raised" /\ GraphAinvoke(t)
       \/ kind = "crew" /\ \E keys \in Keys(t) : CrewKickoff(t, keys)
       \/ kind \in {"query", "chat"} /\ \E keys \in Keys(t) : IndexRun(t, keys)
       \/ kind = "kernel" /\ \E keys \in Keys(t) : KernelInvoke(t, keys)

Leave(t, at, step) ==
    \/ kind = "graph" /\ GraphLeave(t, at, step)
    \/ kind = "crew" /\ CrewLeave(t, at, step)
    \/ kind \in {"query", "chat"} /\ IndexLeave(t, at, step)
    \/ kind = "kernel" /\ KernelLeave(t, at, step)

\* AwaitingApprovalError: the request is journalled and the run ends.
Park(t) ==
    /\ MustWait(t)
    /\ awaiting' = awaiting \cup {Key(t, NextStep(t))}
    /\ \E at \in {"parked"} \cup {a \in {"raised"} : kind = "graph"} : Leave(t, at, NextStep(t))
    /\ UNCHANGED <<kind, held, count, origin, overlapped, recorded, completed, again, bypassed>>

\* Any other exception: of the tool, before or after it had its effect, of a
\* request, of the framework.
Raise(t) ==
    /\ Active(t)
    /\ Leave(t, "raised", run[t].step)
    /\ IF run[t].at = "tool" THEN Ran(t) \/ UNCHANGED again ELSE UNCHANGED again
    /\ UNCHANGED <<kind, held, count, origin, overlapped, awaiting, recorded, completed, bypassed>>

Finish(t) ==
    /\ run[t].at = "running" /\ ~CallsLeft(t)
    /\ Leave(t, "done", run[t].step)
    /\ UNCHANGED <<kind, held, count, origin, overlapped, log>>

\* Between invocations the developer adds a tool to the framework's own list,
\* or takes one out that was refused.
ChangeTools ==
    /\ kind \notin {"graph"} /\ \A t \in Turns : ~Active(t)
    /\ \E k \in Tools :
          \/ held[k] = "out" /\ held' = [held EXCEPT ![k] = "raw"]
          \/ held[k] = "raw" /\ InitiallyHeld(k) = "out" /\ held' = [held EXCEPT ![k] = "out"]
    /\ UNCHANGED <<kind, runs, log>>

Next ==
    \/ \E t \in Turns : \/ Invoke(t) \/ CallThrough(t) \/ InterceptCall(t) \/ RunTool(t)
                        \/ Park(t) \/ Raise(t) \/ Finish(t)
    \/ DecideRequest
    \/ GraphWrapTools
    \/ WrapKernel
    \/ \E ks \in SUBSET (Tools \ HeldTools) \ {{}} : AddFunctions(ks)
    \/ ChangeTools

Spec == Init /\ [][Next]_vars
-----------------------------------------------------------------------------
(***************************************************************************)
(* The retry recipe of the guides: a call that completed is replayed when  *)
(* its turn is invoked again, never run again.  For a graph always; for    *)
(* the others when the turn began at step zero and had the facade to       *)
(* itself while it ran.                                                    *)
(***************************************************************************)
RetryReplays ==
    \A call \in again : kind # "graph" /\ (origin[call[1]] # 0 \/ call[1] \in overlapped)

(***************************************************************************)
(* No tool that is not safe runs outside the journal, in whatever order    *)
(* tools are added, refused, taken out and runs begin.                     *)
(***************************************************************************)
NothingBypassed == bypassed = {}

(***************************************************************************)
(* Preparation is all-or-nothing for a crew and an index: tools change     *)
(* only together with a run that starts, or by the developer's hand.       *)
(***************************************************************************)
PreparedWhole ==
    [][(/\ kind \in {"crew", "query", "chat"}
        /\ \E k \in Tools : held[k] = "raw" /\ held'[k] \in Tiers)
       => (count' # count /\ \A k \in Tools : held'[k] # "raw")]_vars

(***************************************************************************)
(* The session id a caller reads when its run is suspended is the run's    *)
(* own, unless it shared the facade.                                       *)
(***************************************************************************)
HandlerReads ==
    \A t \in Turns \ overlapped :
        run[t].at = "parked" => resume[t].session = run[t].session
-----------------------------------------------------------------------------
(***************************************************************************)
(* The inductive invariant behind these properties.                        *)
(***************************************************************************)
Keyrings == [session : Sessions \cup {NoSession}, step : Nat]
Properties == [session : Sessions \cup {NoSession}, step : Nat, request : BOOLEAN]
Invocations == [at : {"idle", "running", "tool", "parked", "raised", "done"},
                session : Sessions \cup {NoSession}, start : Nat, step : Nat, pos : Nat \ {0}]

AgentTypeOK ==
    /\ kind \in Kinds
    /\ held \in [Tools -> Tiers \cup {"out", "raw"}]
    /\ facade \in Properties
    /\ run \in [Turns -> Invocations]
    /\ resume \in [Turns -> Keyrings]
    /\ count \in [Turns -> Nat]
    /\ origin \in [Turns -> Nat]
    /\ again \subseteq Turns \X Nat

\* While a run is in progress every tool the framework holds is instrumented.
Sealed == \A t \in Turns : Active(t) => \A k \in Tools : held[k] # "raw"

\* A run that has the facade to itself finds its own session there.
FacadeIsMine ==
    kind # "graph" => \A t \in Turns \ overlapped : Active(t) => facade.session = run[t].session

\* What is known of a turn from its first invocation on.
Invoked(t) ==
    /\ count[t] = 0 => /\ origin[t] = 0 /\ run[t].at = "idle"
                       /\ \A i \in DOMAIN Plan[t] : <<t, i>> \notin completed
    /\ count[t] > 0 => /\ run[t].at # "idle" /\ run[t].session # NoSession
                       /\ \A i \in DOMAIN Plan[t] : held[Plan[t][i]] \in Tiers
    /\ \A i \in DOMAIN Plan[t] : held[Plan[t][i]] # "out"
    /\ run[t].pos <= Len(Plan[t]) + 1
    /\ run[t].at = "tool" => CallsLeft(t)

\* The turns the retry recipe is for.
Follows(t) == kind = "graph" \/ (origin[t] = 0 /\ t \notin overlapped)

\* The step a turn reaches with its first n calls: safe ones take none.
Journalled(t, n) == {i \in 1..n : held[Plan[t][i]] # "safe"}
StepAfter(t, n) == origin[t] + Cardinality(Journalled(t, n))

\* Every invocation of such a turn counts its steps from the same one, in the
\* same session.
SameSteps(t) ==
    count[t] > 0 /\ Follows(t) =>
        /\ run[t].start = origin[t]
        /\ run[t].at = "running" => run[t].step = StepAfter(t, run[t].pos - 1)
        /\ run[t].at = "tool" => run[t].step = StepAfter(t, run[t].pos)
        /\ run[t].at = "parked" \/ (run[t].at = "raised" /\ kind # "graph")
              => resume[t] = [session |-> run[t].session, step |-> origin[t]]

\* So a call that completed is found under the key it was recorded with.
Remembered(t) ==
    Follows(t) =>
        /\ \A i \in DOMAIN Plan[t] : <<t, i>> \in completed =>
              <<run[t].session, StepAfter(t, i), Plan[t][i]>> \in recorded
        /\ run[t].at = "tool" => <<t, run[t].pos>> \notin completed

AgentInv ==
    /\ AgentTypeOK
    /\ Sealed /\ NothingBypassed
    /\ FacadeIsMine /\ HandlerReads
    /\ \A t \in Turns : Invoked(t) /\ SameSteps(t) /\ Remembered(t)
    /\ RetryReplays
=============================================================================
