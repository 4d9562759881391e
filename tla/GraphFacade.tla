----------------------------- MODULE GraphFacade -----------------------------
(* The LangGraph integration (integrations/langgraph.py): tools are wrapped
   before the graph is built, and the run's position travels in its state.  *)
EXTENDS AgentSession

\* classify_tool: unlike the other integrations, an unknown name is safe.
GraphClassifyTool(k) == IF NameClass[k] = "irreversible" THEN "irreversible" ELSE "safe"

\* audit_tool wraps with the classified tier; wrap_tools with the given one,
\* compensable by default.
GraphAuditTool(k) == WrapTool(k, GraphClassifyTool(k))
GraphTier(k) == IF Override[k] # "unset" THEN Override[k] ELSE "compensable"

\* wrap_tools returns a new list: one refused tool and there is none.
GraphWrapTools ==
    /\ kind = "graph"
    /\ \A t \in Turns : count[t] = 0
    /\ \/ /\ \A k \in HeldTools : IsInstrumented(k) \/ WrapTool(k, GraphTier(k))
          /\ Bind(HeldTools, [k \in Tools |-> GraphTier(k)])
       \/ /\ \A k \in HeldTools : GraphAuditTool(k)
          /\ Bind(HeldTools, [k \in Tools |-> GraphClassifyTool(k)])
    /\ UNCHANGED <<kind, runs, log>>

\* ainvoke, up to the graph's first call: session id and step come from the
\* input state.  The graph exists once its tools were wrapped.
GraphAinvoke(t) ==
    /\ \A k \in HeldTools : IsInstrumented(k)
    /\ \E keys \in {resume[t]} \cup {resume[u] : u \in {v \in Turns : count[t] = 0}} :
          OpenSession(t, SessionFor(t, keys.session), keys.step)
    /\ UNCHANGED <<kind, held, facade, resume, log>>

\* Faulty variant: the returned state holds how far the run got.
GraphLeaveProgress(t, at, step) ==
    /\ run' = [run EXCEPT ![t].at = at, ![t].step = step]
    /\ resume' = [resume EXCEPT ![t] = IF at = "raised" THEN @
                     ELSE [session |-> run[t].session, step |-> step]]
    /\ UNCHANGED facade

\* ainvoke returns: the state holds the step this run started from, whether
\* it is suspended or done.  With raise_interrupt, or on another exception,
\* nothing is returned.
GraphLeave(t, at, step) ==
    /\ run' = [run EXCEPT ![t].at = at, ![t].step = step]
    /\ resume' = [resume EXCEPT ![t] = IF at = "raised" THEN @
                     ELSE [session |-> run[t].session, step |-> run[t].start]]
    /\ UNCHANGED facade
=============================================================================
