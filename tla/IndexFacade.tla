----------------------------- MODULE IndexFacade -----------------------------
(* The LlamaIndex integration (integrations/llamaindex.py): as the crew's,
   but a chat continues the facade's session by itself.                     *)
EXTENDS AgentSession

IndexClassifyTool(k) == IF NameClass[k] = "other" THEN "compensable" ELSE NameClass[k]

IndexAuditTool(k) == WrapTool(k, IndexClassifyTool(k))

IndexTier(k) == IF Override[k] # "unset" THEN Override[k] ELSE IndexClassifyTool(k)

\* _instrument_index_tool
IndexInstrumentTool(k) ==
    \/ IsInstrumented(k)
    \/ Override[k] # "unset" /\ WrapTool(k, Override[k])
    \/ Override[k] = "unset" /\ IndexAuditTool(k)

IndexAccepts == \A k \in HeldTools : RequireAsyncTool(k) /\ IndexInstrumentTool(k)

\* _prepare_index: tools and tool_specs are accepted before either is assigned.
PrepareIndex ==
    IF IndexAccepts THEN Bind(HeldTools, [k \in Tools |-> IndexTier(k)]) ELSE UNCHANGED held

\* _run_with_session, first part: which session, and from which step.
IndexOrigin(keys) ==
    IF keys.session = NoSession /\ kind = "chat" /\ facade.session # NoSession
    THEN [session |-> facade.session, step |-> facade.step]
    ELSE keys

\* _run_with_session, up to the index's first call.
IndexRun(t, keys) ==
    /\ PrepareIndex
    /\ IF IndexAccepts
       THEN LET from == IndexOrigin(keys)
                session == SessionFor(t, from.session)
            IN /\ OpenSession(t, session, from.step)
               /\ facade' = [session |-> session, step |-> from.step, request |-> FALSE]
       ELSE UNCHANGED <<facade, run, count, origin, overlapped>>
    /\ UNCHANGED <<kind, resume, log>>

\* _run_with_session returns or raises.
IndexLeave(t, at, step) ==
    /\ run' = [run EXCEPT ![t].at = at, ![t].step = step]
    /\ facade' = [facade EXCEPT !.step = step, !.request = (at = "parked") \/ @]
    /\ resume' = [resume EXCEPT ![t] = [session |-> facade.session, step |-> 0]]
=============================================================================
