----------------------------- MODULE CrewFacade -----------------------------
(* The CrewAI integration (integrations/crewai.py): tools are wrapped at
   kickoff, and the run's position is read from the facade.                 *)
EXTENDS AgentSession

CrewClassifyTool(k) == IF NameClass[k] = "other" THEN "compensable" ELSE NameClass[k]

CrewAuditTool(k) == WrapTool(k, CrewClassifyTool(k))

CrewTier(k) == IF Override[k] # "unset" THEN Override[k] ELSE CrewClassifyTool(k)

\* _instrument_agent_tool: a decorated tool is left alone, a tool with a tier
\* is wrapped with it, any other is classified and audited.
CrewInstrumentTool(k) ==
    \/ IsInstrumented(k)
    \/ Override[k] # "unset" /\ WrapTool(k, Override[k])
    \/ Override[k] = "unset" /\ CrewAuditTool(k)

CrewAccepts == \A k \in HeldTools : RequireAsyncTool(k) /\ CrewInstrumentTool(k)

\* Faulty variant: each tool is replaced as soon as it is accepted.
PrepareAgentsOneByOne ==
    Bind({k \in HeldTools : RequireAsyncTool(k) /\ CrewInstrumentTool(k)},
         [k \in Tools |-> CrewTier(k)])

\* _prepare_agents: agents and tasks are planned before any is reassigned.
PrepareAgents ==
    IF CrewAccepts THEN Bind(HeldTools, [k \in Tools |-> CrewTier(k)])
    ELSE UNCHANGED held

\* Faulty variant: the run is not recorded on the facade.
CrewKickoffUnrecorded(t, keys) ==
    /\ PrepareAgents
    /\ IF CrewAccepts
       THEN /\ OpenSession(t, SessionFor(t, keys.session), keys.step)
            /\ UNCHANGED facade
       ELSE UNCHANGED <<facade, run, count, origin, overlapped>>
    /\ UNCHANGED <<kind, resume, log>>

\* kickoff_async, up to the crew's first call.  A ValueError leaves the rest
\* of the facade as it was.
CrewKickoff(t, keys) ==
    /\ PrepareAgents
    /\ IF CrewAccepts
       THEN /\ OpenSession(t, SessionFor(t, keys.session), keys.step)
            /\ facade' = [session |-> SessionFor(t, keys.session), step |-> keys.step,
                          request |-> FALSE]
       ELSE UNCHANGED <<facade, run, count, origin, overlapped>>
    /\ UNCHANGED <<kind, resume, log>>

\* kickoff_async returns or raises; the caller reads the session id from the
\* facade before it does anything else.
CrewLeave(t, at, step) ==
    /\ run' = [run EXCEPT ![t].at = at, ![t].step = step]
    /\ facade' = [facade EXCEPT !.step = step, !.request = (at = "parked") \/ @]
    /\ resume' = [resume EXCEPT ![t] = [session |-> facade.session, step |-> 0]]
=============================================================================
