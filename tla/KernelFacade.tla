---------------------------- MODULE KernelFacade ----------------------------
(* The Semantic Kernel integration (integrations/semantic_kernel.py):
   functions are wrapped when they are registered through the facade, and
   plugin by plugin at wrap time and before each invocation.                *)
EXTENDS AgentSession

CONSTANTS Plugins,   \* 1..n, in the order of kernel.plugins
          PluginOf   \* PluginOf[k]: the plugin function k belongs to

ASSUME KernelAssumption ==
    /\ \A q \in Plugins : q \in Nat /\ 1..q \subseteq Plugins
    /\ PluginOf \in [Tools -> Plugins]

KernelClassifyTool(k) == IF NameClass[k] = "other" THEN "compensable" ELSE NameClass[k]

KernelAuditFunction(k) == WrapTool(k, KernelClassifyTool(k))

KernelTier(k) == IF Override[k] # "unset" THEN Override[k] ELSE KernelClassifyTool(k)

\* _instrument_plugin_function
KernelInstrument(k) ==
    /\ RequireAsyncTool(k)
    /\ \/ IsInstrumented(k)
       \/ Override[k] # "unset" /\ WrapTool(k, Override[k])
       \/ Override[k] = "unset" /\ KernelAuditFunction(k)

FunctionsOf(p) == {k \in HeldTools : PluginOf[k] = p}

\* _bind_plugin_functions: all functions of the plugin, or none.
Binds(p) == \A k \in FunctionsOf(p) : KernelInstrument(k)

\* Faulty variant: the first plugin decides.
KernelAcceptsFirst == Binds(1)

\* _prepare_plugins stops at the first plugin that is refused; the ones
\* before it stay bound.
KernelAccepts == \A p \in Plugins : Binds(p)
PreparePlugins ==
    Bind(UNION {FunctionsOf(p) : p \in {q \in Plugins : \A r \in 1..q : Binds(r)}},
         [k \in Tools |-> KernelTier(k)])

\* WrappedKernel.__init__: a refused function and there is no facade, though
\* the kernel's first plugins may be bound already.
WrapKernel ==
    /\ kind = "kernel"
    /\ PreparePlugins
    /\ UNCHANGED <<kind, runs, log>>

\* _require_instrumentable, _instrument: what registration accepts.
Registrable(k) == RequireAsyncTool(k) /\ KernelInstrument(k)

\* add_functions (add_function for one): all are instrumented before any is
\* registered.
AddFunctions(ks) ==
    /\ kind = "kernel"
    /\ \A k \in ks : held[k] = "out" /\ Registrable(k)
    /\ held' = [k \in Tools |-> IF k \in ks THEN KernelTier(k) ELSE held[k]]
    /\ UNCHANGED <<kind, runs, log>>

\* _reset_run
ResetRun(session, step) == [session |-> session, step |-> step, request |-> FALSE]

\* _open_session, up to the first call.
KernelSession(t, keys) ==
    /\ OpenSession(t, SessionFor(t, keys.session), keys.step)
    /\ facade' = ResetRun(SessionFor(t, keys.session), keys.step)

\* session and _run_in_session, which invoke and invoke_prompt call with the
\* resume keys taken from their arguments.
KernelInvoke(t, keys) ==
    /\ PreparePlugins
    /\ IF KernelAccepts THEN KernelSession(t, keys)
       ELSE UNCHANGED <<facade, run, count, origin, overlapped>>
    /\ UNCHANGED <<kind, resume, log>>

\* _record_approval and the end of _open_session.
KernelLeave(t, at, step) ==
    /\ run' = [run EXCEPT ![t].at = at, ![t].step = step]
    /\ facade' = [facade EXCEPT !.step = step, !.request = (at = "parked") \/ @]
    /\ resume' = [resume EXCEPT ![t] = [session |-> facade.session, step |-> 0]]
=============================================================================
