---------------------------- MODULE AgentSession ----------------------------
(***************************************************************************)
(* What the framework integrations of the Python SDK share: the session    *)
(* and its step counter (session.py, context.py), the instrumentation of a *)
(* tool (_instrument.py, wrap_tool of langgraph.py) and a decorated call   *)
(* (decorators.py), seen from an agent that makes a fixed list of calls.   *)
(*                                                                         *)
(* A turn is one piece of the agent's work.  It is invoked through a       *)
(* facade and, when it stopped early, invoked again; each invocation makes *)
(* the turn's calls from the first one on.  asyncio runs an invocation     *)
(* without interruption up to its next request.                            *)
(***************************************************************************)
EXTENDS Integers, Sequences, FiniteSets

CONSTANTS Turns,           \* 1..n
          Plan,            \* Plan[t]: the tools turn t calls, in order
          Tools, Shape,    \* Shape[k]: "async", "sync" or "decorated"
          NameClass,       \* NameClass[k]: what the name's prefix suggests
          Override,        \* the tiers argument, or the decorator's: a tier or "unset"
          HasCompensation, \* tools named in the compensations argument
          MaxInvocations,  \* bound: invocations of one turn
          NoSession

Tiers == {"safe", "compensable", "irreversible"}
Sessions == Turns \X (1..MaxInvocations)     \* named after who opened it

ASSUME AgentAssumption ==
    /\ Plan \in [Turns -> Seq(Tools)]
    /\ Shape \in [Tools -> {"async", "sync", "decorated"}]
    /\ NameClass \in [Tools -> {"safe", "irreversible", "other"}]
    /\ Override \in [Tools -> Tiers \cup {"unset"}]
    /\ \A k \in Tools : Shape[k] = "decorated" => Override[k] # "unset"
    /\ HasCompensation \subseteq Tools
    /\ MaxInvocations \in Nat
    /\ NoSession \notin Sessions

VARIABLES kind,       \* the integration in use
          held,       \* held[k]: "out", "raw", or the tier it is wrapped with
          facade,     \* the facade's run properties: session, step, request
          run,        \* run[t]: the current or last invocation of turn t
          resume,     \* resume[t]: what its caller passes to invoke it again
          count,      \* count[t]: invocations of turn t so far
          awaiting,   \* approval requests: <<session, step, tool>>
          recorded,   \* journalled results: <<session, step, tool>>
          completed,  \* history: <<turn, position>> run and recorded
          again,      \* history: <<turn, position>> run after it completed
          bypassed,   \* history: tools run without the journal
          origin,     \* history: the step turn t first started from
          overlapped  \* history: turns that shared the facade while running

runs == <<facade, run, resume, count, origin, overlapped>>
log == <<awaiting, recorded, completed, again, bypassed>>

NoRun == [at |-> "idle", session |-> NoSession, start |-> 0, step |-> 0, pos |-> 1]
NoKeys == [session |-> NoSession, step |-> 0]
Active(t) == run[t].at \in {"running", "tool"}
Ended(t) == run[t].at \in {"parked", "raised", "done"}

\* The tools the frameworks hold at first: decorated ones carry their tier.
InitiallyHeld(k) ==
    CASE \A t \in Turns : \A i \in DOMAIN Plan[t] : Plan[t][i] # k -> "out"
      [] Shape[k] = "decorated" -> Override[k]
      [] OTHER -> "raw"

SessionInit ==
    /\ held = [k \in Tools |-> InitiallyHeld(k)]
    /\ facade = [session |-> NoSession, step |-> 0, request |-> FALSE]
    /\ run = [t \in Turns |-> NoRun]
    /\ resume = [t \in Turns |-> NoKeys]
    /\ count = [t \in Turns |-> 0]
    /\ awaiting = {} /\ recorded = {}
    /\ completed = {} /\ again = {} /\ bypassed = {}
    /\ origin = [t \in Turns |-> 0]
    /\ overlapped = {}

-----------------------------------------------------------------------------
(***************************************************************************)
(* Instrumentation.                                                        *)
(***************************************************************************)

\* require_async_tool: undolog_tool awaits what it wraps.
RequireAsyncTool(k) == Shape[k] # "sync"

\* wrap_tool refuses a compensable tool without a compensation name.
WrapTool(k, tier) == tier = "compensable" => k \in HasCompensation

IsInstrumented(k) == held[k] \in Tiers

\* The container after its tools were replaced by instrumented copies.
Bind(ks, tiers) ==
    held' = [k \in Tools |-> IF k \in ks /\ ~IsInstrumented(k) THEN tiers[k] ELSE held[k]]

HeldTools == {k \in Tools : held[k] # "out"}

-----------------------------------------------------------------------------
(***************************************************************************)
(* A session and the calls made in it.                                     *)
(***************************************************************************)

\* A new UndoLogSession, or one that takes over the id it is given.
SessionFor(t, given) == IF given = NoSession THEN <<t, count[t] + 1>> ELSE given

\* UndoLogSession, run_with_session: calls find the session in the context.
OpenSession(t, session, start) ==
    /\ run' = [run EXCEPT ![t] = [at |-> "running", session |-> session, start |-> start,
                                  step |-> start, pos |-> 1]]
    /\ count' = [count EXCEPT ![t] = @ + 1]
    /\ origin' = [origin EXCEPT ![t] = IF count[t] = 0 THEN start ELSE @]
    /\ overlapped' = overlapped \cup {u \in Turns : Active(u) /\ u # t}
                                \cup (IF \E u \in Turns \ {t} : Active(u) THEN {t} ELSE {})

CurrentTool(t) == Plan[t][run[t].pos]
CallsLeft(t) == run[t].pos <= Len(Plan[t])

\* UndoLogSession.next_step: the counter is advanced before the intercept.
NextStep(t) == run[t].step + 1
Key(t, step) == <<run[t].session, step, CurrentTool(t)>>

Advance(t, at, step, moves) ==
    run' = [run EXCEPT ![t].at = at, ![t].step = step, ![t].pos = @ + moves]

\* The wrapper of a safe tool, and a tool that was not wrapped, call through.
CallThrough(t) ==
    /\ run[t].at = "running" /\ CallsLeft(t)
    /\ held[CurrentTool(t)] \in {"safe", "raw"}
    /\ Advance(t, "running", run[t].step, 1)
    /\ bypassed' = IF held[CurrentTool(t)] = "raw" THEN bypassed \cup {CurrentTool(t)} ELSE bypassed
    /\ UNCHANGED <<kind, held, facade, resume, count, origin, overlapped,
                   awaiting, recorded, completed, again>>

\* The intercept of any other tool is answered with a replay or with leave
\* to run; for an approval the run ends, which is the facade's business.
InterceptCall(t) ==
    /\ run[t].at = "running" /\ CallsLeft(t)
    /\ held[CurrentTool(t)] \in {"compensable", "irreversible"}
    /\ \/ Key(t, NextStep(t)) \in recorded /\ Advance(t, "running", NextStep(t), 1)
       \/ /\ Key(t, NextStep(t)) \notin recorded
          /\ held[CurrentTool(t)] = "compensable"
          /\ Advance(t, "tool", NextStep(t), 0)
    /\ UNCHANGED <<kind, held, facade, resume, count, origin, overlapped, log>>

MustWait(t) ==
    /\ run[t].at = "running" /\ CallsLeft(t)
    /\ held[CurrentTool(t)] = "irreversible"
    /\ Key(t, NextStep(t)) \notin recorded

Ran(t) == again' = again \cup ({<<t, run[t].pos>>} \cap completed)

\* The tool body completes and its result is committed.  (A sync tool runs,
\* but awaiting its result raises, so it is never recorded.)
RunTool(t) ==
    /\ run[t].at = "tool"
    /\ RequireAsyncTool(CurrentTool(t))
    /\ Ran(t)
    /\ recorded' = recorded \cup {Key(t, run[t].step)}
    /\ completed' = completed \cup {<<t, run[t].pos>>}
    /\ Advance(t, "running", run[t].step, 1)
    /\ UNCHANGED <<kind, held, facade, resume, count, origin, overlapped, awaiting, bypassed>>

\* A human, through the proxy: an approved call is executed and recorded
\* there; a refused one is forgotten, and asks again.
DecideRequest ==
    /\ \E key \in awaiting :
          /\ awaiting' = awaiting \ {key}
          /\ recorded' \in {recorded, recorded \cup {key}}
    /\ UNCHANGED <<kind, held, runs, completed, again, bypassed>>
=============================================================================
