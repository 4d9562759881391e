---------------------------- MODULE ApprovalView ----------------------------
(***************************************************************************)
(* The proxy's in-memory view of approval requests                         *)
(* (services/undolog-proxy/internal/approval): the store the dashboard     *)
(* reads, the decision handler that resolves a record and then asks the    *)
(* engine, the tool-call handler that creates records, the reconciler that *)
(* copies the engine's pending requests into it and sweeps it, and the     *)
(* restart that empties it.                                                *)
(*                                                                         *)
(* The engine, detailed in EffectEngine, is here the status it has for a   *)
(* request: it decides a pending request once.  Its answer can be lost,    *)
(* it can refuse or be unreachable, and others (a second proxy, the        *)
(* timeout processor) decide there too.                                    *)
(***************************************************************************)
EXTENDS Integers, FiniteSets

CONSTANTS
    Ids,            \* approval requests
    Orgs,           \* organizations of the trusted API keys
    OrgOf,          \* the organization of a request
    Deciders,       \* goroutines of the decision handler
    MaxDecisions,   \* bound: decisions humans send
    MaxRestarts     \* bound: restarts of the proxy

ASSUME ViewAssumption ==
    /\ OrgOf \in [Ids -> Orgs]
    /\ MaxDecisions \in Nat
    /\ MaxRestarts \in Nat

Decided == {"approved", "rejected"}

VARIABLES
    engine,     \* the engine's status of a request
    call,       \* the tool call behind it: not made, answered, over
    old,        \* requests created longer ago than the retention
    rec,        \* Store.records: the status of the record, if there is one
    oldDecision,\* records whose ResolvedAt is longer ago than the retention
    dpc,        \* where a decision handler is
    did,        \* the request it decides
    want,       \* the decision it carries
    serving,    \* the startup pass is over
    todo,       \* organizations this pass has still to list
    batch,      \* listed requests still to be upserted
    active,     \* requests this pass found pending
    failed,     \* organizations whose listing failed in this pass
    waiting,    \* the reconciler waits for its ticker
    decisions,  \* decisions sent so far
    restarts    \* restarts so far

storeVars    == <<rec, oldDecision>>
deciderVars  == <<dpc, did, want, decisions>>
passVars     == <<serving, todo, batch, active, failed, waiting>>
vars == <<engine, call, old, storeVars, deciderVars, passVars, restarts>>

None == "none"

ViewTypeOK ==
    /\ engine \in [Ids -> {"none", "pending", "timed_out"} \cup Decided]
    /\ call \in [Ids -> {"new", "answered", "over"}]
    /\ old \in SUBSET Ids
    /\ rec \in [Ids -> {"absent", "pending"} \cup Decided]
    /\ oldDecision \in SUBSET Ids
    /\ dpc \in [Deciders -> {"idle", "engine", "restore"}]
    /\ did \in [Deciders -> Ids \cup {None}]
    /\ want \in [Deciders -> Decided]
    /\ serving \in BOOLEAN
    /\ todo \in SUBSET Orgs
    /\ batch \in SUBSET Ids
    /\ active \in SUBSET Ids
    /\ failed \in SUBSET Orgs
    /\ waiting \in BOOLEAN
    /\ decisions \in 0..MaxDecisions
    /\ restarts \in 0..MaxRestarts

Init ==
    /\ engine = [i \in Ids |-> "none"]
    /\ call = [i \in Ids |-> "new"]
    /\ old = {}
    /\ rec = [i \in Ids |-> "absent"]
    /\ oldDecision = {}
    /\ dpc = [d \in Deciders |-> "idle"]
    /\ did = [d \in Deciders |-> None]
    /\ want = [d \in Deciders |-> "approved"]
    /\ serving = FALSE
    /\ todo = Orgs
    /\ batch = {}
    /\ active = {}
    /\ failed = {}
    /\ waiting = FALSE
    /\ decisions = 0
    /\ restarts = 0

-----------------------------------------------------------------------------
(* The store: each operation is one critical section of its mutex.         *)

Put(i, status) ==
    /\ rec' = [rec EXCEPT ![i] = status]
    /\ oldDecision' = oldDecision \ {i}

\* An existing record is overwritten.
Create(i) == Put(i, "pending")

CompareAndSwap(i, from, to) == rec[i] = from /\ Put(i, to)

\* Faulty variant: the decision stays.
RestorePendingNever(i) == UNCHANGED storeVars

RestorePending(i) ==
    IF rec[i] \in Decided THEN Put(i, "pending") ELSE UNCHANGED storeVars

\* Faulty variant: only records that are there are refreshed.
UpsertKnown(i) ==
    IF rec[i] = "pending" THEN Put(i, "pending") ELSE UNCHANGED storeVars

UpsertPending(i) ==
    IF rec[i] \in Decided THEN UNCHANGED storeVars ELSE Put(i, "pending")

\* Faulty variants: a failed lookup counts as an empty one; pending records stay.
SweepableFailed(i) ==
    /\ i \notin active
    /\ \/ rec[i] = "pending" /\ i \in old
       \/ rec[i] \in Decided /\ i \in oldDecision

SweepableDecided(i) ==
    /\ i \notin active
    /\ OrgOf[i] \notin failed
    /\ rec[i] \in Decided /\ i \in oldDecision

Sweepable(i) ==
    /\ i \notin active
    /\ OrgOf[i] \notin failed
    /\ \/ rec[i] = "pending" /\ i \in old
       \/ rec[i] \in Decided /\ i \in oldDecision

-----------------------------------------------------------------------------
(* The tool-call handler: the engine parks the call, its answer comes back *)
(* and becomes a record, or is lost.                                       *)

Park(i) ==
    /\ serving
    /\ call[i] = "new"
    /\ engine' = [engine EXCEPT ![i] = "pending"]
    /\ call' = [call EXCEPT ![i] = "answered"]
    /\ UNCHANGED <<old, storeVars, deciderVars, passVars, restarts>>

CreatePending(i) ==
    /\ call[i] = "answered"
    /\ call' = [call EXCEPT ![i] = "over"]
    /\ Create(i)
    /\ UNCHANGED <<engine, old, deciderVars, passVars, restarts>>

AnswerLost(i) ==
    /\ call[i] = "answered"
    /\ call' = [call EXCEPT ![i] = "over"]
    /\ UNCHANGED <<engine, old, storeVars, deciderVars, passVars, restarts>>

-----------------------------------------------------------------------------
(* resolveDecision.  A decision that finds no pending record is answered   *)
(* 404 or 409 and changes nothing.                                         *)

Claim(d, i, target) ==
    /\ serving
    /\ dpc[d] = "idle"
    /\ decisions < MaxDecisions
    /\ CompareAndSwap(i, "pending", target)
    /\ dpc' = [dpc EXCEPT ![d] = "engine"]
    /\ did' = [did EXCEPT ![d] = i]
    /\ want' = [want EXCEPT ![d] = target]
    /\ decisions' = decisions + 1
    /\ UNCHANGED <<engine, call, old, passVars, restarts>>

\* The engine applies the decision; the handler hears of it, or only an error.
Decide(d, heard) ==
    /\ dpc[d] = "engine"
    /\ engine[did[d]] = "pending"
    /\ engine' = [engine EXCEPT ![did[d]] = want[d]]
    /\ IF heard
       THEN dpc' = [dpc EXCEPT ![d] = "idle"] /\ did' = [did EXCEPT ![d] = None]
       ELSE dpc' = [dpc EXCEPT ![d] = "restore"] /\ UNCHANGED did
    /\ UNCHANGED <<call, old, storeVars, want, decisions, passVars, restarts>>

\* The engine refuses, is busy or cannot be reached.
DecideFails(d) ==
    /\ dpc[d] = "engine"
    /\ dpc' = [dpc EXCEPT ![d] = "restore"]
    /\ UNCHANGED <<engine, call, old, storeVars, did, want, decisions, passVars, restarts>>

Restore(d) ==
    /\ dpc[d] = "restore"
    /\ RestorePending(did[d])
    /\ dpc' = [dpc EXCEPT ![d] = "idle"]
    /\ did' = [did EXCEPT ![d] = None]
    /\ UNCHANGED <<engine, call, old, want, decisions, passVars, restarts>>

-----------------------------------------------------------------------------
(* ReconcileApprovals and RunApprovalReconciler                            *)

StartPass == todo' = Orgs /\ active' = {} /\ failed' = {}

ListPending(o) ==
    /\ ~waiting
    /\ o \in todo /\ batch = {}
    /\ batch' = {i \in Ids : OrgOf[i] = o /\ engine[i] = "pending"}
    /\ active' = active \cup batch'
    /\ todo' = todo \ {o}
    /\ UNCHANGED <<engine, call, old, storeVars, deciderVars, serving, failed, waiting, restarts>>

ListFails(o) ==
    /\ ~waiting
    /\ o \in todo /\ batch = {}
    /\ failed' = failed \cup {o}
    /\ todo' = todo \ {o}
    /\ UNCHANGED <<engine, call, old, storeVars, deciderVars, serving, batch, active, waiting,
                   restarts>>

Upsert(i) ==
    /\ i \in batch
    /\ UpsertPending(i)
    /\ batch' = batch \ {i}
    /\ UNCHANGED <<engine, call, old, deciderVars, serving, todo, active, failed, waiting,
                   restarts>>

\* The startup pass does not sweep; the first one of the loop follows at once.
Serve ==
    /\ ~serving
    /\ todo = {} /\ batch = {}
    /\ serving' = TRUE
    /\ StartPass
    /\ UNCHANGED <<engine, call, old, storeVars, deciderVars, batch, waiting, restarts>>

Sweep ==
    /\ serving /\ ~waiting
    /\ todo = {} /\ batch = {}
    /\ rec' = [i \in Ids |-> IF Sweepable(i) THEN "absent" ELSE rec[i]]
    /\ oldDecision' = {i \in oldDecision : ~Sweepable(i)}
    /\ waiting' = TRUE
    /\ UNCHANGED <<engine, call, old, deciderVars, serving, todo, batch, active, failed,
                   restarts>>

Tick ==
    /\ waiting
    /\ waiting' = FALSE
    /\ StartPass
    /\ UNCHANGED <<engine, call, old, storeVars, deciderVars, serving, batch, restarts>>

-----------------------------------------------------------------------------
(* Others decide at the engine: another proxy, the timeout processor.      *)
DecidedElsewhere(i, status) ==
    /\ engine[i] = "pending"
    /\ engine' = [engine EXCEPT ![i] = status]
    /\ UNCHANGED <<call, old, storeVars, deciderVars, passVars, restarts>>

\* The retention (a day) is longer than a pass and than a request's timeout.
Age(i) ==
    /\ waiting \/ ~serving
    /\ call[i] = "over" /\ i \notin old
    /\ old' = old \cup {i}
    /\ UNCHANGED <<engine, call, storeVars, deciderVars, passVars, restarts>>

AgeDecision(i) ==
    /\ waiting
    /\ rec[i] \in Decided /\ i \notin oldDecision
    /\ \A d \in Deciders : did[d] # i
    /\ oldDecision' = oldDecision \cup {i}
    /\ UNCHANGED <<engine, call, old, rec, deciderVars, passVars, restarts>>

\* The process dies; everything in memory is gone, handlers included.
Restart ==
    /\ restarts < MaxRestarts
    /\ restarts' = restarts + 1
    /\ rec' = [i \in Ids |-> "absent"]
    /\ oldDecision' = {}
    /\ call' = [i \in Ids |-> IF call[i] = "answered" THEN "over" ELSE call[i]]
    /\ dpc' = [d \in Deciders |-> "idle"]
    /\ did' = [d \in Deciders |-> None]
    /\ serving' = FALSE
    /\ waiting' = FALSE
    /\ batch' = {}
    /\ StartPass
    /\ UNCHANGED <<engine, old, want, decisions>>

-----------------------------------------------------------------------------
ToolCall(i) == Park(i) \/ CreatePending(i) \/ AnswerLost(i)

Finish(d) == Decide(d, TRUE) \/ Decide(d, FALSE) \/ DecideFails(d) \/ Restore(d)

Decision(d) == (\E i \in Ids, target \in Decided : Claim(d, i, target)) \/ Finish(d)

Pass ==
    \/ \E o \in Orgs : ListPending(o) \/ ListFails(o)
    \/ \E i \in Ids : Upsert(i)
    \/ Serve
    \/ Sweep
    \/ Tick

Next ==
    \/ \E i \in Ids : ToolCall(i) \/ Age(i) \/ AgeDecision(i)
    \/ \E d \in Deciders : Decision(d)
    \/ \E i \in Ids, status \in Decided \cup {"timed_out"} : DecidedElsewhere(i, status)
    \/ Pass
    \/ Restart

ViewSpec == Init /\ [][Next]_vars

\* Handlers and the reconciler are scheduled, time passes, and the engine
\* answers a listing now and then.
FairViewSpec ==
    /\ ViewSpec
    /\ WF_vars(Pass)
    /\ \A o \in Orgs : SF_vars(ListPending(o))
    /\ \A i \in Ids : /\ WF_vars(CreatePending(i) \/ AnswerLost(i))
                      /\ SF_vars(Age(i))
                      /\ SF_vars(AgeDecision(i))
    /\ \A d \in Deciders : WF_vars(Finish(d))

-----------------------------------------------------------------------------
InFlight(d, i) == dpc[d] \in {"engine", "restore"} /\ did[d] = i

(* A record the dashboard shows as decided is decided that way in the engine,
   or a handler that will put it back if the engine says no is on its way:
   also when decisions, the creation of the record, the reconciler and lost
   answers overlap. *)
LocalDecisionReal ==
    \A i \in Ids : rec[i] \in Decided =>
        engine[i] = rec[i] \/ \E d \in Deciders : InFlight(d, i) /\ want[d] = rec[i]

(* "a still-decidable approval never flickers out of the dashboard" (Sweep):
   only a restart drops the record of a request that the engine still has
   pending. *)
SweepKeepsDecidable ==
    [][\A i \in Ids : rec[i] # "absent" /\ rec'[i] = "absent" /\ engine[i] = "pending"
                          => ~serving']_vars

(* "so a proxy restart does not orphan pending approvals" (Start): a request
   that stays pending in the engine is in the view from some point on, though
   answers are lost, listings fail and the proxy restarts. *)
NotOrphaned ==
    \A i \in Ids : <>[](engine[i] = "pending") => <>[](rec[i] # "absent")

(* "keeps the in-memory store bounded" (Sweep): the record of a request the
   engine has decided, or let time out, goes away for good, stale pending
   records included. *)
Forgets ==
    \A i \in Ids :
        <>[](engine[i] \in Decided \cup {"timed_out"}) => <>[](rec[i] = "absent")
=============================================================================
