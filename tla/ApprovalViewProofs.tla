-------------------------- MODULE ApprovalViewProofs --------------------------
(***************************************************************************)
(* For every set of requests, organizations and decision handlers: decided *)
(* records are real, and the sweep drops nothing that can still be decided. *)
(***************************************************************************)
EXTENDS ApprovalView, TLAPS

\* A request exists once its call was made, and ages after that; a handler
\* that is under way has a request.
Shape ==
    /\ \A i \in Ids : call[i] = "new" => engine[i] = "none"
    /\ \A i \in Ids : i \in old => call[i] = "over"
    /\ \A d \in Deciders : dpc[d] # "idle" => did[d] \in Ids

\* A decision older than the retention is the engine's.
OldDecisionReal ==
    \A i \in Ids : i \in oldDecision => rec[i] \in Decided /\ engine[i] = rec[i]

\* What this pass has listed without finding it pending is not both pending
\* and old: it came after the listing.
Listed(i) == OrgOf[i] \notin todo /\ OrgOf[i] \notin failed /\ i \notin active

ListingFresh ==
    \A i \in Ids : serving /\ ~waiting /\ Listed(i) /\ engine[i] = "pending" => i \notin old

(* The inductive invariant: the types, and how records, decisions, listings
   and ages hang together. *)
ViewInv ==
    /\ ViewTypeOK
    /\ Shape
    /\ LocalDecisionReal
    /\ OldDecisionReal
    /\ ListingFresh

-----------------------------------------------------------------------------
LEMMA ViewInitInv == Init => ViewInv
<1> SUFFICES ASSUME Init PROVE ViewInv
  OBVIOUS
<1>1. serving \in BOOLEAN /\ waiting \in BOOLEAN
  BY Zenon DEF Init
<1>2. ViewTypeOK
  BY <1>1, ViewAssumption DEF ViewAssumption, Init, ViewTypeOK, Decided
<1> QED BY <1>2 DEF Init, ViewInv, Shape, LocalDecisionReal, OldDecisionReal, ListingFresh,
                    Decided

\* What an operation of the store does to the record of one request.
LEMMA PutDoes ==
    ASSUME ViewTypeOK, NEW i \in Ids, NEW status \in {"pending"} \cup Decided, Put(i, status)
    PROVE  /\ rec' \in [Ids -> {"absent", "pending"} \cup Decided]
           /\ oldDecision' \in SUBSET Ids
           /\ \A j \in Ids : rec'[j] = IF j = i THEN status ELSE rec[j]
           /\ \A j \in Ids : j \in oldDecision' <=> j # i /\ j \in oldDecision
BY DEF ViewTypeOK, Put

LEMMA ToolCallStep ==
    ASSUME ViewInv, NEW i \in Ids, ToolCall(i)
    PROVE  ViewInv'
<1> USE DEF ViewInv
<1>1. CASE Park(i)
  <2>1. UNCHANGED <<old, rec, oldDecision, dpc, did, want, decisions, serving, todo, batch,
                    active, failed, waiting, restarts>>
    BY <1>1 DEF Park, storeVars, deciderVars, passVars
  <2>2. /\ engine' \in [Ids -> {"none", "pending", "timed_out"} \cup Decided]
        /\ call' \in [Ids -> {"new", "answered", "over"}]
        /\ call[i] = "new" /\ engine[i] = "none" /\ i \notin old
        /\ \A j \in Ids : engine'[j] = IF j = i THEN "pending" ELSE engine[j]
        /\ \A j \in Ids : call'[j] = IF j = i THEN "answered" ELSE call[j]
    BY <1>1 DEF Park, ViewTypeOK, Shape
  <2>3. ViewTypeOK'
    BY <2>1, <2>2 DEF ViewTypeOK
  <2>4. Shape' /\ OldDecisionReal' /\ ListingFresh'
    BY <2>1, <2>2 DEF Shape, OldDecisionReal, ListingFresh, Listed, Decided
  <2>5. LocalDecisionReal'
    BY <2>1, <2>2 DEF LocalDecisionReal, InFlight, Decided
  <2> QED BY <2>3, <2>4, <2>5
<1>2. CASE CreatePending(i) \/ AnswerLost(i)
  <2>1. UNCHANGED <<engine, old, dpc, did, want, decisions, serving, todo, batch, active,
                    failed, waiting, restarts>>
    BY <1>2 DEF CreatePending, AnswerLost, deciderVars, passVars
  <2>2. /\ call' \in [Ids -> {"new", "answered", "over"}]
        /\ call[i] = "answered"
        /\ \A j \in Ids : call'[j] = IF j = i THEN "over" ELSE call[j]
    BY <1>2 DEF CreatePending, AnswerLost, ViewTypeOK
  <2>3. /\ rec' \in [Ids -> {"absent", "pending"} \cup Decided]
        /\ oldDecision' \in SUBSET Ids
        /\ \A j \in Ids : rec'[j] = rec[j] \/ rec'[j] = "pending"
        /\ \A j \in Ids : j \in oldDecision' => j \in oldDecision /\ rec'[j] = rec[j]
    BY <1>2, PutDoes DEF CreatePending, AnswerLost, Create, storeVars, ViewTypeOK
  <2>4. ViewTypeOK'
    BY <2>1, <2>2, <2>3 DEF ViewTypeOK
  <2>5. Shape' /\ OldDecisionReal' /\ ListingFresh'
    BY <2>1, <2>2, <2>3 DEF Shape, OldDecisionReal, ListingFresh, Listed
  <2>6. LocalDecisionReal'
    BY <2>1, <2>3 DEF LocalDecisionReal, InFlight, Decided
  <2> QED BY <2>4, <2>5, <2>6
<1> QED BY <1>1, <1>2 DEF ToolCall

LEMMA ClaimStep ==
    ASSUME ViewInv, NEW d \in Deciders, NEW i \in Ids, NEW target \in Decided,
           Claim(d, i, target)
    PROVE  ViewInv'
<1> USE DEF ViewInv
<1>1. UNCHANGED <<engine, call, old, serving, todo, batch, active, failed, waiting, restarts>>
  BY DEF Claim, passVars
<1>2. /\ rec' \in [Ids -> {"absent", "pending"} \cup Decided]
      /\ oldDecision' \in SUBSET Ids
      /\ \A j \in Ids : rec'[j] = IF j = i THEN target ELSE rec[j]
      /\ \A j \in Ids : j \in oldDecision' <=> j # i /\ j \in oldDecision
  BY PutDoes DEF Claim, CompareAndSwap
<1>3. /\ dpc' \in [Deciders -> {"idle", "engine", "restore"}]
      /\ did' \in [Deciders -> Ids \cup {None}]
      /\ want' \in [Deciders -> Decided]
      /\ dpc[d] = "idle" /\ dpc'[d] = "engine" /\ did'[d] = i /\ want'[d] = target
      /\ \A e \in Deciders : e # d =>
            dpc'[e] = dpc[e] /\ did'[e] = did[e] /\ want'[e] = want[e]
  BY DEF Claim, ViewTypeOK
<1>4. decisions' \in 0..MaxDecisions
  BY ViewAssumption DEF ViewAssumption, Claim, ViewTypeOK
<1>5. ViewTypeOK'
  BY <1>1, <1>2, <1>3, <1>4 DEF ViewTypeOK
<1>6. Shape' /\ OldDecisionReal' /\ ListingFresh'
  BY <1>1, <1>2, <1>3 DEF Shape, OldDecisionReal, ListingFresh, Listed
<1>7. LocalDecisionReal'
  <2> SUFFICES ASSUME NEW j \in Ids, rec'[j] \in Decided
               PROVE  \/ engine'[j] = rec'[j]
                      \/ \E e \in Deciders : InFlight(e, j)' /\ want'[e] = rec'[j]
    BY DEF LocalDecisionReal
  <2>1. CASE j = i
    BY <1>2, <1>3, <2>1 DEF InFlight
  <2>2. CASE j # i
    BY <1>1, <1>2, <1>3, <2>2 DEF LocalDecisionReal, InFlight
  <2> QED BY <2>1, <2>2
<1> QED BY <1>5, <1>6, <1>7

\* The engine decides a pending request as the handler wanted, or not at all.
LEMMA DecideStep ==
    ASSUME ViewInv, NEW d \in Deciders, NEW heard \in BOOLEAN,
           Decide(d, heard) \/ DecideFails(d)
    PROVE  ViewInv'
<1> USE DEF ViewInv
<1>1. UNCHANGED <<call, old, rec, oldDecision, want, decisions, serving, todo, batch, active,
                  failed, waiting, restarts>>
  BY DEF Decide, DecideFails, storeVars, passVars
<1>2. /\ dpc[d] = "engine" /\ did[d] \in Ids
      /\ dpc' \in [Deciders -> {"idle", "engine", "restore"}]
      /\ did' \in [Deciders -> Ids \cup {None}]
      /\ dpc'[d] # "idle" => dpc'[d] = "restore" /\ did'[d] = did[d]
      /\ \A e \in Deciders : e # d => dpc'[e] = dpc[e] /\ did'[e] = did[e]
  <2>1. dpc[d] = "engine" /\ did[d] \in Ids
    BY DEF Decide, DecideFails, Shape
  <2> QED BY <2>1 DEF Decide, DecideFails, ViewTypeOK
<1>3. /\ engine' \in [Ids -> {"none", "pending", "timed_out"} \cup Decided]
      /\ \/ engine[did[d]] = "pending" /\ engine'[did[d]] = want[d]
         \/ dpc'[d] = "restore" /\ engine'[did[d]] = engine[did[d]]
      /\ \A j \in Ids : j # did[d] => engine'[j] = engine[j]
  BY <1>2 DEF Decide, DecideFails, ViewTypeOK
<1>4. want[d] \in Decided /\ "pending" \notin Decided
  BY DEF ViewTypeOK, Decided
<1>5. ViewTypeOK'
  BY <1>1, <1>2, <1>3 DEF ViewTypeOK
<1>6. Shape' /\ OldDecisionReal' /\ ListingFresh'
  BY <1>1, <1>2, <1>3, <1>4 DEF Shape, OldDecisionReal, ListingFresh, Listed
<1>7. LocalDecisionReal'
  <2> SUFFICES ASSUME NEW j \in Ids, rec[j] \in Decided
               PROVE  \/ engine'[j] = rec[j]
                      \/ \E e \in Deciders : InFlight(e, j)' /\ want[e] = rec[j]
    BY <1>1 DEF LocalDecisionReal
  <2>1. CASE engine[j] = rec[j]
    BY <1>3, <1>4, <2>1
  <2>2. CASE \E e \in Deciders : InFlight(e, j) /\ want[e] = rec[j]
    <3>1. PICK e \in Deciders : InFlight(e, j) /\ want[e] = rec[j]
      BY <2>2
    <3>2. CASE e # d
      BY <1>2, <3>1, <3>2 DEF InFlight
    <3>3. CASE e = d
      BY <1>2, <1>3, <3>1, <3>3 DEF InFlight
    <3> QED BY <3>2, <3>3
  <2> QED BY <2>1, <2>2 DEF LocalDecisionReal
<1> QED BY <1>5, <1>6, <1>7

LEMMA RestoreStep ==
    ASSUME ViewInv, NEW d \in Deciders, Restore(d)
    PROVE  ViewInv'
<1> USE DEF ViewInv
<1>1. UNCHANGED <<engine, call, old, want, decisions, serving, todo, batch, active, failed,
                  waiting, restarts>>
  BY DEF Restore, passVars
<1>2. /\ dpc[d] = "restore" /\ did[d] \in Ids
      /\ dpc' \in [Deciders -> {"idle", "engine", "restore"}]
      /\ did' \in [Deciders -> Ids \cup {None}]
      /\ dpc'[d] = "idle"
      /\ \A e \in Deciders : e # d => dpc'[e] = dpc[e] /\ did'[e] = did[e]
  BY DEF Restore, Shape, ViewTypeOK
<1>3. /\ rec' \in [Ids -> {"absent", "pending"} \cup Decided]
      /\ oldDecision' \in SUBSET Ids
      /\ rec'[did[d]] \notin Decided
      /\ \A j \in Ids : j # did[d] => rec'[j] = rec[j]
      /\ \A j \in Ids : j \in oldDecision' => j \in oldDecision /\ rec'[j] = rec[j]
  <2>1. CASE rec[did[d]] \in Decided
    BY <1>2, <2>1, PutDoes DEF Restore, RestorePending, Decided
  <2>2. CASE rec[did[d]] \notin Decided
    BY <1>2, <2>2 DEF Restore, RestorePending, storeVars, ViewTypeOK
  <2> QED BY <2>1, <2>2
<1>4. ViewTypeOK'
  BY <1>1, <1>2, <1>3 DEF ViewTypeOK
<1>5. Shape' /\ OldDecisionReal' /\ ListingFresh'
  BY <1>1, <1>2, <1>3 DEF Shape, OldDecisionReal, ListingFresh, Listed
<1>6. LocalDecisionReal'
  <2> SUFFICES ASSUME NEW j \in Ids, rec'[j] \in Decided
               PROVE  \/ engine[j] = rec'[j]
                      \/ \E e \in Deciders : InFlight(e, j)' /\ want[e] = rec'[j]
    BY <1>1 DEF LocalDecisionReal
  <2>1. j # did[d] /\ rec'[j] = rec[j]
    BY <1>3
  <2> QED BY <1>2, <2>1 DEF LocalDecisionReal, InFlight
<1> QED BY <1>4, <1>5, <1>6

\* Listing, upserting, serving and waiting: at most absent becomes pending.
LEMMA ReconcileStep ==
    ASSUME ViewInv,
           \/ \E o \in Orgs : ListPending(o) \/ ListFails(o)
           \/ \E i \in Ids : Upsert(i)
           \/ Serve \/ Tick
    PROVE  ViewInv'
<1> USE DEF ViewInv
<1>1. UNCHANGED <<engine, call, old, dpc, did, want, decisions, restarts>>
  BY DEF ListPending, ListFails, Upsert, Serve, Tick, deciderVars
<1>2. /\ rec' \in [Ids -> {"absent", "pending"} \cup Decided]
      /\ oldDecision' \in SUBSET Ids
      /\ \A j \in Ids : rec'[j] = rec[j] \/ rec'[j] = "pending"
      /\ \A j \in Ids : j \in oldDecision' => j \in oldDecision /\ rec'[j] = rec[j]
  <2>1. CASE UNCHANGED storeVars
    BY <2>1 DEF storeVars, ViewTypeOK
  <2>2. ASSUME NEW i \in Ids, Put(i, "pending")
        PROVE  /\ rec' \in [Ids -> {"absent", "pending"} \cup Decided]
               /\ oldDecision' \in SUBSET Ids
               /\ \A j \in Ids : rec'[j] = rec[j] \/ rec'[j] = "pending"
               /\ \A j \in Ids : j \in oldDecision' => j \in oldDecision /\ rec'[j] = rec[j]
    BY <2>2, PutDoes
  <2> QED BY <2>1, <2>2 DEF ListPending, ListFails, Upsert, UpsertPending, Serve, Tick
<1>3. /\ serving' \in BOOLEAN /\ waiting' \in BOOLEAN
      /\ todo' \in SUBSET Orgs /\ failed' \in SUBSET Orgs
      /\ batch' \in SUBSET Ids /\ active' \in SUBSET Ids
  BY DEF ListPending, ListFails, Upsert, Serve, Tick, StartPass, ViewTypeOK
<1>4. ViewTypeOK'
  BY <1>1, <1>2, <1>3 DEF ViewTypeOK
<1>5. Shape' /\ OldDecisionReal'
  BY <1>1, <1>2 DEF Shape, OldDecisionReal
<1>6. LocalDecisionReal'
  BY <1>1, <1>2 DEF LocalDecisionReal, InFlight, Decided
<1>7. ListingFresh'
  <2>1. ASSUME NEW o \in Orgs, ListPending(o) PROVE ListingFresh'
    BY <1>1, <2>1 DEF ListPending, ListingFresh, Listed
  <2>2. ASSUME NEW o \in Orgs, ListFails(o) PROVE ListingFresh'
    BY <1>1, <2>2 DEF ListFails, ListingFresh, Listed
  <2>3. ASSUME NEW i \in Ids, Upsert(i) PROVE ListingFresh'
    BY <1>1, <2>3 DEF Upsert, ListingFresh, Listed
  <2>4. CASE Serve \/ Tick
    BY <2>4, ViewAssumption DEF ViewAssumption, Serve, Tick, StartPass, ListingFresh, Listed
  <2> QED BY <2>1, <2>2, <2>3, <2>4
<1> QED BY <1>4, <1>5, <1>6, <1>7

LEMMA SweepStep ==
    ASSUME ViewInv, Sweep
    PROVE  ViewInv'
<1> USE DEF ViewInv
<1>1. UNCHANGED <<engine, call, old, dpc, did, want, decisions, serving, todo, batch, active,
                  failed, restarts>>
  BY DEF Sweep, deciderVars
<1>2. /\ rec' \in [Ids -> {"absent", "pending"} \cup Decided]
      /\ oldDecision' \in SUBSET Ids
      /\ \A j \in Ids : rec'[j] = rec[j] \/ rec'[j] = "absent"
      /\ \A j \in Ids : j \in oldDecision' => j \in oldDecision /\ rec'[j] = rec[j]
      /\ waiting' = TRUE
  BY DEF Sweep, ViewTypeOK
<1>3. ViewTypeOK'
  BY <1>1, <1>2 DEF ViewTypeOK
<1>4. Shape' /\ OldDecisionReal' /\ ListingFresh'
  BY <1>1, <1>2 DEF Shape, OldDecisionReal, ListingFresh
<1>5. LocalDecisionReal'
  BY <1>1, <1>2 DEF LocalDecisionReal, InFlight, Decided
<1> QED BY <1>3, <1>4, <1>5

\* Decisions taken elsewhere, the passing of time, restarts and stuttering.
LEMMA WorldStep ==
    ASSUME ViewInv, NEW i \in Ids, NEW status \in Decided \cup {"timed_out"},
           DecidedElsewhere(i, status) \/ Age(i) \/ AgeDecision(i)
    PROVE  ViewInv'
<1> USE DEF ViewInv
<1>1. UNCHANGED <<call, rec, dpc, did, want, decisions, serving, todo, batch, active, failed,
                  waiting, restarts>>
  BY DEF DecidedElsewhere, Age, AgeDecision, storeVars, deciderVars, passVars
<1>2. CASE DecidedElsewhere(i, status)
  <2>1. /\ engine' \in [Ids -> {"none", "pending", "timed_out"} \cup Decided]
        /\ engine[i] = "pending" /\ engine'[i] = status /\ status # "pending"
        /\ \A j \in Ids : j # i => engine'[j] = engine[j]
        /\ UNCHANGED <<old, oldDecision>>
    BY <1>2 DEF DecidedElsewhere, ViewTypeOK, storeVars, Decided
  <2>2. ViewTypeOK'
    BY <1>1, <2>1 DEF ViewTypeOK
  <2>3. Shape' /\ OldDecisionReal' /\ ListingFresh'
    BY <1>1, <2>1 DEF Shape, OldDecisionReal, ListingFresh, Listed, Decided
  <2>4. LocalDecisionReal'
    BY <1>1, <2>1 DEF LocalDecisionReal, InFlight, Decided
  <2> QED BY <2>2, <2>3, <2>4
<1>3. CASE Age(i)
  <2>1. UNCHANGED <<engine, oldDecision>> /\ old' = old \cup {i}
    BY <1>3 DEF Age, storeVars
  <2>2. call[i] = "over" /\ (waiting \/ ~serving)
    BY <1>3 DEF Age
  <2> QED BY <1>1, <2>1, <2>2 DEF ViewTypeOK, Shape, OldDecisionReal, ListingFresh, Listed,
                                  LocalDecisionReal, InFlight
<1>4. CASE AgeDecision(i)
  <2>1. UNCHANGED <<engine, old>> /\ oldDecision' = oldDecision \cup {i}
    BY <1>4 DEF AgeDecision
  <2>2. rec[i] \in Decided /\ engine[i] = rec[i]
    BY <1>4 DEF AgeDecision, LocalDecisionReal, InFlight
  <2> QED BY <1>1, <2>1, <2>2 DEF ViewTypeOK, Shape, OldDecisionReal, ListingFresh, Listed,
                                  LocalDecisionReal, InFlight
<1> QED BY <1>2, <1>3, <1>4

LEMMA RestartStep ==
    ASSUME ViewInv, Restart
    PROVE  ViewInv'
<1> USE DEF ViewInv
<1>1. UNCHANGED <<engine, old, want, decisions>>
  BY DEF Restart
<1>2. /\ rec' = [i \in Ids |-> "absent"] /\ oldDecision' = {}
      /\ dpc' = [d \in Deciders |-> "idle"] /\ did' = [d \in Deciders |-> None]
      /\ serving' = FALSE /\ waiting' = FALSE
      /\ todo' = Orgs /\ batch' = {} /\ active' = {} /\ failed' = {}
  BY DEF Restart, StartPass
<1>3. /\ call' \in [Ids -> {"new", "answered", "over"}]
      /\ \A i \in Ids : call'[i] = call[i] \/ call'[i] = "over"
      /\ \A i \in Ids : call'[i] = "new" => call[i] = "new"
  BY DEF Restart, ViewTypeOK
<1>4. restarts' \in 0..MaxRestarts
  BY ViewAssumption DEF ViewAssumption, Restart, ViewTypeOK
<1>5. ViewTypeOK'
  <2>1. serving' \in BOOLEAN /\ waiting' \in BOOLEAN
    BY <1>2
  <2> QED BY <1>1, <1>2, <1>3, <1>4, <2>1 DEF ViewTypeOK
<1>6. Shape' /\ OldDecisionReal' /\ ListingFresh' /\ LocalDecisionReal'
  BY <1>1, <1>2, <1>3 DEF Shape, OldDecisionReal, ListingFresh, LocalDecisionReal, Decided
<1> QED BY <1>5, <1>6

LEMMA ViewNextInv == ViewInv /\ [Next]_vars => ViewInv'
<1> SUFFICES ASSUME ViewInv, [Next]_vars PROVE ViewInv'
  OBVIOUS
<1>1. ASSUME NEW d \in Deciders, Decision(d) PROVE ViewInv'
  BY <1>1, ClaimStep, DecideStep, RestoreStep DEF Decision, Finish
<1>2. CASE Pass
  BY <1>2, ReconcileStep, SweepStep DEF Pass
<1>3. ASSUME NEW i \in Ids, ToolCall(i) \/ Age(i) \/ AgeDecision(i) PROVE ViewInv'
  BY <1>3, ToolCallStep, WorldStep
<1>4. CASE UNCHANGED vars
  BY <1>4 DEF vars, storeVars, deciderVars, passVars, ViewInv, ViewTypeOK, Shape,
              OldDecisionReal, ListingFresh, Listed, LocalDecisionReal, InFlight
<1> QED BY <1>1, <1>2, <1>3, <1>4, WorldStep, RestartStep DEF Next

-----------------------------------------------------------------------------
(* ViewInv holds however calls, decisions, passes, restarts and lost answers
   interleave. *)
THEOREM ViewInvariance == ViewSpec => []ViewInv
BY ViewInitInv, ViewNextInv, PTL DEF ViewSpec

(* What the store shows as decided is decided in the engine, or its handler is
   still there to put it back: CompareAndSwap, RestorePending and
   UpsertPending. *)
THEOREM DecisionsReal == ViewSpec => []LocalDecisionReal
<1>1. ViewInv => LocalDecisionReal
  BY DEF ViewInv
<1> QED BY <1>1, ViewInvariance, PTL

\* Nothing but a sweep or a restart makes a record absent.
LEMMA OnlySweepDrops ==
    ASSUME ViewInv, [Next]_vars, ~Sweep, ~Restart, NEW i \in Ids, rec[i] # "absent"
    PROVE  rec'[i] # "absent"
<1>1. ASSUME NEW j \in Ids, NEW status \in {"pending"} \cup Decided, Put(j, status)
      PROVE  rec'[i] # "absent"
  <2>1. rec'[i] = IF i = j THEN status ELSE rec[i]
    BY <1>1, PutDoes DEF ViewInv
  <2> QED BY <2>1 DEF Decided
<1>2. CASE UNCHANGED rec
  BY <1>2
<1>3. CASE UNCHANGED vars
  BY <1>3 DEF vars, storeVars
<1>4. ASSUME NEW j \in Ids, ToolCall(j) \/ Age(j) \/ AgeDecision(j) PROVE rec'[i] # "absent"
  BY <1>1, <1>2, <1>4 DEF ToolCall, Park, CreatePending, Create, AnswerLost, Age, AgeDecision,
                          storeVars
<1>5. ASSUME NEW d \in Deciders, Decision(d) PROVE rec'[i] # "absent"
  <2>1. ASSUME NEW j \in Ids, NEW target \in Decided, Claim(d, j, target)
        PROVE  rec'[i] # "absent"
    BY <1>1, <2>1 DEF Claim, CompareAndSwap
  <2>2. CASE Decide(d, TRUE) \/ Decide(d, FALSE) \/ DecideFails(d)
    BY <1>2, <2>2 DEF Decide, DecideFails, storeVars
  <2>3. CASE Restore(d)
    <3>1. did[d] \in Ids
      BY <2>3 DEF Restore, ViewInv, Shape
    <3> QED BY <1>1, <1>2, <2>3, <3>1 DEF Restore, RestorePending, storeVars
  <2> QED BY <1>5, <2>1, <2>2, <2>3 DEF Decision, Finish
<1>6. CASE Pass
  <2>1. ASSUME NEW j \in Ids, Upsert(j) PROVE rec'[i] # "absent"
    BY <1>1, <1>2, <2>1 DEF Upsert, UpsertPending, storeVars
  <2> QED BY <1>2, <1>6, <2>1 DEF Pass, ListPending, ListFails, Serve, Tick, storeVars
<1>7. ASSUME NEW j \in Ids, NEW status \in Decided \cup {"timed_out"},
             DecidedElsewhere(j, status)
      PROVE  rec'[i] # "absent"
  BY <1>2, <1>7 DEF DecidedElsewhere, storeVars
<1> QED BY <1>3, <1>4, <1>5, <1>6, <1>7 DEF Next

(* The sweep never drops the record of a request the engine still has pending:
   what active and failedOrgs are for. *)
THEOREM SweepSafe == ViewSpec => SweepKeepsDecidable
<1> DEFINE Kept == \A i \in Ids : rec[i] # "absent" /\ rec'[i] = "absent"
                                      /\ engine[i] = "pending" => ~serving'
<1>1. ViewInv /\ [Next]_vars => [Kept]_vars
  <2> SUFFICES ASSUME ViewInv, [Next]_vars, NEW i \in Ids, rec[i] # "absent",
                      rec'[i] = "absent", engine[i] = "pending"
               PROVE  ~serving'
    OBVIOUS
  <2>1. CASE Sweep
    <3>1. /\ i \notin active /\ OrgOf[i] \notin failed /\ todo = {} /\ serving /\ ~waiting
          /\ i \in old \/ (rec[i] \in Decided /\ i \in oldDecision)
      BY <2>1 DEF Sweep, Sweepable
    <3>2. i \notin old
      BY <3>1 DEF ViewInv, ListingFresh, Listed
    <3>3. i \notin oldDecision
      BY DEF ViewInv, OldDecisionReal, Decided
    <3> QED BY <3>1, <3>2, <3>3
  <2>2. CASE Restart
    BY <2>2 DEF Restart
  <2> QED BY <2>1, <2>2, OnlySweepDrops
<1> QED BY <1>1, ViewInvariance, PTL DEF ViewSpec, SweepKeepsDecidable
=============================================================================
