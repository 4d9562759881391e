-------------------------- MODULE EngineGuardProofs --------------------------
(***************************************************************************)
(* The guard's counters, wake-ups and half-open permit are right for every *)
(* number of calls and every cap, depth and threshold.                     *)
(***************************************************************************)
EXTENDS EngineGuard, FiniteSetTheorems, TLAPS

LEMMA Constants ==
    IsFiniteSet(Calls) /\ MaxInFlight \in Nat \ {0} /\ QueueMax \in Nat /\ Threshold \in Nat \ {0}
BY GuardAssumption DEF GuardAssumption

One(x, places) == IF x \in places THEN 1 ELSE 0

-----------------------------------------------------------------------------
\* Counting is over a finite set, and one call that moves changes it by one.
LEMMA CountType ==
    ASSUME NEW p, NEW places
    PROVE  Count(p, places) \in Nat
BY Constants, FS_Subset, FS_CardinalityType DEF Count

LEMMA CountMove ==
    ASSUME NEW p \in [Calls -> PCs], NEW c \in Calls, NEW q, NEW places
    PROVE  Count([p EXCEPT ![c] = q], places)
             = Count(p, places) + One(q, places) - One(p[c], places)
<1> DEFINE A == {d \in Calls : p[d] \in places}
           B == {d \in Calls : [p EXCEPT ![c] = q][d] \in places}
<1>1. IsFiniteSet(A) /\ IsFiniteSet(B)
  BY Constants, FS_Subset
<1>2. Cardinality(A) \in Nat
  BY <1>1, FS_CardinalityType
<1>3. \A d \in Calls : d # c => (d \in B <=> d \in A)
  OBVIOUS
<1>4. (c \in A <=> p[c] \in places) /\ (c \in B <=> q \in places)
  OBVIOUS
<1>5. CASE p[c] \in places /\ q \in places
  <2>1. A = B
    BY <1>3, <1>4, <1>5
  <2> QED BY <1>2, <1>5, <2>1 DEF Count, One
<1>6. CASE p[c] \notin places /\ q \notin places
  <2>1. A = B
    BY <1>3, <1>4, <1>6
  <2> QED BY <1>2, <1>6, <2>1 DEF Count, One
<1>7. CASE p[c] \notin places /\ q \in places
  <2>1. B = A \cup {c} /\ c \notin A
    BY <1>3, <1>4, <1>7
  <2>2. Cardinality(B) = Cardinality(A) + 1
    BY <1>1, <2>1, FS_AddElement
  <2> QED BY <1>2, <1>7, <2>2 DEF Count, One
<1>8. CASE p[c] \in places /\ q \notin places
  <2>1. B = A \ {c} /\ c \in A
    BY <1>3, <1>4, <1>8
  <2>2. Cardinality(B) = Cardinality(A) - 1
    BY <1>1, <2>1, FS_RemoveElement
  <2> QED BY <1>2, <1>8, <2>2 DEF Count, One
<1> QED BY <1>5, <1>6, <1>7, <1>8

LEMMA CountNone ==
    ASSUME NEW p \in [Calls -> {"idle"}], NEW places, "idle" \notin places
    PROVE  Count(p, places) = 0
<1>1. {c \in Calls : p[c] \in places} = {}
  OBVIOUS
<1> QED BY <1>1, FS_EmptySet DEF Count

\* A call's step keeps the counters exact if it moves them as it moves the call.
LEMMA Moved ==
    ASSUME GuardInv, NEW c \in Calls, NEW q \in PCs, Goto(c, q),
           inFlight' = inFlight + One(q, Holding) - One(pc[c], Holding),
           waiting' = waiting + One(q, Queued) - One(pc[c], Queued)
    PROVE  /\ pc' \in [Calls -> PCs]
           /\ \A d \in Calls : pc'[d] = IF d = c THEN q ELSE pc[d]
           /\ inFlight' = Count(pc, Holding)' /\ inFlight' \in Nat
           /\ waiting' = Count(pc, Queued)' /\ waiting' \in Nat
<1>1. pc \in [Calls -> PCs] /\ pc' = [pc EXCEPT ![c] = q]
  BY DEF GuardInv, GuardTypeOK, Goto
<1>2. inFlight = Count(pc, Holding) /\ waiting = Count(pc, Queued)
  BY DEF GuardInv, GateExact, QueueExact
<1>3. Count(pc', Holding) = Count(pc, Holding) + One(q, Holding) - One(pc[c], Holding)
  BY <1>1, CountMove
<1>4. Count(pc', Queued) = Count(pc, Queued) + One(q, Queued) - One(pc[c], Queued)
  BY <1>1, CountMove
<1>5. Count(pc', Holding) \in Nat /\ Count(pc', Queued) \in Nat
  BY CountType
<1>6. Count(pc, Holding)' = Count(pc', Holding) /\ Count(pc, Queued)' = Count(pc', Queued)
  BY DEF Count, Holding, Queued
<1> QED BY <1>1, <1>2, <1>3, <1>4, <1>5, <1>6

-----------------------------------------------------------------------------
LEMMA GuardInitInv == Init => GuardInv
<1> SUFFICES ASSUME Init PROVE GuardInv
  OBVIOUS
<1>1. GuardTypeOK
  <2>1. probing \in BOOLEAN /\ cooled \in BOOLEAN /\ up \in BOOLEAN
    BY Zenon DEF Init
  <2>2. failures \in 0..Threshold
    BY Constants DEF Init
  <2> QED BY <2>1, <2>2 DEF Init, GuardTypeOK, PCs
<1>2. Count(pc, Holding) = 0 /\ Count(pc, Queued) = 0
  BY CountNone DEF Init, Holding, Queued
<1>3. GateExact /\ QueueExact
  BY <1>2, Constants DEF Init, GateExact, QueueExact
<1> QED BY <1>1, <1>3, Constants DEF Init, GuardInv, NoLostWakeup, NoLeakedProbe

\* allow moves the call only, and the permit it hands out is the call's.
LEMMA AdmitStep ==
    ASSUME GuardInv, NEW c \in Calls, Admit(c)
    PROVE  GuardInv'
<1> USE DEF GuardInv, GuardTypeOK, Admit, AllowClosed, AllowProbe, AllowReset, gateVars,
            breakerVars
<1>1. /\ pc[c] = "idle" /\ Goto(c, "try")
      /\ UNCHANGED <<inFlight, freed, waiting, err, up>>
  OBVIOUS
<1>2. /\ One("try", Holding) = 0 /\ One("idle", Holding) = 0
      /\ One("try", Queued) = 0 /\ One("idle", Queued) = 0 /\ "try" \in PCs
  BY DEF One, Holding, Queued, PCs
<1>3. /\ pc' \in [Calls -> PCs]
      /\ \A d \in Calls : pc'[d] = IF d = c THEN "try" ELSE pc[d]
      /\ inFlight' = Count(pc, Holding)' /\ waiting' = Count(pc, Queued)'
  BY <1>1, <1>2, Moved
<1>4. GuardTypeOK' /\ (breaker = "closed" => failures < Threshold)'
  BY <1>1, <1>3
<1>5. GateExact' /\ QueueExact'
  BY <1>1, <1>3 DEF GateExact, QueueExact
<1>6. NoLostWakeup'
  BY <1>1, <1>3 DEF NoLostWakeup
<1>7. NoLeakedProbe'
  BY <1>3 DEF NoLeakedProbe
<1> QED BY <1>4, <1>5, <1>6, <1>7

\* The steps around the gate: a slot is taken only below the cap, and no one
\* sleeps on an open channel while there is one.
LEMMA SlotStep ==
    ASSUME GuardInv, NEW c \in Calls, TakeSlot(c) \/ TrySlot(c)
    PROVE  GuardInv'
<1> USE DEF GuardInv, GuardTypeOK
<1>1. UNCHANGED <<freed, err, waiting, up, breaker, failures, probing, cooled, probes>>
  BY DEF TakeSlot, TrySlot, breakerVars
<1>2. PICK q \in PCs :
        /\ Goto(c, q) /\ q # "idle"
        /\ inFlight' = inFlight + One(q, Holding) - One(pc[c], Holding)
        /\ waiting' = waiting + One(q, Queued) - One(pc[c], Queued)
        /\ inFlight' = inFlight \/ (inFlight < MaxInFlight /\ inFlight' = inFlight + 1)
        /\ q = "sleep" => inFlight' = inFlight /\ inFlight >= MaxInFlight
  <2>1. CASE TakeSlot(c)
    BY <1>1, <2>1, Constants DEF TakeSlot, TryAcquire, One, Holding, Queued, PCs
  <2>2. CASE TrySlot(c)
    BY <1>1, <2>2, Constants DEF TrySlot, TryAcquire, One, Holding, Queued, PCs
  <2> QED BY <2>1, <2>2
<1>3. /\ pc' \in [Calls -> PCs] /\ inFlight' \in Nat
      /\ \A d \in Calls : pc'[d] = IF d = c THEN q ELSE pc[d]
      /\ inFlight' = Count(pc, Holding)' /\ waiting' = Count(pc, Queued)'
  BY <1>2, Moved
<1>4. GuardTypeOK' /\ (breaker = "closed" => failures < Threshold)'
  BY <1>1, <1>3
<1>5. GateExact' /\ QueueExact'
  BY <1>1, <1>2, <1>3, Constants DEF GateExact, QueueExact
<1>6. NoLostWakeup'
  BY <1>1, <1>2, <1>3, Constants DEF NoLostWakeup, GateExact
<1>7. NoLeakedProbe'
  BY <1>1, <1>2, <1>3 DEF NoLeakedProbe
<1> QED BY <1>4, <1>5, <1>6, <1>7

\* The queue's own steps leave the gate's counter and the breaker alone.
LEMMA QueueStep ==
    ASSUME GuardInv, NEW c \in Calls,
           Enqueue(c) \/ Fetch(c) \/ Wake(c) \/ Expire(c) \/ Dequeue(c)
    PROVE  GuardInv'
<1> USE DEF GuardInv, GuardTypeOK
<1>1. UNCHANGED <<inFlight, err, up, breaker, failures, probing, cooled, probes>>
  BY DEF Enqueue, Fetch, Wake, Expire, Dequeue, gateVars, breakerVars
<1>2. PICK q \in PCs :
        /\ Goto(c, q) /\ q # "idle" /\ q # "sleep"
        /\ inFlight' = inFlight + One(q, Holding) - One(pc[c], Holding)
        /\ waiting' = waiting + One(q, Queued) - One(pc[c], Queued)
        /\ waiting' <= QueueMax
  <2> USE <1>1, Constants DEF One, Holding, Queued, PCs, QueueExact
  <2>1. CASE Enqueue(c)
    BY <2>1 DEF Enqueue
  <2>2. CASE Fetch(c) \/ Wake(c) \/ Expire(c)
    BY <2>2 DEF Fetch, Wake, Expire, gateVars
  <2>3. CASE Dequeue(c)
    BY <2>3 DEF Dequeue
  <2> QED BY <2>1, <2>2, <2>3
<1>3. /\ pc' \in [Calls -> PCs] /\ waiting' \in Nat
      /\ \A d \in Calls : pc'[d] = IF d = c THEN q ELSE pc[d]
      /\ inFlight' = Count(pc, Holding)' /\ waiting' = Count(pc, Queued)'
  BY <1>2, Moved
<1>4. /\ freed' \in [Calls -> {"none", "open", "closed"}]
      /\ \A d \in Calls : d # c => freed'[d] = freed[d]
  BY DEF Enqueue, Fetch, Wake, Expire, Dequeue, gateVars
<1>5. GuardTypeOK' /\ (breaker = "closed" => failures < Threshold)'
  BY <1>1, <1>3, <1>4
<1>6. GateExact' /\ QueueExact'
  BY <1>1, <1>2, <1>3 DEF GateExact, QueueExact
<1>7. NoLostWakeup'
  BY <1>1, <1>2, <1>3, <1>4 DEF NoLostWakeup
<1>8. NoLeakedProbe'
  BY <1>1, <1>2, <1>3 DEF NoLeakedProbe
<1> QED BY <1>5, <1>6, <1>7, <1>8

\* The RPC, and the release that closes every open channel.
LEMMA RpcStep ==
    ASSUME GuardInv, NEW c \in Calls, Rpc(c) \/ Release(c)
    PROVE  GuardInv'
<1> USE DEF GuardInv, GuardTypeOK
<1>1. UNCHANGED <<waiting, up, breaker, failures, probing, cooled, probes>>
  BY DEF Rpc, Release, gateVars, breakerVars
<1>2. PICK q \in PCs :
        /\ Goto(c, q) /\ q # "idle" /\ q # "sleep"
        /\ inFlight' = inFlight + One(q, Holding) - One(pc[c], Holding)
        /\ waiting' = waiting + One(q, Queued) - One(pc[c], Queued)
        /\ inFlight' <= inFlight
  <2> USE <1>1 DEF One, Holding, Queued, PCs
  <2>1. CASE Rpc(c)
    BY <2>1 DEF Rpc, gateVars
  <2>2. CASE Release(c)
    BY <2>2 DEF Release
  <2> QED BY <2>1, <2>2
<1>3. /\ pc' \in [Calls -> PCs] /\ inFlight' \in Nat
      /\ \A d \in Calls : pc'[d] = IF d = c THEN q ELSE pc[d]
      /\ inFlight' = Count(pc, Holding)' /\ waiting' = Count(pc, Queued)'
  BY <1>2, Moved
<1>4. /\ freed' \in [Calls -> {"none", "open", "closed"}]
      /\ \A d \in Calls : freed'[d] = "open" => freed[d] = "open" /\ inFlight' = inFlight
      /\ err' \in [Calls -> {"healthy", "lost"}]
  BY DEF Rpc, Release, gateVars
<1>5. GuardTypeOK' /\ (breaker = "closed" => failures < Threshold)'
  BY <1>1, <1>3, <1>4
<1>6. GateExact' /\ QueueExact'
  BY <1>1, <1>2, <1>3, Constants DEF GateExact, QueueExact
<1>7. NoLostWakeup'
  BY <1>2, <1>3, <1>4 DEF NoLostWakeup
<1>8. NoLeakedProbe'
  BY <1>1, <1>2, <1>3 DEF NoLeakedProbe
<1> QED BY <1>5, <1>6, <1>7, <1>8

\* releaseProbe and record take the permit back while the breaker is half-open.
LEMMA ReturnStep ==
    ASSUME GuardInv, NEW c \in Calls,
           GiveUp(c) \/ RecordClosed(c) \/ RecordHalfOpen(c) \/ RecordOpen(c)
    PROVE  GuardInv'
<1> USE DEF GuardInv, GuardTypeOK
<1>1. /\ UNCHANGED <<inFlight, freed, waiting, up>>
      /\ Goto(c, "idle")
      /\ pc[c] \in {"give_up", "record"}
  BY DEF GiveUp, RecordClosed, RecordHalfOpen, RecordOpen, Return, gateVars
<1>2. /\ One("idle", Holding) = 0 /\ One(pc[c], Holding) = 0
      /\ One("idle", Queued) = 0 /\ One(pc[c], Queued) = 0 /\ "idle" \in PCs
  BY <1>1 DEF One, Holding, Queued, PCs
<1>3. /\ pc' \in [Calls -> PCs]
      /\ \A d \in Calls : pc'[d] = IF d = c THEN "idle" ELSE pc[d]
      /\ inFlight' = Count(pc, Holding)' /\ waiting' = Count(pc, Queued)'
  BY <1>1, <1>2, Moved
<1>4. /\ err' \in [Calls -> {"healthy", "lost"}]
      /\ breaker' \in {"closed", "half_open", "open"}
      /\ failures' \in 0..Threshold
      /\ probes' \in SUBSET Calls
      /\ breaker' = "closed" => failures' < Threshold
  <2>1. CASE GiveUp(c)
    BY <2>1 DEF GiveUp
  <2>2. CASE RecordClosed(c)
    BY <2>2, Constants DEF RecordClosed, Return, Open
  <2>3. CASE RecordHalfOpen(c)
    BY <2>3, Constants DEF RecordHalfOpen, Return, Open
  <2>4. CASE RecordOpen(c)
    BY <2>4 DEF RecordOpen, Return, breakerVars
  <2> QED BY <2>1, <2>2, <2>3, <2>4
<1>5. /\ probing' \in BOOLEAN /\ cooled' \in BOOLEAN
      /\ breaker' = "half_open" => ~probing'
  <2>1. CASE GiveUp(c)
    BY <2>1, Zenon DEF GiveUp
  <2>2. CASE RecordClosed(c)
    BY <2>2 DEF RecordClosed, Open
  <2>3. CASE RecordHalfOpen(c)
    BY <2>3 DEF RecordHalfOpen, Open
  <2>4. CASE RecordOpen(c)
    BY <2>4 DEF RecordOpen, breakerVars
  <2> QED BY <2>1, <2>2, <2>3, <2>4
<1>6. GuardTypeOK' /\ (breaker = "closed" => failures < Threshold)'
  BY <1>1, <1>3, <1>4, <1>5
<1>7. GateExact' /\ QueueExact'
  BY <1>1, <1>3 DEF GateExact, QueueExact
<1>8. NoLostWakeup'
  BY <1>1, <1>3 DEF NoLostWakeup
<1>9. NoLeakedProbe'
  BY <1>5 DEF NoLeakedProbe
<1> QED BY <1>6, <1>7, <1>8, <1>9

\* Time, the engine and stuttering.
LEMMA RestStep ==
    ASSUME GuardInv, Cool \/ EngineComesOrGoes \/ UNCHANGED vars
    PROVE  GuardInv'
<1>1. UNCHANGED <<pc, freed, err, inFlight, waiting, breaker, failures, probing, probes>>
  BY DEF Cool, EngineComesOrGoes, vars, gateVars, breakerVars
<1>2. cooled' \in BOOLEAN /\ up' \in BOOLEAN
  BY DEF GuardInv, GuardTypeOK, Cool, EngineComesOrGoes, vars, gateVars, breakerVars
<1>3. Count(pc, Holding)' = Count(pc, Holding) /\ Count(pc, Queued)' = Count(pc, Queued)
  BY <1>1 DEF Count
<1> QED BY <1>1, <1>2, <1>3 DEF GuardInv, GuardTypeOK, GateExact, QueueExact, NoLostWakeup,
                                NoLeakedProbe

LEMMA GuardNextInv == GuardInv /\ [Next]_vars => GuardInv'
<1> SUFFICES ASSUME GuardInv, [Next]_vars PROVE GuardInv'
  OBVIOUS
<1>1. ASSUME NEW c \in Calls, Admit(c) \/ Proceed(c) \/ Expire(c) PROVE GuardInv'
  BY <1>1, AdmitStep, SlotStep, QueueStep, RpcStep, ReturnStep DEF Proceed
<1> QED BY <1>1, RestStep DEF Next

-----------------------------------------------------------------------------
(* GuardInv holds in every state that calls, timeouts, the breaker's clock and
   the engine's comings and goings can reach. *)
THEOREM GuardInvariance == GuardSpec => []GuardInv
BY GuardInitInv, GuardNextInv, PTL DEF GuardSpec

(* For every number of callers the engine sees at most MaxInFlight RPCs and at
   most QueueMax callers wait, and both counters are exact: tryAcquire,
   release and admit. *)
THEOREM Bounded == GuardSpec => [](GateExact /\ QueueExact)
<1>1. GuardInv => GateExact /\ QueueExact
  BY DEF GuardInv
<1> QED BY <1>1, GuardInvariance, PTL

(* No caller of admit sleeps through a freed slot: the channel is fetched
   before the gate is tried and every release closes it. *)
THEOREM Awake == GuardSpec => []NoLostWakeup
<1>1. GuardInv => NoLostWakeup
  BY DEF GuardInv
<1> QED BY <1>1, GuardInvariance, PTL

(* The half-open permit always has a call that will give it back: allow,
   record and releaseProbe. *)
THEOREM PermitHeld == GuardSpec => []NoLeakedProbe
<1>1. GuardInv => NoLeakedProbe
  BY DEF GuardInv
<1> QED BY <1>1, GuardInvariance, PTL
=============================================================================
