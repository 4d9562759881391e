----------------------------- MODULE SagaProofs -----------------------------
(***************************************************************************)
(* Proofs about Saga, for any stacks, any number of overlapping calls of   *)
(* compensate_session and any retry limit, and about UndoLog, where the    *)
(* engine writes to the same database meanwhile.                           *)
(***************************************************************************)
EXTENDS UndoLog, EffectEngineProofs

\* A step that leaves the stack, the sessions and the endpoints alone.
LEMMA StackFrame ==
    ASSUME SagaInv, UNCHANGED <<undo, session, undone>>,
           StoreTypeOK', SagaTypeOK', TodoExact', PostShape'
    PROVE  SagaInv'
<1>1. StackShape'
  BY Zenon DEF SagaInv, StackShape, Registered, Above
<1>2. LifoOrder'
  BY Zenon DEF SagaInv, LifoOrder, Registered, Above, Dealt
<1>3. NothingForgotten'
  BY Zenon DEF SagaInv, NothingForgotten
<1> QED BY <1>1, <1>2, <1>3, Zenon DEF SagaInv

\* A call that ends and leaves the stack and the sessions alone.
LEMMA ReturnStep ==
    ASSUME SagaInv, NEW w \in Runners, NEW what \in Outcomes, Return(w, what),
           UNCHANGED <<undo, session>>, StoreTypeOK'
    PROVE  SagaInv'
<1>1. /\ spc'[w] = "idle" /\ attempt'[w] = 0 /\ UNCHANGED <<target, undone>>
      /\ \A v \in Runners : v # w =>
            spc'[v] = spc[v] /\ todo'[v] = todo[v] /\ attempt'[v] = attempt[v]
  BY Zenon DEF Return, SagaInv, SagaTypeOK
<1>2. SagaTypeOK'
  BY SagaAssumption DEF Return, SagaInv, SagaTypeOK, SagaPCs
<1>3. TodoExact'
  BY <1>1, Zenon DEF SagaInv, TodoExact, Walking, Registered
<1>4. PostShape'
  BY <1>1, SagaAssumption DEF SagaInv, PostShape, IsTop, Above
<1> QED BY <1>1, <1>2, <1>3, <1>4, StackFrame, Zenon

LEMMA EnterStep ==
    ASSUME SagaInv, NEW w \in Runners, NEW s \in Sessions, Enter(w, s)
    PROVE  SagaInv'
<1>1. /\ spc[w] = "idle" /\ spc'[w] \in {"idle", "load"}
      /\ UNCHANGED <<undo, session, undone, todo, attempt, month, state, result_snapshot,
                     args_snapshot, approval, expired, audit>>
      /\ \A v \in Runners : v # w => spc'[v] = spc[v] /\ target'[v] = target[v]
  BY Zenon DEF Enter, SagaInv, SagaTypeOK, storeVars, dbVars, clockVars, effectVars, approvalVars
<1>2. StoreTypeOK'
  BY <1>1, Zenon DEF SagaInv, StoreTypeOK
<1>3. SagaTypeOK'
  <2>1. session[s] \in SessionStates \cup {"none"}
    BY Zenon DEF SagaInv, StoreTypeOK
  <2> QED BY <1>1, <2>1, Zenon DEF Enter, SagaInv, SagaTypeOK, SagaPCs, Outcomes
<1>4. TodoExact'
  BY <1>1, Zenon DEF SagaInv, TodoExact, Walking, Registered
<1>5. PostShape'
  BY <1>1, Zenon DEF SagaInv, PostShape, IsTop, Above
<1> QED BY <1>1, <1>2, <1>3, <1>4, <1>5, StackFrame, Zenon

LEMMA LoadStep ==
    ASSUME SagaInv, NEW w \in Runners, Load(w)
    PROVE  SagaInv'
<1>1. /\ UNCHANGED <<undo, session, undone, target, attempt, month, state, result_snapshot,
                     args_snapshot, approval, expired, audit>>
      /\ spc[w] = "load" /\ spc'[w] = "call" /\ todo'[w] = LoadUndoStack(target[w])
      /\ \A v \in Runners : v # w => spc'[v] = spc[v] /\ todo'[v] = todo[v]
  BY Zenon DEF Load, Step, SagaInv, SagaTypeOK, storeVars, dbVars, clockVars, effectVars,
         approvalVars
<1>2. StoreTypeOK'
  BY <1>1, Zenon DEF SagaInv, StoreTypeOK
<1>3. SagaTypeOK'
  BY Zenon DEF Load, Step, LoadUndoStack, SagaInv, SagaTypeOK, SagaPCs
<1>4. TodoExact'
  BY <1>1 DEF SagaInv, TodoExact, Walking, LoadUndoStack, Registered
<1>5. attempt[w] <= MaxRetries
  BY <1>1, Zenon DEF SagaInv, PostShape
<1>6. PostShape'
  BY <1>1, <1>5, Zenon DEF SagaInv, PostShape, IsTop, Above
<1> QED BY <1>1, <1>2, <1>3, <1>4, <1>6, StackFrame, Zenon

LEMMA UnroutableStep ==
    ASSUME SagaInv, NEW w \in Runners, Unroutable(w)
    PROVE  SagaInv'
<1>1. /\ UNCHANGED <<undo, session, undone, target, attempt, todo, month, state,
                     result_snapshot, args_snapshot, approval, expired, audit>>
      /\ spc[w] = "call" /\ spc'[w] = "fail_entry"
      /\ \A v \in Runners : v # w => spc'[v] = spc[v]
  BY Zenon DEF Unroutable, Step, SagaInv, SagaTypeOK, storeVars, dbVars, clockVars, effectVars,
         approvalVars
<1>2. StoreTypeOK'
  BY <1>1, Zenon DEF SagaInv, StoreTypeOK
<1>3. SagaTypeOK'
  BY Zenon DEF Unroutable, Step, SagaInv, SagaTypeOK, SagaPCs
<1>4. TodoExact'
  BY <1>1, Zenon DEF SagaInv, TodoExact, Walking, Registered
<1>5. PostShape'
  BY <1>1, Zenon DEF SagaInv, PostShape, IsTop, Above
<1> QED BY <1>1, <1>2, <1>3, <1>4, <1>5, StackFrame, Zenon

\* The entry at hand is on the stack, and everything above it is dealt with.
LEMMA TopUncovered ==
    ASSUME SagaInv, NEW w \in Runners, Walking(w), NEW e \in Effects, IsTop(e, todo[w])
    PROVE  /\ Registered(e) /\ SessionOfEffect(e) = target[w]
           /\ \A f \in Effects : Registered(f) /\ Above(f, e) => Dealt(f)
           /\ \A f \in Effects : IsTop(f, todo[w]) => f = e
<1>1. Registered(e) /\ SessionOfEffect(e) = target[w]
  BY Zenon DEF SagaInv, TodoExact, IsTop
<1>2. ASSUME NEW f \in Effects, Registered(f), Above(f, e)
      PROVE  Dealt(f)
  <2>1. f \notin todo[w] /\ SessionOfEffect(f) = target[w]
    BY <1>1, <1>2, Zenon DEF IsTop, Above
  <2>2. undo[f] \in {"compensated", "failed"}
    BY <1>2, <2>1, Zenon DEF SagaInv, TodoExact, StackShape, Registered
  <2> QED BY <2>2, Zenon DEF SagaInv, NothingForgotten, Dealt
<1>3. ASSUME NEW f \in Effects, IsTop(f, todo[w])
      PROVE  f = e
  <2>1. Registered(f) /\ SessionOfEffect(f) = target[w]
    BY <1>3, Zenon DEF SagaInv, TodoExact, IsTop
  <2> QED BY <1>1, <1>3, <2>1, Zenon DEF SagaInv, StackShape, IsTop
<1> QED BY <1>1, <1>2, <1>3, Zenon

LEMMA PostStep ==
    ASSUME SagaInv, NEW w \in Runners, Post(w)
    PROVE  SagaInv'
<1>1. PICK e \in Effects :
        /\ IsTop(e, todo[w])
        /\ undone' \in {undone, undone \cup {e}}
        /\ \/ spc'[w] = "mark" /\ undone' = undone \cup {e}
           \/ spc'[w] = "fail_entry"
           \/ spc'[w] = "call" /\ attempt[w] + 1 <= MaxRetries
  BY SagaAssumption DEF Post, Step, SagaInv, SagaTypeOK
<1>2. /\ UNCHANGED <<undo, session, target, todo, month, state, result_snapshot,
                     args_snapshot, approval, expired, audit>>
      /\ spc[w] = "call" /\ attempt'[w] = attempt[w] + 1
      /\ \A v \in Runners : v # w => spc'[v] = spc[v] /\ attempt'[v] = attempt[v]
  BY Zenon DEF Post, Step, SagaInv, SagaTypeOK, storeVars, dbVars, clockVars, effectVars,
         approvalVars
<1>3. StoreTypeOK'
  BY <1>2, Zenon DEF SagaInv, StoreTypeOK
<1>4. SagaTypeOK'
  <2>1. attempt[w] + 1 \in 0..MaxRetries + 1
    BY <1>2, SagaAssumption DEF SagaInv, SagaTypeOK, PostShape
  <2>2. spc' \in [Runners -> SagaPCs]
    BY Zenon DEF Post, Step, SagaInv, SagaTypeOK, SagaPCs
  <2> QED BY <1>1, <2>1, <2>2, Zenon DEF Post, Step, SagaInv, SagaTypeOK
<1>5. /\ Registered(e)
      /\ \A f \in Effects : Registered(f) /\ Above(f, e) => Dealt(f)
      /\ \A f \in Effects : IsTop(f, todo[w]) => f = e
  BY <1>1, <1>2, TopUncovered, Zenon DEF Walking
<1>6. StackShape'
  BY <1>1, <1>2, <1>5, Zenon DEF SagaInv, StackShape, Registered
<1>7. TodoExact'
  BY <1>1, <1>2, Zenon DEF SagaInv, TodoExact, Walking, Registered
<1>8. PostShape'
  <2>1. PostShape /\ undone \subseteq undone'
    BY <1>1, Zenon DEF SagaInv
  <2>2. \A v \in Runners : \A f \in Effects : IsTop(f, todo'[v]) <=> IsTop(f, todo[v])
    BY <1>2, Zenon
  <2>3. /\ spc'[w] = "mark" => \A f \in Effects : IsTop(f, todo'[w]) => f \in undone'
        /\ spc'[w] \in {"idle", "load", "call"} => attempt'[w] <= MaxRetries
    BY <1>1, <1>2, <1>5, <2>2, Zenon
  <2> QED BY <1>2, <2>1, <2>2, <2>3, Zenon DEF PostShape
<1>9. LifoOrder'
  BY <1>1, <1>2, <1>5, Zenon DEF SagaInv, LifoOrder, Dealt, Registered
<1>10. NothingForgotten'
  BY <1>1, <1>2, Zenon DEF SagaInv, NothingForgotten
<1> QED BY <1>3, <1>4, <1>6, <1>7, <1>8, <1>9, <1>10, Zenon DEF SagaInv

LEMMA CompensatedStep ==
    ASSUME SagaInv, NEW w \in Runners, Compensated(w)
    PROVE  SagaInv'
<1>1. PICK e \in Effects :
        /\ IsTop(e, todo[w])
        /\ undo' = [undo EXCEPT ![e] = "compensated"]
        /\ todo' = [todo EXCEPT ![w] = @ \ {e}]
  BY Zenon DEF Compensated, MarkCompensated
<1>2. /\ UNCHANGED <<undone, session, target, month, state, result_snapshot,
                     args_snapshot, approval, expired, audit>>
      /\ spc[w] = "mark" /\ spc'[w] = "call" /\ attempt'[w] = 0
      /\ todo'[w] = todo[w] \ {e}
      /\ undo'[e] = "compensated" /\ \A f \in Effects : f # e => undo'[f] = undo[f]
      /\ \A v \in Runners : v # w =>
            spc'[v] = spc[v] /\ attempt'[v] = attempt[v] /\ todo'[v] = todo[v]
  BY <1>1 DEF Compensated, MarkCompensated, Step, SagaInv, SagaTypeOK, StoreTypeOK,
              clockVars, effectVars, approvalVars
<1>3. StoreTypeOK'
  BY <1>1, <1>2, Zenon DEF SagaInv, StoreTypeOK, UndoStates
<1>4. SagaTypeOK'
  BY <1>1, SagaAssumption DEF Compensated, Step, SagaInv, SagaTypeOK, SagaPCs
<1>5. /\ Registered(e) /\ e \in undone
      /\ \A f \in Effects : IsTop(f, todo[w]) => f = e
  BY <1>1, <1>2, TopUncovered, Zenon DEF Walking, SagaInv, PostShape
<1>6. /\ \A f \in Effects : undo'[f] \in {undo[f], "compensated"}
      /\ \A f \in Effects : Registered(f)' <=> Registered(f)
  BY <1>2, <1>5, Zenon DEF Registered
<1>6a. StackShape'
  <2>1. StackShape /\ undone' = undone
    BY <1>2, Zenon DEF SagaInv
  <2> QED BY <1>6, <2>1, Zenon DEF StackShape
<1>7. TodoExact'
  <2>1. TodoExact /\ target' = target
    BY <1>2, Zenon DEF SagaInv
  <2>2. /\ Walking(w) /\ \A v \in Runners : v # w /\ Walking(v)' => Walking(v)
        /\ \A f \in Effects : undo[f] # "pending" => undo'[f] # "pending"
    BY <1>2, <1>6, Zenon DEF Walking
  <2>3. ASSUME NEW f \in Effects
        PROVE  /\ f \in todo'[w] => SessionOfEffect(f) = target[w] /\ Registered(f)'
               /\ f \notin todo'[w] => (SessionOfEffect(f) = target[w] => undo'[f] # "pending")
    BY <1>2, <1>6, <2>1, <2>2, Zenon DEF TodoExact
  <2>4. ASSUME NEW v \in Runners, v # w, Walking(v)', NEW f \in Effects
        PROVE  /\ f \in todo'[v] => SessionOfEffect(f) = target[v] /\ Registered(f)'
               /\ f \notin todo'[v] => (SessionOfEffect(f) = target[v] => undo'[f] # "pending")
    BY <1>2, <1>6, <2>1, <2>2, <2>4, Zenon DEF TodoExact
  <2> QED BY <2>1, <2>3, <2>4, Zenon DEF TodoExact
<1>8. PostShape'
  <2>1. PostShape /\ undone' = undone /\ 0 <= MaxRetries
    BY <1>2, SagaAssumption DEF SagaInv
  <2>2. \A v \in Runners : v # w => \A f \in Effects : IsTop(f, todo'[v]) <=> IsTop(f, todo[v])
    BY <1>2, Zenon
  <2> QED BY <1>2, <2>1, <2>2, Zenon DEF PostShape
<1>9. LifoOrder'
  BY <1>2, <1>5, Zenon DEF SagaInv, LifoOrder, Dealt, Registered
<1>10. NothingForgotten'
  BY <1>2, <1>5, Zenon DEF SagaInv, NothingForgotten
<1> QED BY <1>3, <1>4, <1>6a, <1>7, <1>8, <1>9, <1>10, Zenon DEF SagaInv

LEMMA FailEntryStep ==
    ASSUME SagaInv, NEW w \in Runners, FailEntry(w)
    PROVE  SagaInv'
<1>1. PICK e \in Effects :
        IsTop(e, todo[w]) /\ undo' = [undo EXCEPT ![e] = "failed"]
  BY Zenon DEF FailEntry, MarkCompensationFailed
<1>2. /\ UNCHANGED <<undone, session, target, todo, attempt, month, state, result_snapshot,
                     args_snapshot, approval, expired, audit>>
      /\ spc[w] = "fail_entry" /\ spc'[w] = "fail_effect"
      /\ undo'[e] = "failed" /\ \A f \in Effects : f # e => undo'[f] = undo[f]
      /\ \A v \in Runners : v # w => spc'[v] = spc[v]
  BY <1>1 DEF FailEntry, MarkCompensationFailed, Step, SagaInv, SagaTypeOK, StoreTypeOK,
              clockVars, effectVars, approvalVars
<1>3. StoreTypeOK'
  BY <1>1, <1>2, Zenon DEF SagaInv, StoreTypeOK, UndoStates
<1>4. SagaTypeOK'
  BY <1>2, Zenon DEF FailEntry, Step, SagaInv, SagaTypeOK, SagaPCs
<1>5. Registered(e)
  BY <1>1, <1>2, TopUncovered, Zenon DEF Walking
<1>6. StackShape'
  BY <1>2, <1>5, Zenon DEF SagaInv, StackShape, Registered, Above
<1>7. TodoExact'
  BY <1>2, <1>5, Zenon DEF SagaInv, TodoExact, Walking, Registered
<1>8. PostShape'
  BY <1>2, Zenon DEF SagaInv, PostShape, IsTop, Above
<1>9. LifoOrder'
  BY <1>2, <1>5, Zenon DEF SagaInv, LifoOrder, Dealt, Registered, Above
<1>10. NothingForgotten'
  BY <1>2, Zenon DEF SagaInv, NothingForgotten
<1> QED BY <1>3, <1>4, <1>6, <1>7, <1>8, <1>9, <1>10, Zenon DEF SagaInv

LEMMA FailCompensatedEffectStep ==
    ASSUME SagaInv, NEW w \in Runners, FailCompensatedEffect(w)
    PROVE  SagaInv'
<1>1. /\ UNCHANGED <<undo, session, undone, target, attempt, todo, month, result_snapshot,
                     args_snapshot, approval, expired, audit>>
      /\ state' \in [Effects -> EffectStates \cup {"none"}]
      /\ spc[w] = "fail_effect" /\ spc'[w] = "halt"
      /\ \A v \in Runners : v # w => spc'[v] = spc[v]
  BY Zenon DEF FailCompensatedEffect, MarkEffectCompensationFailed, Step, SagaInv, SagaTypeOK,
         StoreTypeOK, EffectStates, clockVars, approvalVars
<1>2. StoreTypeOK'
  BY <1>1, Zenon DEF SagaInv, StoreTypeOK
<1>3. SagaTypeOK'
  BY <1>1, Zenon DEF FailCompensatedEffect, Step, SagaInv, SagaTypeOK, SagaPCs
<1>4. TodoExact'
  BY <1>1, Zenon DEF SagaInv, TodoExact, Walking, Registered
<1>5. PostShape'
  BY <1>1, Zenon DEF SagaInv, PostShape, IsTop, Above
<1> QED BY <1>1, <1>2, <1>3, <1>4, <1>5, StackFrame, Zenon

\* The session row moves.  Only Close writes "compensated".
LEMMA SessionStep ==
    ASSUME SagaInv, NEW s \in Sessions, NEW from, NEW to \in SessionStates,
           MoveSession(s, from, to), UNCHANGED undone,
           SagaTypeOK', TodoExact', PostShape',
           to = "compensated" =>
               \A e \in Effects : SessionOfEffect(e) = s => undo[e] # "pending"
    PROVE  SagaInv'
<1>1. /\ UNCHANGED <<undo, month, state, result_snapshot, args_snapshot, approval, expired,
                     audit>>
      /\ session'[s] \in {session[s], to}
      /\ \A t \in Sessions : t # s => session'[t] = session[t]
      /\ session' \in [Sessions -> SessionStates \cup {"none"}]
  BY Zenon DEF MoveSession, SagaInv, StoreTypeOK, clockVars, effectVars, approvalVars
<1>2. StoreTypeOK'
  BY <1>1, Zenon DEF SagaInv, StoreTypeOK
<1>3. StackShape'
  BY <1>1, Zenon DEF SagaInv, StackShape, Registered, Above
<1>4. LifoOrder'
  BY <1>1, Zenon DEF SagaInv, LifoOrder, Dealt, Registered, Above
<1>5. \A e \in Effects : SessionOfEffect(e) \in Sessions
  BY SigAssumption, Zenon DEF Effects, SessionOfEffect
<1>6. NothingForgotten'
  BY <1>1, <1>5, Zenon DEF SagaInv, NothingForgotten
<1> QED BY <1>2, <1>3, <1>4, <1>6, Zenon DEF SagaInv

\* A call ends with a write to its session.
LEMMA EndStep ==
    ASSUME SagaInv, NEW w \in Runners, Halt(w) \/ Close(w)
    PROVE  SagaInv'
<1>1. /\ spc'[w] = "idle" /\ attempt'[w] = 0 /\ UNCHANGED <<target, undone, undo>>
      /\ \A v \in Runners : v # w =>
            spc'[v] = spc[v] /\ todo'[v] = todo[v] /\ attempt'[v] = attempt[v]
  BY Zenon DEF Halt, Close, Return, SetHalted, SetCompensated, MoveSession, SagaInv, SagaTypeOK
<1>2. SagaTypeOK'
  BY SagaAssumption DEF Halt, Close, Return, SagaInv, SagaTypeOK, SagaPCs, Outcomes,
                        SessionStates
<1>3. TodoExact'
  BY <1>1, Zenon DEF SagaInv, TodoExact, Walking, Registered
<1>4. PostShape'
  BY <1>1, SagaAssumption DEF SagaInv, PostShape, IsTop, Above
<1>5. target[w] \in Sessions
  BY Zenon DEF SagaInv, SagaTypeOK
<1>6. CASE Halt(w)
  BY <1>1, <1>2, <1>3, <1>4, <1>5, <1>6, SessionStep, Zenon DEF Halt, SetHalted, SessionStates
<1>7. CASE Close(w)
  <2>1. \A e \in Effects : SessionOfEffect(e) = target[w] => undo[e] # "pending"
    BY <1>7, Zenon DEF Close, SagaInv, TodoExact, Walking
  <2> QED BY <1>1, <1>2, <1>3, <1>4, <1>5, <1>7, <2>1, SessionStep, Zenon
          DEF Close, SetCompensated, SessionStates
<1> QED BY <1>6, <1>7, Zenon

LEMMA CallerStep ==
    ASSUME SagaInv, NEW s \in Sessions, Caller(s)
    PROVE  SagaInv'
<1>1. UNCHANGED <<spc, target, todo, attempt, outcome, undone, undo>>
  BY Zenon DEF Caller, SetFailed, SetCompleted, SetCompensating, MoveSession, sagaVars
<1>2. SagaTypeOK' /\ TodoExact' /\ PostShape'
  BY <1>1, Zenon DEF SagaInv, SagaTypeOK, TodoExact, PostShape, Walking, Registered, IsTop, Above
<1> QED BY <1>1, <1>2, SessionStep, Zenon
        DEF Caller, SetFailed, SetCompleted, SetCompensating, SessionStates

-----------------------------------------------------------------------------
(* The invariant and what follows from it                                  *)

LEMMA InitSagaInv == SagaInit => SagaInv
<1> SUFFICES ASSUME SagaInit PROVE SagaInv
  OBVIOUS
<1>1. StoreTypeOK
  BY ConfigAssumption DEF SagaInit, StoreTypeOK, Months, SessionStates, EffectStates,
                          Results, Args, UndoStates, ApprovalStates
<1>2. SagaTypeOK
  BY SagaAssumption DEF SagaInit, SagaLocalInit, SagaTypeOK, SagaPCs, Outcomes
<1>3. /\ \A w \in Runners : spc[w] = "idle" /\ attempt[w] = 0
      /\ undone = {}
      /\ \A e \in Effects : undo[e] \in {"none", "pending"}
      /\ \A s \in Sessions : session[s] # "compensated"
  BY Zenon DEF SagaInit, SagaLocalInit
<1>4. \A e \in Effects : SessionOfEffect(e) \in Sessions /\ StepOf[e[1]] \in Nat
  BY SigAssumption, Zenon DEF Effects, SessionOfEffect
<1>5. StackShape
  <2>1. ASSUME NEW e \in Effects, NEW f \in Effects, Registered(e), Registered(f),
               SessionOfEffect(e) = SessionOfEffect(f), e # f
        PROVE  Above(e, f) \/ Above(f, e)
    <3>1. StepOf[e[1]] # StepOf[f[1]]
      BY <2>1, Zenon DEF SagaInit
    <3> QED BY <1>4, <2>1, <3>1 DEF Above
  <2> QED BY <1>3, <2>1, Zenon DEF StackShape
<1>6. TodoExact /\ PostShape
  BY <1>3, SagaAssumption DEF TodoExact, PostShape, Walking
<1>7. LifoOrder /\ NothingForgotten
  BY <1>3, <1>4, Zenon DEF LifoOrder, NothingForgotten
<1> QED BY <1>1, <1>2, <1>5, <1>6, <1>7, Zenon DEF SagaInv

LEMMA CrashStep ==
    ASSUME SagaInv, NEW w \in Runners, Crash(w)
    PROVE  SagaInv'
<1>1. UNCHANGED <<undo, session, month, state, result_snapshot, args_snapshot, approval,
                  expired, audit>>
  BY Zenon DEF Crash, storeVars, dbVars, clockVars, effectVars, approvalVars
<1>2. StoreTypeOK'
  BY <1>1, Zenon DEF SagaInv, StoreTypeOK
<1> QED BY <1>1, <1>2, ReturnStep, Zenon DEF Crash, Outcomes

LEMMA NextSagaInv == SagaInv /\ [SagaNext]_allVars => SagaInv'
<1> SUFFICES ASSUME SagaInv, [SagaNext]_allVars PROVE SagaInv'
  OBVIOUS
<1>1. ASSUME NEW w \in Runners, Run(w) PROVE SagaInv'
  BY <1>1, LoadStep, UnroutableStep, PostStep, CompensatedStep, FailEntryStep,
     FailCompensatedEffectStep, EndStep, Zenon DEF Run
<1>2. ASSUME UNCHANGED allVars PROVE SagaInv'
  <2>1. UNCHANGED <<undo, session, undone, spc, target, todo, attempt, outcome, month, state,
                    result_snapshot, args_snapshot, approval, expired, audit>>
    BY <1>2, Zenon DEF allVars, sagaVars, storeVars, dbVars, clockVars, effectVars, approvalVars
  <2>2. StoreTypeOK' /\ SagaTypeOK'
    BY <2>1, Zenon DEF SagaInv, StoreTypeOK, SagaTypeOK
  <2>3. TodoExact' /\ PostShape'
    BY <2>1, Zenon DEF SagaInv, TodoExact, PostShape, Walking, Registered, IsTop, Above
  <2> QED BY <2>1, <2>2, <2>3, StackFrame, Zenon
<1> QED BY <1>1, <1>2, EnterStep, CrashStep, CallerStep, Zenon DEF SagaNext

(* SagaInv holds however calls of compensate_session overlap, crash and start
   again, and whatever the application reports about the session. *)
THEOREM SagaInvariance == SagaSpec => []SagaInv
BY InitSagaInv, NextSagaInv, PTL DEF SagaSpec

(* Compensations are carried out from the top of the stack: the order in which
   execute_entry is called, across overlapping and repeated calls. *)
THEOREM Lifo == SagaSpec => []LifoOrder
<1>1. SagaInv => LifoOrder
  BY Zenon DEF SagaInv
<1> QED BY <1>1, SagaInvariance, PTL

(* mark_compensated and set_compensated record what the endpoints did: nothing
   on the stack of a compensated session is left pending. *)
THEOREM Forgotten == SagaSpec => []NothingForgotten
<1>1. SagaInv => NothingForgotten
  BY Zenon DEF SagaInv
<1> QED BY <1>1, SagaInvariance, PTL

\* How a step changes the sessions.
LEMMA SessionWriters ==
    ASSUME SagaInv, [SagaNext]_allVars, NEW s \in Sessions, session[s] = "halted"
    PROVE  session'[s] = "halted"
<1>1. ASSUME NEW t \in Sessions, Caller(t) PROVE session'[s] = "halted"
  BY <1>1, Zenon DEF Caller, SetFailed, SetCompleted, SetCompensating, MoveSession, SagaInv,
              StoreTypeOK
<1>2. ASSUME NEW w \in Runners, Halt(w) \/ Close(w) PROVE session'[s] = "halted"
  BY <1>2, Zenon DEF Halt, Close, SetHalted, SetCompensated, MoveSession, SagaInv, StoreTypeOK
<1>3. ASSUME NEW w \in Runners,
             \/ Load(w) \/ Unroutable(w) \/ Post(w) \/ Compensated(w) \/ FailEntry(w)
             \/ FailCompensatedEffect(w) \/ Crash(w) \/ \E t \in Sessions : Enter(w, t)
      PROVE  session' = session
  BY <1>3, Zenon DEF Load, Unroutable, Post, Compensated, FailEntry, FailCompensatedEffect, Crash,
              Enter, MarkCompensated, MarkCompensationFailed, MarkEffectCompensationFailed,
              storeVars, dbVars
<1>4. ASSUME UNCHANGED allVars PROVE session' = session
  BY <1>4, Zenon DEF allVars, storeVars, dbVars
<1> QED BY <1>1, <1>2, <1>3, <1>4, Zenon DEF SagaNext, Run

(* A halted session stays halted: the conditions of set_compensated,
   set_failed, set_completed and set_compensating. *)
THEOREM Halted == SagaSpec => HaltedStays
<1>1. SagaInv /\ [SagaNext]_allVars =>
        [\A s \in Sessions : session[s] = "halted" => session'[s] = "halted"]_allVars
  BY SessionWriters, Zenon
<1> QED BY <1>1, SagaInvariance, PTL DEF SagaSpec, HaltedStays

-----------------------------------------------------------------------------
(* Saga implements LifoUndo                                                *)

\* The entry at hand changes and everything above it is settled: a step of
\* LifoUndo, or none.
LEMMA SettleStep ==
    ASSUME SagaInv, NEW e \in Effects, Registered(e), Registered(e)',
           \A f \in Effects : Registered(f) /\ Above(f, e) => Dealt(f),
           \A f \in Effects : f # e => Status(f)' = Status(f),
           \/ Status(e)' = Status(e)
           \/ Status(e)' = "undone"
           \/ Status(e) = "open" /\ Status(e)' = "failed"
    PROVE  [Abstract!Next]_StackStatus
<1>1. Status(e) \in {"open", "undone", "failed"}
  BY Zenon DEF Status, Registered
<1>2. \A f \in Effects : SessionOfEffect(f) = SessionOfEffect(e) /\ StepOf[f[1]] > StepOf[e[1]]
                          => Status(f) # "open"
  BY Zenon DEF Above, Status, Dealt, Registered
<1>3. CASE Status(e)' = Status(e)
  <2>1. StackStatus' = StackStatus
    BY <1>3, Zenon DEF StackStatus
  <2> QED BY <2>1, Zenon
<1>4. CASE Status(e)' # Status(e)
  <2>1. Abstract!Uncovered(e)
    BY <1>2, Zenon DEF Abstract!Uncovered, StackStatus
  <2>2. StackStatus' = [StackStatus EXCEPT ![e] = Status(e)']
    BY Zenon DEF StackStatus
  <2>3. Abstract!Undo(e) \/ Abstract!GiveUp(e)
    BY <1>1, <1>4, <2>1, <2>2, Zenon DEF Abstract!Undo, Abstract!GiveUp, Abstract!Settle,
                                   StackStatus
  <2> QED BY <2>3, Zenon DEF Abstract!Next
<1> QED BY <1>3, <1>4, Zenon

\* Only Post and FailEntry change what LifoUndo sees.
LEMMA NextImplements ==
    ASSUME SagaInv, [SagaNext]_allVars
    PROVE  [Abstract!Next]_StackStatus
<1>1. ASSUME NEW w \in Runners, Post(w) PROVE [Abstract!Next]_StackStatus
  <2>1. PICK e \in Effects :
          IsTop(e, todo[w]) /\ undone' \in {undone, undone \cup {e}}
    BY <1>1, Zenon DEF Post
  <2>2. UNCHANGED undo /\ Walking(w)
    BY <1>1, Zenon DEF Post, Walking, storeVars, dbVars
  <2>3. Registered(e) /\ \A f \in Effects : Registered(f) /\ Above(f, e) => Dealt(f)
    BY <2>1, <2>2, TopUncovered, Zenon
  <2>4. \A f \in Effects : f # e => Status(f)' = Status(f)
    BY <2>1, <2>2, Zenon DEF Status
  <2>5. Status(e)' = Status(e) \/ Status(e)' = "undone"
    BY <2>1, <2>2, <2>3, Zenon DEF Status, Registered
  <2>6. Registered(e)'
    BY <2>2, <2>3, Zenon DEF Registered
  <2> QED BY <2>3, <2>4, <2>5, <2>6, SettleStep, Zenon
<1>2. ASSUME NEW w \in Runners, FailEntry(w) PROVE [Abstract!Next]_StackStatus
  <2>1. PICK e \in Effects :
          IsTop(e, todo[w]) /\ undo' = [undo EXCEPT ![e] = "failed"]
    BY <1>2, Zenon DEF FailEntry, MarkCompensationFailed
  <2>2. /\ UNCHANGED undone /\ Walking(w)
        /\ undo'[e] = "failed" /\ \A f \in Effects : f # e => undo'[f] = undo[f]
    BY <1>2, <2>1, Zenon DEF FailEntry, Walking, SagaInv, StoreTypeOK
  <2>3. Registered(e) /\ \A f \in Effects : Registered(f) /\ Above(f, e) => Dealt(f)
    BY <2>1, <2>2, TopUncovered, Zenon
  <2>4. \A f \in Effects : f # e => Status(f)' = Status(f)
    BY <2>2, Zenon DEF Status
  <2>5. Status(e)' = Status(e) \/ (Status(e) = "open" /\ Status(e)' = "failed")
    BY <2>2, <2>3, Zenon DEF Status, Registered
  <2>6. Registered(e)'
    BY <2>2, Zenon DEF Registered
  <2> QED BY <2>3, <2>4, <2>5, <2>6, SettleStep, Zenon
<1>3. ASSUME NEW w \in Runners, Compensated(w)
      PROVE  StackStatus' = StackStatus
  <2>1. PICK e \in Effects :
          IsTop(e, todo[w]) /\ undo' = [undo EXCEPT ![e] = "compensated"]
    BY <1>3, Zenon DEF Compensated, MarkCompensated
  <2>2. /\ UNCHANGED undone /\ Walking(w) /\ spc[w] = "mark"
        /\ undo'[e] = "compensated" /\ \A f \in Effects : f # e => undo'[f] = undo[f]
    BY <1>3, <2>1, Zenon DEF Compensated, Walking, SagaInv, StoreTypeOK
  <2>3. Registered(e) /\ e \in undone
    BY <2>1, <2>2, TopUncovered, Zenon DEF SagaInv, PostShape
  <2>4. \A f \in Effects : Status(f)' = Status(f)
    BY <2>2, <2>3, Zenon DEF Status, Registered
  <2> QED BY <2>4, Zenon DEF StackStatus
<1>4. ASSUME UNCHANGED <<undo, undone>>
      PROVE  StackStatus' = StackStatus
  BY <1>4, Zenon DEF Status, StackStatus
<1>5. ASSUME NEW w \in Runners,
             \/ Load(w) \/ Unroutable(w) \/ FailCompensatedEffect(w) \/ Halt(w)
             \/ Close(w) \/ Crash(w) \/ \E t \in Sessions : Enter(w, t)
      PROVE  UNCHANGED <<undo, undone>>
  BY <1>5, Zenon DEF Load, Unroutable, FailCompensatedEffect, Halt, Close, Crash, Enter, Return,
              MarkEffectCompensationFailed, SetHalted, SetCompensated, MoveSession,
              storeVars, dbVars
<1>6. ASSUME NEW s \in Sessions, Caller(s) PROVE UNCHANGED <<undo, undone>>
  BY <1>6, Zenon DEF Caller, SetFailed, SetCompleted, SetCompensating, MoveSession, sagaVars
<1>7. ASSUME UNCHANGED allVars PROVE UNCHANGED <<undo, undone>>
  BY <1>7, Zenon DEF allVars, sagaVars, storeVars, dbVars
<1> QED BY <1>1, <1>2, <1>3, <1>4, <1>5, <1>6, <1>7, Zenon DEF SagaNext, Run

(* compensate_session implements the LIFO rollback of LifoUndo: its entries are
   settled from the top, whatever overlaps, fails or is cut off. *)
THEOREM Refinement == SagaSpec => ImplementsLifoUndo
<1>1. SagaInit => Abstract!Init
  <2> SUFFICES ASSUME SagaInit PROVE Abstract!Init
    OBVIOUS
  <2>1. \A e \in Effects : Status(e) \in {"none", "open"}
    BY Zenon DEF SagaInit, SagaLocalInit, Status
  <2> QED BY <2>1, Zenon DEF Abstract!Init, StackStatus
<1>2. SagaInv /\ [SagaNext]_allVars => [Abstract!Next]_StackStatus
  BY NextImplements, Zenon
<1> QED BY <1>1, <1>2, SagaInvariance, PTL DEF SagaSpec, ImplementsLifoUndo, Abstract!Spec

-----------------------------------------------------------------------------
(* The orchestrator beside the engine                                      *)

\* The entry at hand is on the stack, and there is only one.
LEMMA TopOnStack ==
    ASSUME SystemInv, NEW w \in Runners, Walking(w), NEW e \in Effects, IsTop(e, todo[w])
    PROVE  /\ Registered(e) /\ state[e] # "none"
           /\ \A f \in Effects : IsTop(f, todo[w]) => f = e
           /\ spc[w] = "mark" => e \in undone
<1>1. \A f \in Effects : IsTop(f, todo[w]) => Registered(f) /\ SessionOfEffect(f) = target[w]
  BY Zenon DEF SystemInv, TodoOnStack, IsTop
<1>2. state[e] # "none"
  BY <1>1, Zenon DEF SystemInv, EntryShape, Registered
<1>3. ASSUME NEW f \in Effects, IsTop(f, todo[w]) PROVE f = e
  <2>1. ~Above(f, e) /\ ~Above(e, f)
    BY <1>3, Zenon DEF IsTop
  <2>2. SessionOfEffect(f) = SessionOfEffect(e) /\ Registered(f) /\ Registered(e)
    BY <1>1, <1>3, Zenon
  <2>3. StepOf[e[1]] \in Nat /\ StepOf[f[1]] \in Nat
    BY SigAssumption DEF Effects
  <2>4. ~(StepOf[f[1]] > StepOf[e[1]]) /\ ~(StepOf[e[1]] > StepOf[f[1]])
    BY <2>1, <2>2, Zenon DEF Above
  <2>5. StepOf[e[1]] = StepOf[f[1]]
    BY <2>3, <2>4
  <2> QED BY <2>2, <2>5, Zenon DEF SystemInv, EntryShape, Registered
<1>4. spc[w] = "mark" => e \in undone
  BY Zenon DEF SystemInv, PostShape
<1> QED BY <1>1, <1>2, <1>3, <1>4, Zenon

\* What the orchestrator and the application write to the database.
SagaWrites ==
    /\ UNCHANGED <<result_snapshot, args_snapshot, approval, audit, month, expired>>
    /\ \/ UNCHANGED state
       \/ \E e \in Effects : state[e] # "none" /\ state' = [state EXCEPT ![e] = "compensation_failed"]
    /\ \/ UNCHANGED undo
       \/ \E e \in Effects, v \in {"compensated", "failed"} :
             /\ Registered(e) /\ (v = "compensated" => e \in undone)
             /\ undo' = [undo EXCEPT ![e] = v]
    /\ session' \in [Sessions -> SessionStates \cup {"none"}]
    /\ \A s \in Sessions : session[s] = "halted" => session'[s] = "halted"
    /\ undone \subseteq undone'

\* A session is moved.
LEMMA MoveWrites ==
    ASSUME SystemInv, NEW s \in Sessions, NEW from, NEW to \in SessionStates,
           "halted" \in from => to = "halted", MoveSession(s, from, to), UNCHANGED undone
    PROVE  SagaWrites
<1>1. session \in [Sessions -> SessionStates \cup {"none"}]
  BY Zenon DEF SystemInv, IndInv, StoreTypeOK
<1>2. /\ session' \in [Sessions -> SessionStates \cup {"none"}]
      /\ \A t \in Sessions : session[t] = "halted" => session'[t] = "halted"
  BY <1>1 DEF MoveSession
<1> QED BY <1>2, Zenon DEF SagaWrites, MoveSession, effectVars, approvalVars, clockVars

\* Every step of theirs writes no more than that.
LEMMA SagaNextWrites ==
    ASSUME SystemInv, SagaNext
    PROVE  SagaWrites
<1>1. session \in [Sessions -> SessionStates \cup {"none"}] /\ target \in [Runners -> Sessions]
  BY Zenon DEF SystemInv, IndInv, StoreTypeOK, SagaTypeOK
<1>2. ASSUME UNCHANGED storeVars, undone \subseteq undone' PROVE SagaWrites
  BY <1>1, <1>2, Zenon DEF SagaWrites, storeVars, dbVars, effectVars, approvalVars, clockVars
<1>3. ASSUME NEW w \in Runners,
             Load(w) \/ Unroutable(w) \/ Post(w) \/ Crash(w) \/ \E s \in Sessions : Enter(w, s)
      PROVE  SagaWrites
  <2>1. UNCHANGED storeVars /\ undone \subseteq undone'
    BY <1>3, Zenon DEF Load, Unroutable, Post, Crash, Return, Enter
  <2> QED BY <1>2, <2>1, Zenon
<1>4. ASSUME NEW w \in Runners, Compensated(w) PROVE SagaWrites
  <2>1. PICK e \in Effects : IsTop(e, todo[w]) /\ MarkCompensated(e)
    BY <1>4, Zenon DEF Compensated
  <2>2. spc[w] = "mark" /\ Walking(w) /\ UNCHANGED undone
    BY <1>4, Zenon DEF Compensated, Walking
  <2>3. Registered(e) /\ e \in undone
    BY <2>1, <2>2, TopOnStack, Zenon
  <2> QED BY <1>1, <2>1, <2>2, <2>3, Zenon
          DEF SagaWrites, MarkCompensated, effectVars, approvalVars, clockVars
<1>5. ASSUME NEW w \in Runners, FailEntry(w) PROVE SagaWrites
  <2>1. PICK e \in Effects : IsTop(e, todo[w]) /\ MarkCompensationFailed(e)
    BY <1>5, Zenon DEF FailEntry
  <2>2. Walking(w) /\ UNCHANGED undone
    BY <1>5, Zenon DEF FailEntry, Walking
  <2>3. Registered(e)
    BY <2>1, <2>2, TopOnStack, Zenon
  <2> QED BY <1>1, <2>1, <2>2, <2>3, Zenon
          DEF SagaWrites, MarkCompensationFailed, effectVars, approvalVars, clockVars
<1>6. ASSUME NEW w \in Runners, FailCompensatedEffect(w) PROVE SagaWrites
  <2>1. PICK e \in Effects : IsTop(e, todo[w]) /\ MarkEffectCompensationFailed(e)
    BY <1>6, Zenon DEF FailCompensatedEffect
  <2>2. Walking(w) /\ UNCHANGED undone
    BY <1>6, Zenon DEF FailCompensatedEffect, Walking
  <2>3. state[e] # "none"
    BY <2>1, <2>2, TopOnStack, Zenon
  <2> QED BY <1>1, <2>1, <2>2, <2>3, Zenon
          DEF SagaWrites, MarkEffectCompensationFailed, approvalVars, clockVars
<1>7. ASSUME NEW w \in Runners, Halt(w) \/ Close(w) PROVE SagaWrites
  <2>1. target[w] \in Sessions /\ UNCHANGED undone
    BY <1>1, <1>7, Zenon DEF Halt, Close, Return
  <2> QED BY <1>7, <2>1, MoveWrites, Zenon
          DEF Halt, Close, SetHalted, SetCompensated, SessionStates
<1>8. ASSUME NEW s \in Sessions, Caller(s) PROVE SagaWrites
  BY <1>8, MoveWrites, Zenon DEF Caller, SetFailed, SetCompleted, SetCompensating,
     SessionStates, sagaVars
<1> QED BY <1>3, <1>4, <1>5, <1>6, <1>7, <1>8, Zenon DEF SagaNext, Run

\* None of it disturbs the engine: rows and entries stay, halted sessions stay
\* halted, and the requests, the results and the approvals are left alone.
LEMMA EngineUndisturbed ==
    ASSUME SystemInv, SagaWrites, UNCHANGED <<callVars, due, runs>>
    PROVE  IndInv' /\ EntryShape' /\ EntriesGenuine'
<1>0. IndInv /\ EntryShape /\ EntriesGenuine
  BY Zenon DEF SystemInv
<1>1. /\ state \in [Effects -> EffectStates \cup {"none"}]
      /\ undo \in [Effects -> UndoStates \cup {"none"}]
  BY <1>0, Zenon DEF IndInv, StoreTypeOK
<1>2. \A e \in Effects : /\ state'[e] = "none" <=> state[e] = "none"
                         /\ state'[e] \in {state[e], "compensation_failed"}
  BY <1>1, Zenon DEF SagaWrites
<1>3. \A e \in Effects :
         /\ undo'[e] # "none" <=> undo[e] # "none"
         /\ undo'[e] \in {undo[e], "failed"} \/ (undo'[e] = "compensated" /\ e \in undone')
  BY <1>1, Zenon DEF SagaWrites, Registered
<1>4. UNCHANGED <<result_snapshot, args_snapshot, approval, audit, month, expired, pc, sig, eff,
                  sent, reply, tries, answer, due, runs>>
  BY Zenon DEF SagaWrites, callVars
<1>5. StoreTypeOK'
  <2>1. state' \in [Effects -> EffectStates \cup {"none"}]
    BY <1>1, Zenon DEF SagaWrites, EffectStates
  <2>2. undo' \in [Effects -> UndoStates \cup {"none"}]
    BY <1>1, Zenon DEF SagaWrites, UndoStates
  <2>3. StoreTypeOK /\ session' \in [Sessions -> SessionStates \cup {"none"}]
    BY <1>0, Zenon DEF SagaWrites, IndInv
  <2>4. UNCHANGED <<result_snapshot, args_snapshot, approval, audit, month, expired>>
    BY <1>4, Zenon
  <2> QED BY <2>1, <2>2, <2>3, <2>4, Zenon DEF StoreTypeOK
<1>6. EngineTypeOK' /\ RequestShape' /\ DueExist' /\ ResultIsGenuine'
  BY <1>0, <1>4, Zenon DEF IndInv, EngineTypeOK, RequestShape, DueExist, ResultIsGenuine
<1>7. RejectionHalts' /\ CommittedAtRest'
  BY <1>0, <1>2, <1>4, EffectSession, Zenon
     DEF IndInv, SagaWrites, RejectionHalts, CommittedAtRest
<1>8. \A d \in Calls : Quiet(d)
  BY <1>4, Zenon DEF Quiet
<1>9. IndInv'
  BY <1>0, <1>2, <1>3, <1>4, <1>5, <1>6, <1>7, <1>8, QuietStep, Zenon
<1>10. EntryShape'
  BY <1>0, <1>2, <1>3, Zenon DEF EntryShape
<1>11. EntriesGenuine'
  BY <1>0, <1>3, Zenon DEF EntriesGenuine, SagaWrites
<1> QED BY <1>9, <1>10, <1>11, Zenon

\* What the calls hold about their walks, apart from the database.
WalkInv == SagaTypeOK /\ TodoOnStack /\ PostShape /\ OwedCovered /\ RollbackComplete

\* Entries stay registered, and what is dealt with stays so.
EntriesStay ==
    \A e \in Effects : /\ Registered(e) => Registered(e)'
                       /\ Dealt(e) => Dealt(e)'
                       /\ e \in undone => e \in undone'

\* Call v is where it was.  A call that is not running owes nothing.
Resting(v) ==
    /\ spc'[v] = spc[v] /\ target'[v] = target[v] /\ todo'[v] = todo[v]
    /\ attempt'[v] = attempt[v] /\ outcome'[v] = outcome[v]
    /\ owed'[v] \in {owed[v], {}}

\* What WalkInv asks of call w after a step.
WalksOn(w) ==
    /\ Walking(w)' => \A e \in todo'[w] : SessionOfEffect(e) = target'[w] /\ Registered(e)'
    /\ spc'[w] = "mark" => \A e \in Effects : IsTop(e, todo'[w]) => e \in undone'
    /\ spc'[w] \in {"idle", "load", "call"} => attempt'[w] <= MaxRetries
    /\ Walking(w)' => \A e \in owed'[w] : e \in todo'[w] \/ Dealt(e)'
    /\ spc'[w] # "idle" => outcome'[w] = "none"
    /\ outcome'[w] = "compensated" => \A e \in owed'[w] : Dealt(e)'

\* The calls are independent of each other.
LEMMA WalkStep ==
    ASSUME SystemInv, EntriesStay, SagaTypeOK', owed' \in [Runners -> SUBSET Effects],
           \A v \in Runners : Resting(v) \/ WalksOn(v)
    PROVE  WalkInv'
<1>0. SagaTypeOK /\ TodoOnStack /\ PostShape /\ OwedCovered /\ RollbackComplete
  BY Zenon DEF SystemInv
<1>1. \A v \in Runners : todo[v] \in SUBSET Effects /\ owed[v] \in SUBSET Effects
  BY <1>0, Zenon DEF SagaTypeOK, OwedCovered
<1>2. TodoOnStack'
  BY <1>0, <1>1, Zenon DEF TodoOnStack, Resting, WalksOn, Walking, EntriesStay
<1>3. PostShape'
  <2>1. \A v \in Runners, e \in Effects : IsTop(e, todo[v])' <=> IsTop(e, todo'[v])
    BY Zenon DEF IsTop, Above
  <2> QED BY <1>0, <2>1, Zenon DEF PostShape, Resting, WalksOn, EntriesStay
<1>4. OwedCovered'
  BY <1>0, <1>1, Zenon DEF OwedCovered, Resting, WalksOn, Walking, EntriesStay
<1>5. RollbackComplete'
  BY <1>0, <1>1, Zenon DEF RollbackComplete, Resting, WalksOn, EntriesStay
<1> QED BY <1>2, <1>3, <1>4, <1>5, Zenon DEF WalkInv

\* The orchestrator forgets no entry.
LEMMA SagaEntriesStay ==
    ASSUME SystemInv, SagaWrites
    PROVE  EntriesStay
<1>1. undo \in [Effects -> UndoStates \cup {"none"}]
  BY Zenon DEF SystemInv, IndInv, StoreTypeOK
<1>2. \A e \in Effects :
         \/ undo'[e] = undo[e]
         \/ undo'[e] = "failed"
         \/ undo'[e] = "compensated" /\ e \in undone'
  BY <1>1, Zenon DEF SagaWrites
<1> QED BY <1>2, Zenon DEF EntriesStay, SagaWrites, Registered, Dealt

\* What a step of the orchestrator does to what the calls owe.
Owing ==
    owed' = [w \in Runners |->
                IF spc[w] = "load" /\ spc'[w] = "call" THEN RanIn(target[w])
                ELSE IF spc[w] = "idle" THEN {} ELSE owed[w]]

\* A step of call w alone.
LEMMA OneWalks ==
    ASSUME SystemInv, SagaWrites, Owing, NEW w \in Runners, SagaTypeOK', WalksOn(w),
           \A v \in Runners \ {w} : /\ spc'[v] = spc[v] /\ target'[v] = target[v]
                                    /\ todo'[v] = todo[v] /\ attempt'[v] = attempt[v]
                                    /\ outcome'[v] = outcome[v]
    PROVE  WalkInv'
<1>1. owed \in [Runners -> SUBSET Effects]
  BY Zenon DEF SystemInv, OwedCovered
<1>2. owed' \in [Runners -> SUBSET Effects]
  BY <1>1, Zenon DEF Owing, RanIn
<1>3. \A v \in Runners \ {w} : Resting(v)
  BY Zenon DEF Resting, Owing
<1>4. EntriesStay
  BY SagaEntriesStay, Zenon
<1> QED BY <1>2, <1>3, <1>4, WalkStep, Zenon

\* Facts about a running call.
LEMMA AtWork ==
    ASSUME SystemInv, NEW w \in Runners
    PROVE  /\ Walking(w) => /\ \A e \in todo[w] : SessionOfEffect(e) = target[w] /\ Registered(e)
                            /\ \A e \in owed[w] : e \in todo[w] \/ Dealt(e)
           /\ spc[w] # "idle" => outcome[w] = "none"
           /\ spc[w] \in {"idle", "load", "call"} => attempt[w] <= MaxRetries
           /\ todo[w] \in SUBSET Effects /\ owed[w] \in SUBSET Effects
BY Zenon DEF SystemInv, TodoOnStack, OwedCovered, PostShape, SagaTypeOK

\* compensate_session is called.
LEMMA EnterWalk ==
    ASSUME SystemInv, Owing, NEW w \in Runners, NEW s \in Sessions, Enter(w, s), SagaWrites
    PROVE  WalkInv'
<1>0. SagaTypeOK /\ session[s] \in Outcomes
  BY Zenon DEF SystemInv, IndInv, StoreTypeOK, Enter, Outcomes
<1>1. SagaTypeOK'
  BY <1>0, Zenon DEF Enter, SagaTypeOK, SagaPCs, Outcomes
<1>2. /\ spc[w] = "idle" /\ spc'[w] \in {"idle", "load"} /\ owed'[w] = {}
      /\ spc'[w] # "idle" => outcome'[w] = "none"
      /\ attempt'[w] <= MaxRetries
  BY <1>0, AtWork, Zenon DEF Enter, SagaTypeOK, Owing
<1>3. WalksOn(w)
  BY <1>2, Zenon DEF WalksOn, Walking
<1> QED BY <1>0, <1>1, <1>3, OneWalks, Zenon DEF Enter, SagaTypeOK

\* Every compensable tool that has run is on the stack, or its entry has been
\* dealt with.
LEMMA LoadWalk ==
    ASSUME SystemInv, Owing, NEW w \in Runners, Load(w), SagaWrites
    PROVE  WalkInv'
<1>0. SagaTypeOK /\ EntriesGenuine /\ UndoRegisteredFirst
  BY Zenon DEF SystemInv, IndInv
<1>1. SagaTypeOK'
  BY <1>0, Zenon DEF Load, Step, LoadUndoStack, SagaTypeOK, SagaPCs
<1>2. /\ spc[w] = "load" /\ spc'[w] = "call" /\ todo'[w] = LoadUndoStack(target[w])
      /\ target'[w] = target[w] /\ outcome'[w] = outcome[w] /\ attempt'[w] = attempt[w]
      /\ owed'[w] = RanIn(target[w])
      /\ UNCHANGED <<undo, undone>>
  BY <1>0, Zenon DEF Load, Step, SagaTypeOK, Owing, storeVars, dbVars
<1>3. \A e \in LoadUndoStack(target[w]) : SessionOfEffect(e) = target[w] /\ Registered(e)
  BY Zenon DEF LoadUndoStack, Registered
<1>4. ASSUME NEW e \in RanIn(target[w]) PROVE e \in LoadUndoStack(target[w]) \/ Dealt(e)
  <2>1. /\ e \in Effects /\ SessionOfEffect(e) = target[w]
        /\ TierOfEffect(e) = "compensable" /\ Released(e)
    BY <1>4, Zenon DEF RanIn, Released
  <2>2. undo[e] \in {"pending", "compensated", "failed"}
    BY <1>0, <2>1, Zenon DEF UndoRegisteredFirst, EntriesGenuine
  <2> QED BY <1>0, <2>1, <2>2, Zenon DEF LoadUndoStack, Dealt, EntriesGenuine
<1>5. WalksOn(w)
  <2>1. outcome'[w] = "none" /\ attempt'[w] <= MaxRetries
    BY <1>2, AtWork, Zenon
  <2>2. \A e \in Effects : (Registered(e) => Registered(e)') /\ (Dealt(e) => Dealt(e)')
    BY SagaEntriesStay, Zenon DEF EntriesStay
  <2>3. LoadUndoStack(target[w]) \subseteq Effects /\ RanIn(target[w]) \subseteq Effects
    BY Zenon DEF LoadUndoStack, RanIn
  <2> QED BY <1>2, <1>3, <1>4, <2>1, <2>2, <2>3, Zenon DEF WalksOn
<1> QED BY <1>0, <1>1, <1>5, OneWalks, Zenon DEF Load, Step, SagaTypeOK

\* A call that goes on with the same list.
LEMMA SameList ==
    ASSUME SystemInv, SagaWrites, Owing, NEW w \in Runners, Walking(w), Walking(w)', SagaTypeOK',
           spc'[w] = "mark" => \A e \in Effects : IsTop(e, todo[w]) => e \in undone',
           spc'[w] = "call" => attempt'[w] <= MaxRetries,
           UNCHANGED <<target, outcome, todo>>,
           \A v \in Runners \ {w} : spc'[v] = spc[v] /\ attempt'[v] = attempt[v]
    PROVE  WalkInv'
<1>1. owed'[w] = owed[w]
  BY Zenon DEF Owing, Walking
<1>2. EntriesStay
  BY SagaEntriesStay, Zenon
<1>3. WalksOn(w)
  BY <1>1, <1>2, AtWork, Zenon DEF WalksOn, Walking, EntriesStay
<1> QED BY <1>3, OneWalks, Zenon

\* A request is sent, or there is no endpoint to send it to.
LEMMA CallWalk ==
    ASSUME SystemInv, Owing, NEW w \in Runners, Unroutable(w) \/ Post(w), SagaWrites
    PROVE  WalkInv'
<1>0. SagaTypeOK
  BY Zenon DEF SystemInv
<1>1. /\ spc[w] = "call" /\ Walking(w)
      /\ UNCHANGED <<target, outcome, todo>>
      /\ spc'[w] \in {"call", "mark", "fail_entry"}
      /\ \A v \in Runners \ {w} : spc'[v] = spc[v] /\ attempt'[v] = attempt[v]
  BY <1>0, Zenon DEF Unroutable, Post, Step, SagaTypeOK, Walking
<1>2. attempt[w] \in Nat /\ attempt[w] <= MaxRetries
  <2>1. attempt[w] \in 0..MaxRetries + 1
    BY <1>0, Zenon DEF SagaTypeOK
  <2>2. attempt[w] <= MaxRetries
    BY <1>1, AtWork, Zenon
  <2> QED BY <2>1, <2>2, SagaAssumption
<1>3. CASE Unroutable(w)
  <2>1. SagaTypeOK'
    BY <1>0, <1>3, Zenon DEF Unroutable, Step, SagaTypeOK, SagaPCs
  <2>2. spc'[w] = "fail_entry"
    BY <1>0, <1>3, Zenon DEF Unroutable, Step, SagaTypeOK
  <2> QED BY <1>1, <2>1, <2>2, SameList, Zenon DEF Walking
<1>4. CASE Post(w)
  <2>1. PICK e \in Effects :
          /\ IsTop(e, todo[w]) /\ undone' \in {undone, undone \cup {e}}
          /\ \/ spc' = [spc EXCEPT ![w] = "mark"] /\ undone' = undone \cup {e}
             \/ spc' = [spc EXCEPT ![w] = "fail_entry"]
             \/ spc' = [spc EXCEPT ![w] = "call"] /\ ~(attempt[w] + 1 > MaxRetries)
    BY <1>4, Zenon DEF Post, Step
  <2>2. attempt' = [attempt EXCEPT ![w] = attempt[w] + 1]
    BY <1>4, Zenon DEF Post
  <2>3. attempt[w] + 1 \in 0..MaxRetries + 1
    BY <1>2, SagaAssumption
  <2>4. ~(attempt[w] + 1 > MaxRetries) => attempt[w] + 1 <= MaxRetries
    BY <1>2, SagaAssumption
  <2>5. SagaTypeOK'
    <3>1. spc' \in [Runners -> SagaPCs] /\ undone' \in SUBSET Effects
      BY <1>0, <2>1, Zenon DEF SagaTypeOK, SagaPCs
    <3>2. attempt' \in [Runners -> 0..MaxRetries + 1]
      BY <1>0, <2>2, <2>3, Zenon DEF SagaTypeOK
    <3> QED BY <1>0, <1>1, <3>1, <3>2, Zenon DEF SagaTypeOK
  <2>6. attempt'[w] = attempt[w] + 1
    BY <1>0, <2>2, Zenon DEF SagaTypeOK
  <2>7. spc'[w] = "call" => attempt'[w] <= MaxRetries
    BY <1>0, <2>1, <2>4, <2>6, Zenon DEF SagaTypeOK
  <2>8. spc'[w] = "mark" => e \in undone'
    BY <1>0, <2>1, Zenon DEF SagaTypeOK
  <2>9. \A f \in Effects : IsTop(f, todo[w]) => f = e
    BY <1>1, <2>1, TopOnStack, Zenon
  <2> QED BY <1>1, <2>5, <2>7, <2>8, <2>9, SameList, Zenon DEF Walking
<1> QED BY <1>3, <1>4, Zenon

\* A failure is recorded.
LEMMA FailWalk ==
    ASSUME SystemInv, Owing, NEW w \in Runners, FailEntry(w) \/ FailCompensatedEffect(w), SagaWrites
    PROVE  WalkInv'
<1>0. SagaTypeOK
  BY Zenon DEF SystemInv
<1>1. SagaTypeOK'
  BY <1>0, Zenon DEF FailEntry, FailCompensatedEffect, Step, SagaTypeOK, SagaPCs
<1>2. /\ Walking(w) /\ spc'[w] \in {"fail_effect", "halt"}
      /\ UNCHANGED <<target, outcome, todo, attempt>>
      /\ \A v \in Runners \ {w} : spc'[v] = spc[v]
  BY <1>0, Zenon DEF FailEntry, FailCompensatedEffect, Step, SagaTypeOK, Walking
<1> QED BY <1>1, <1>2, SameList, Zenon DEF Walking

\* mark_entry_compensated: the entry leaves the list, dealt with.
LEMMA CompensatedWalk ==
    ASSUME SystemInv, Owing, NEW w \in Runners, Compensated(w), SagaWrites
    PROVE  WalkInv'
<1>0. SagaTypeOK
  BY Zenon DEF SystemInv
<1>1. PICK e \in Effects : IsTop(e, todo[w]) /\ todo' = [todo EXCEPT ![w] = @ \ {e}]
  BY Zenon DEF Compensated
<1>2. /\ spc[w] = "mark" /\ Walking(w)
      /\ spc' = [spc EXCEPT ![w] = "call"] /\ attempt' = [attempt EXCEPT ![w] = 0]
      /\ UNCHANGED <<target, outcome, undone>>
  BY Zenon DEF Compensated, Step, Walking
<1>3. 0 \in 0..MaxRetries + 1 /\ 0 <= MaxRetries
  BY SagaAssumption
<1>4. SagaTypeOK'
  BY <1>0, <1>1, <1>2, <1>3, Zenon DEF SagaTypeOK, SagaPCs
<1>5. /\ spc'[w] = "call" /\ attempt'[w] = 0 /\ todo'[w] = todo[w] \ {e}
      /\ \A v \in Runners \ {w} :
            spc'[v] = spc[v] /\ attempt'[v] = attempt[v] /\ todo'[v] = todo[v]
  BY <1>0, <1>1, <1>2, Zenon DEF SagaTypeOK
<1>6. owed'[w] = owed[w]
  BY <1>2, Zenon DEF Owing
<1>7. e \in undone'
  BY <1>1, <1>2, TopOnStack, Zenon
<1>8. EntriesStay
  BY SagaEntriesStay, Zenon
<1>9. WalksOn(w)
  BY <1>2, <1>3, <1>5, <1>6, <1>7, <1>8, AtWork, Zenon DEF WalksOn, EntriesStay, Dealt
<1> QED BY <1>2, <1>4, <1>5, <1>9, OneWalks, Zenon

\* compensate_session answers "compensated" with an empty list only.
LEMMA EndWalk ==
    ASSUME SystemInv, Owing, NEW w \in Runners, Halt(w) \/ Close(w) \/ Crash(w), SagaWrites
    PROVE  WalkInv'
<1>0. SagaTypeOK /\ 0 \in 0..MaxRetries + 1 /\ 0 <= MaxRetries
  BY SagaAssumption DEF SystemInv
<1>1. PICK what \in {"halted", "compensated", "error"} :
        /\ Return(w, what)
        /\ what = "compensated" => spc[w] = "call" /\ todo[w] = {}
  BY Zenon DEF Halt, Close, Crash
<1>2. SagaTypeOK'
  BY <1>0, <1>1, Zenon DEF Return, SagaTypeOK, SagaPCs, Outcomes, SessionStates
<1>3. /\ spc'[w] = "idle" /\ attempt'[w] = 0 /\ outcome'[w] = what
      /\ \A v \in Runners \ {w} : /\ spc'[v] = spc[v] /\ attempt'[v] = attempt[v]
                                  /\ todo'[v] = todo[v] /\ outcome'[v] = outcome[v]
      /\ UNCHANGED target
  BY <1>0, <1>1, Zenon DEF Return, SagaTypeOK
<1>4. what = "compensated" => \A e \in owed'[w] : Dealt(e)'
  <2> SUFFICES ASSUME what = "compensated" PROVE \A e \in owed'[w] : Dealt(e)'
    BY Zenon
  <2>1. Walking(w) /\ owed'[w] = owed[w]
    BY <1>1, Zenon DEF Walking, Owing
  <2> QED BY <1>1, <2>1, AtWork, SagaEntriesStay, Zenon DEF EntriesStay
<1>5. WalksOn(w)
  BY <1>0, <1>3, <1>4, Zenon DEF WalksOn, Walking
<1> QED BY <1>2, <1>3, <1>5, OneWalks, Zenon

\* The application writes the session only.
LEMMA CallerWalk ==
    ASSUME SystemInv, Owing, NEW s \in Sessions, Caller(s), SagaWrites
    PROVE  WalkInv'
<1>1. UNCHANGED <<spc, target, todo, attempt, outcome, undone>>
  BY Zenon DEF Caller, sagaVars
<1>2. SagaTypeOK' /\ owed \in [Runners -> SUBSET Effects]
  BY <1>1, Zenon DEF SystemInv, SagaTypeOK, OwedCovered
<1>3. owed' \in [Runners -> SUBSET Effects]
  BY <1>2, Zenon DEF Owing, RanIn
<1>4. \A v \in Runners : Resting(v)
  BY <1>1, Zenon DEF Resting, Owing
<1> QED BY <1>2, <1>3, <1>4, SagaEntriesStay, WalkStep, Zenon

\* A step of the orchestrator or the application.
LEMMA SagaStepInv ==
    ASSUME SystemInv, SagaStep
    PROVE  SystemInv'
<1>1. SagaWrites /\ SagaNext /\ Owing
  BY SagaNextWrites, Zenon DEF SagaStep, Owing
<1>2. IndInv' /\ EntryShape' /\ EntriesGenuine'
  BY <1>1, EngineUndisturbed, Zenon DEF SagaStep
<1>3. WalkInv'
  BY <1>1, EnterWalk, LoadWalk, CallWalk, FailWalk, CompensatedWalk, EndWalk, CallerWalk, Zenon
     DEF SagaNext, Run
<1> QED BY <1>2, <1>3, Zenon DEF SystemInv, WalkInv

\* A step of the engine may push an entry and leaves the calls alone.
LEMMA EngineStepInv ==
    ASSUME SystemInv, [Next]_vars, UNCHANGED <<sagaVars, owed>>
    PROVE  SystemInv'
<1>0. IndInv /\ EntryShape /\ EntriesGenuine
  BY Zenon DEF SystemInv
<1>1. IndInv' /\ EntryShape'
  BY <1>0, NextIndInv, EntryShapeStep, Zenon
<1>2. UNCHANGED <<spc, target, todo, attempt, outcome, undone, owed>>
  BY Zenon DEF sagaVars
<1>3. \A e \in Effects : undo'[e] = undo[e] \/ (undo[e] = "none" /\ undo'[e] = "pending")
  <2>1. ASSUME NEW c \in Calls, Push(c), NEW e \in Effects
        PROVE  undo'[e] = undo[e] \/ (undo[e] = "none" /\ undo'[e] = "pending")
    <3>1. eff[c] \in Effects /\ undo'[eff[c]] = "pending" /\ (e # eff[c] => undo'[e] = undo[e])
      BY <1>0, <2>1, PushDoes, Zenon DEF Pushed
    <3>2. undo[eff[c]] = "none"
      BY <2>1, <3>1, Zenon DEF Push, PushUndoEntry, PositionTaken
    <3> QED BY <3>1, <3>2, Zenon
  <2> QED BY <2>1, Writers, Zenon
<1>4. EntriesGenuine' /\ EntriesStay
  BY <1>0, <1>2, <1>3, Zenon DEF EntriesGenuine, EntriesStay, Registered, Dealt
<1>5. SagaTypeOK' /\ owed' \in [Runners -> SUBSET Effects]
  BY <1>2, Zenon DEF SystemInv, SagaTypeOK, OwedCovered
<1>6. \A v \in Runners : Resting(v)
  BY <1>2, Zenon DEF Resting
<1>7. WalkInv'
  BY <1>4, <1>5, <1>6, WalkStep, Zenon
<1> QED BY <1>1, <1>4, <1>7, Zenon DEF SystemInv, WalkInv

\* Nothing is on the stacks and nobody walks at the start.
LEMMA InitSystemInv == SystemInit => SystemInv
<1> SUFFICES ASSUME SystemInit PROVE SystemInv
  OBVIOUS
<1>1. IndInv /\ EntryShape
  BY InitIndInv, EntryShapeInit, Zenon DEF SystemInit
<1>2. SagaTypeOK
  BY SagaAssumption DEF SystemInit, SagaLocalInit, SagaTypeOK, SagaPCs, Outcomes
<1>3. /\ \A w \in Runners : spc[w] = "idle" /\ attempt[w] = 0 /\ owed[w] = {}
      /\ \A e \in Effects : undo[e] = "none"
  BY Zenon DEF SystemInit, SagaLocalInit, Init, StoreInit
<1>4. 0 <= MaxRetries
  BY SagaAssumption
<1>5. TodoOnStack /\ PostShape /\ EntriesGenuine /\ RollbackComplete
  BY <1>3, <1>4, Zenon DEF TodoOnStack, PostShape, EntriesGenuine, RollbackComplete, Walking
<1>6. OwedCovered
  BY <1>3, Zenon DEF OwedCovered, SystemInit, Walking
<1> QED BY <1>1, <1>2, <1>5, <1>6, Zenon DEF SystemInv

(* SystemInv holds however tool calls, decisions, timeouts and calls of
   compensate_session for the same sessions interleave and crash. *)
THEOREM SystemInvariance == SystemSpec => []SystemInv
<1>1. SystemInv /\ [SystemNext]_allTheVars => SystemInv'
  <2> SUFFICES ASSUME SystemInv, [SystemNext]_allTheVars PROVE SystemInv'
    OBVIOUS
  <2>1. CASE UNCHANGED allTheVars
    <3>1. [Next]_vars /\ UNCHANGED <<sagaVars, owed>>
      BY <2>1, Zenon DEF allTheVars
    <3> QED BY <3>1, EngineStepInv, Zenon
  <2>2. CASE EngineStep
    BY <2>2, EngineStepInv, Zenon DEF EngineStep
  <2>3. CASE SagaStep
    BY <2>3, SagaStepInv, Zenon
  <2> QED BY <2>1, <2>2, <2>3, Zenon DEF SystemNext
<1> QED BY <1>1, InitSystemInv, PTL DEF SystemSpec

(* When compensate_session answers "compensated", every compensable tool that
   had run when it loaded the stack has been undone or its entry is recorded as
   failed, though the agent goes on calling tools: intercept's push_undo_entry
   before set_executing, and the orchestrator's walk. *)
THEOREM Rollback == SystemSpec => []RollbackComplete
<1>1. SystemInv => RollbackComplete
  BY Zenon DEF SystemInv
<1> QED BY <1>1, SystemInvariance, PTL

(* The engine keeps its promises while its sessions are compensated: the
   orchestrator's mark_compensated, mark_effect_compensation_failed and
   set_halted give no tool a second run and no gate a way round. *)
THEOREM EngineSafeBesideSaga ==
    SystemSpec => [](AtMostOneRun /\ CompensableOnce /\ UndoRegisteredFirst /\ HumanGate
                     /\ ResultIsGenuine /\ RejectionHalts)
<1>1. SystemInv => /\ AtMostOneRun /\ UndoRegisteredFirst /\ HumanGate /\ ResultIsGenuine
                   /\ RejectionHalts
  BY Zenon DEF SystemInv, IndInv
<1>2. SystemInv => CompensableOnce
  BY OnceByPosition, Zenon DEF SystemInv
<1> QED BY <1>1, <1>2, SystemInvariance, PTL
=============================================================================
