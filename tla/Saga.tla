-------------------------------- MODULE Saga --------------------------------
(***************************************************************************)
(* The saga orchestrator (crates/undolog-saga): compensate_session walks   *)
(* the undo stack of a session from the top, posts each compensation to    *)
(* its endpoint with the idempotency key of the entry, and records the     *)
(* outcome in the database of EffectStore.                                 *)
(*                                                                         *)
(* A process of Runners is one call of compensate_session at a time; calls *)
(* for the same session may overlap, and each of them may be cut off after *)
(* any statement (a crash, or a store error, which the code returns at     *)
(* once).  SagaSpec starts from a session whose agent has stopped: its     *)
(* stack does not grow while it is compensated.  Module UndoLog drops      *)
(* that assumption.                                                        *)
(***************************************************************************)
EXTENDS EffectStore

CONSTANTS
    Runners,        \* calls of compensate_session in progress at the same time
    MaxRetries,     \* retry_policy(..).max_retries
    NoEndpoint      \* signatures whose compensation key the registry does not know

ASSUME SagaAssumption ==
    /\ MaxRetries \in Nat
    /\ NoEndpoint \subseteq Sigs

VARIABLES
    spc,        \* where each call is
    target,     \* the session it compensates
    todo,       \* the entries it loaded and has not dealt with
    attempt,    \* requests it sent for the entry at hand
    outcome,    \* what its last call returned
    undone      \* the entries whose endpoint has carried out the compensation

sagaVars == <<spc, target, todo, attempt, outcome, undone>>
allVars  == <<storeVars, sagaVars>>

SagaPCs  == {"idle", "load", "call", "mark", "fail_entry", "fail_effect", "halt"}
Outcomes == SessionStates \cup {"none", "error"}

SagaTypeOK ==
    /\ spc \in [Runners -> SagaPCs]
    /\ target \in [Runners -> Sessions]
    /\ todo \in [Runners -> SUBSET Effects]
    /\ attempt \in [Runners -> 0..MaxRetries + 1]
    /\ outcome \in [Runners -> Outcomes]
    /\ undone \in SUBSET Effects

Registered(e) == undo[e] # "none"
Above(f, e)   == SessionOfEffect(f) = SessionOfEffect(e) /\ StepOf[f[1]] > StepOf[e[1]]

\* Faulty variant: ORDER BY stack_position.
IsBottom(e, S) == e \in S /\ \A f \in S : ~Above(e, f)

\* ORDER BY stack_position DESC: the next entry of a loaded stack.
IsTop(e, S) == e \in S /\ \A f \in S : ~Above(f, e)

SagaLocalInit ==
    /\ spc = [w \in Runners |-> "idle"]
    /\ target \in [Runners -> Sessions]
    /\ todo = [w \in Runners |-> {}]
    /\ attempt = [w \in Runners |-> 0]
    /\ outcome = [w \in Runners |-> "none"]
    /\ undone = {}

\* Committed effects with their entries; UNIQUE (session_id, stack_position).
SagaInit ==
    /\ month = 1
    /\ session \in [Sessions -> {"active", "awaiting_approval"}]
    /\ approvals_pending = [s \in Sessions |-> 0]
    /\ undo \in [Effects -> {"none", "pending"}]
    /\ \A e \in Effects : Registered(e) => TierOfEffect(e) = "compensable"
    /\ \A e, f \in Effects :
          /\ Registered(e) /\ Registered(f) /\ e # f
          /\ SessionOfEffect(e) = SessionOfEffect(f)
          => StepOf[e[1]] # StepOf[f[1]]
    /\ state = [e \in Effects |-> IF Registered(e) THEN "committed" ELSE "none"]
    /\ result_snapshot = [e \in Effects |-> IF Registered(e) THEN "ok" ELSE "null"]
    /\ args_snapshot = [e \in Effects |-> "proposed"]
    /\ approval = [e \in Effects |-> "none"]
    /\ expired = {}
    /\ audit = [e \in Effects |-> [a \in Actions |-> 0]]
    /\ SagaLocalInit

-----------------------------------------------------------------------------
(* Statements                                                              *)

SessionTerminal(s) == session[s] \in {"completed", "compensated", "halted"}

LoadUndoStack(s) == {e \in Effects : SessionOfEffect(e) = s /\ undo[e] = "pending"}

MarkCompensated(e) ==
    /\ undo' = [undo EXCEPT ![e] = "compensated"]
    /\ UNCHANGED <<effectVars, approvalVars, session, clockVars>>

MarkCompensationFailed(e) ==
    /\ undo' = [undo EXCEPT ![e] = "failed"]
    /\ UNCHANGED <<effectVars, approvalVars, session, clockVars>>

MarkEffectCompensationFailed(e) ==
    /\ state' = [state EXCEPT ![e] = "compensation_failed"]
    /\ UNCHANGED <<result_snapshot, args_snapshot, approvalVars, undo, session, clockVars>>

\* UPDATE ... SET state = to WHERE state IN (from): any other session stays.
MoveSession(s, from, to) ==
    /\ session' = [session EXCEPT ![s] = IF @ \in from THEN to ELSE @]
    /\ UNCHANGED <<effectVars, approvalVars, undo, clockVars>>

SetFailed(s)       == MoveSession(s, {"active"}, "failed")
SetCompleted(s)    == MoveSession(s, {"active"}, "completed")
SetCompensating(s) == MoveSession(s, {"active", "awaiting_approval", "failed"}, "compensating")

\* Faulty variant: without the list of states.
SetCompensatedAlways(s) == MoveSession(s, SessionStates, "compensated")

SetCompensated(s) == MoveSession(s, {"active", "failed", "compensating"}, "compensated")

\* Without a condition on the state.
SetHalted(s) == MoveSession(s, SessionStates, "halted")

-----------------------------------------------------------------------------
(* compensate_session                                                      *)

Step(w, next) ==
    /\ spc' = [spc EXCEPT ![w] = next]
    /\ UNCHANGED <<target, outcome>>

Return(w, what) ==
    /\ spc' = [spc EXCEPT ![w] = "idle"]
    /\ outcome' = [outcome EXCEPT ![w] = what]
    /\ todo' = [todo EXCEPT ![w] = {}]
    /\ attempt' = [attempt EXCEPT ![w] = 0]
    /\ UNCHANGED <<target, undone>>

\* load_session: a terminal session is returned as it is.
Enter(w, s) ==
    /\ spc[w] = "idle"
    /\ session[s] # "none"
    /\ target' = [target EXCEPT ![w] = s]
    /\ IF SessionTerminal(s)
       THEN outcome' = [outcome EXCEPT ![w] = session[s]] /\ UNCHANGED spc
       ELSE spc' = [spc EXCEPT ![w] = "load"] /\ outcome' = [outcome EXCEPT ![w] = "none"]
    /\ UNCHANGED <<storeVars, todo, attempt, undone>>

Load(w) ==
    /\ spc[w] = "load"
    /\ todo' = [todo EXCEPT ![w] = LoadUndoStack(target[w])]
    /\ Step(w, "call")
    /\ UNCHANGED <<storeVars, attempt, undone>>

\* endpoint_for finds nothing, so nothing is sent.
Unroutable(w) ==
    /\ spc[w] = "call"
    /\ \E e \in Effects : IsTop(e, todo[w]) /\ e[1] \in NoEndpoint
    /\ Step(w, "fail_entry")
    /\ UNCHANGED <<storeVars, todo, attempt, undone>>

\* Faulty variant: any answer is taken for a success.
PostTrusting(w) ==
    /\ spc[w] = "call"
    /\ \E e \in Effects :
          /\ IsTop(e, todo[w])
          /\ e[1] \notin NoEndpoint
          /\ undone' \in {undone, undone \cup {e}}
    /\ Step(w, "mark")
    /\ attempt' = [attempt EXCEPT ![w] = @ + 1]
    /\ UNCHANGED <<storeVars, todo>>

\* Faulty variant: each failure starts the count again.
PostForEver(w) ==
    /\ spc[w] = "call"
    /\ \E e \in Effects :
          /\ IsTop(e, todo[w])
          /\ e[1] \notin NoEndpoint
          /\ \/ undone' = undone \cup {e} /\ Step(w, "mark")
             \/ UNCHANGED undone /\ Step(w, "call")
    /\ attempt' = [attempt EXCEPT ![w] = (@ + 1) % (MaxRetries + 1)]
    /\ UNCHANGED <<storeVars, todo>>

\* One POST, and the answer that gets back.  The endpoint honours the
\* idempotency key: it carries an entry out at most once, and what it has
\* carried out it does not refuse later.
Post(w) ==
    /\ spc[w] = "call"
    /\ \E e \in Effects :
          /\ IsTop(e, todo[w])
          /\ e[1] \notin NoEndpoint
          /\ \/ undone' = undone \cup {e} /\ Step(w, "mark")          \* 2xx
             \/ e \notin undone /\ UNCHANGED undone /\ Step(w, "fail_entry")  \* 4xx
             \/ /\ undone' \in {undone, undone \cup {e}}              \* 5xx, 429, no answer
                /\ Step(w, IF attempt[w] + 1 > MaxRetries THEN "fail_entry" ELSE "call")
    /\ attempt' = [attempt EXCEPT ![w] = @ + 1]
    /\ UNCHANGED <<storeVars, todo>>

\* mark_entry_compensated, and on to the next entry.
Compensated(w) ==
    /\ spc[w] = "mark"
    /\ \E e \in Effects :
          /\ IsTop(e, todo[w])
          /\ MarkCompensated(e)
          /\ todo' = [todo EXCEPT ![w] = @ \ {e}]
    /\ attempt' = [attempt EXCEPT ![w] = 0]
    /\ Step(w, "call")
    /\ UNCHANGED undone

FailEntry(w) ==
    /\ spc[w] = "fail_entry"
    /\ \E e \in Effects : IsTop(e, todo[w]) /\ MarkCompensationFailed(e)
    /\ Step(w, "fail_effect")
    /\ UNCHANGED <<todo, attempt, undone>>

FailCompensatedEffect(w) ==
    /\ spc[w] = "fail_effect"
    /\ \E e \in Effects : IsTop(e, todo[w]) /\ MarkEffectCompensationFailed(e)
    /\ Step(w, "halt")
    /\ UNCHANGED <<todo, attempt, undone>>

Halt(w) ==
    /\ spc[w] = "halt"
    /\ SetHalted(target[w])
    /\ Return(w, "halted")

\* Every loaded entry is compensated.
Close(w) ==
    /\ spc[w] = "call"
    /\ todo[w] = {}
    /\ SetCompensated(target[w])
    /\ Return(w, "compensated")

Crash(w) ==
    /\ spc[w] # "idle"
    /\ Return(w, "error")
    /\ UNCHANGED storeVars

Run(w) ==
    \/ Load(w) \/ Unroutable(w) \/ Post(w) \/ Compensated(w)
    \/ FailEntry(w) \/ FailCompensatedEffect(w) \/ Halt(w) \/ Close(w)

\* The application that owns the session reports on it.
Caller(s) == UNCHANGED sagaVars /\ (SetFailed(s) \/ SetCompleted(s) \/ SetCompensating(s))

SagaNext ==
    \/ \E w \in Runners : Run(w) \/ Crash(w) \/ \E s \in Sessions : Enter(w, s)
    \/ \E s \in Sessions : Caller(s)

SagaSpec == SagaInit /\ [][SagaNext]_allVars

\* The runtime polls every call that can move.
FairSagaSpec == SagaSpec /\ \A w \in Runners : WF_allVars(Run(w))
-----------------------------------------------------------------------------
Status(e) ==
    IF undo[e] = "none" THEN "none"
    ELSE IF e \in undone THEN "undone"
    ELSE IF undo[e] = "failed" THEN "failed" ELSE "open"

StackStatus == [e \in Effects |-> Status(e)]

Abstract == INSTANCE LifoUndo WITH
    Entries  <- Effects,
    Stack    <- [e \in Effects |-> SessionOfEffect(e)],
    Position <- [e \in Effects |-> StepOf[e[1]]],
    status   <- StackStatus

(* compensate_session, called as often and as concurrently as one likes and
   cut off anywhere, deals with the entries of a stack from the top. *)
ImplementsLifoUndo == Abstract!Spec

Dealt(e) == e \in undone \/ undo[e] = "failed"

(* Last in, first out: a compensation is carried out only when everything
   above it on the stack has been, or has failed, also when calls overlap,
   are cut off and start again from the database. *)
LifoOrder ==
    \A e, f \in Effects :
        e \in undone /\ Registered(f) /\ Above(f, e) => Dealt(f)

(* An entry is recorded as compensated, and a session as compensated, only
   after the endpoints have answered: no crash or overlap leaves an entry of a
   compensated session pending. *)
NothingForgotten ==
    /\ \A e \in Effects : undo[e] = "compensated" => e \in undone
    /\ \A e \in Effects :
          session[SessionOfEffect(e)] = "compensated" => undo[e] # "pending"

(* A halted session waits for a human: no overlapping call and no report of
   the application moves it on. *)
HaltedStays ==
    [][\A s \in Sessions : session[s] = "halted" => session'[s] = "halted"]_allVars

(* compensate_session returns: retries are bounded and the stack only shrinks. *)
CompensationEnds == \A w \in Runners : spc[w] # "idle" ~> spc[w] = "idle"
-----------------------------------------------------------------------------
(* The inductive invariant behind the properties                           *)

Walking(w) == spc[w] \notin {"idle", "load"}

\* The positions of a stack are different, and entries move forward only.
StackShape ==
    /\ \A e \in Effects : undo[e] \in {"none", "pending", "compensated", "failed"}
    /\ \A e, f \in Effects :
          Registered(e) /\ Registered(f) /\ SessionOfEffect(e) = SessionOfEffect(f) =>
              e = f \/ Above(e, f) \/ Above(f, e)
    /\ \A e \in Effects : e \in undone => Registered(e)

\* What a call still has to do is on its session's stack, and what is not in
\* its list has been dealt with, by itself or by another call.
TodoExact ==
    \A w \in Runners : Walking(w) => \A e \in Effects :
        IF e \in todo[w]
        THEN SessionOfEffect(e) = target[w] /\ Registered(e)
        ELSE SessionOfEffect(e) = target[w] => undo[e] # "pending"

\* "mark" comes after a success, and there is an attempt left before.
PostShape ==
    \A w \in Runners :
        /\ spc[w] = "mark" => \A e \in Effects : IsTop(e, todo[w]) => e \in undone
        /\ spc[w] \in {"idle", "load", "call"} => attempt[w] <= MaxRetries

(* The conjunction every step of the calls and of the application preserves. *)
SagaInv ==
    /\ StoreTypeOK
    /\ SagaTypeOK
    /\ StackShape
    /\ TodoExact
    /\ PostShape
    /\ LifoOrder
    /\ NothingForgotten
=============================================================================
