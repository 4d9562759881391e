---------------------------- MODULE EffectStore ----------------------------
(***************************************************************************)
(* The PostgreSQL state UndoLog keeps about tool calls, and the SQL        *)
(* statements and transactions that change it: the effect log, the undo    *)
(* stack, the approval requests with their audit events, and the sessions. *)
(*                                                                         *)
(* Sources: crates/undolog-store (effect_store.rs, session_store.rs,       *)
(* approval_store.rs) and the tables, unique indexes and triggers of       *)
(* migrations/0001_initial.sql.                                            *)
(*                                                                         *)
(* Each operator below is one statement, or one transaction, as the code   *)
(* runs it.  Statements of one transaction take row locks and their guards *)
(* are re-evaluated under those locks, so a transaction is one step.       *)
(***************************************************************************)
EXTENDS Integers, FiniteSets

CONSTANTS
    Sigs,           \* the call signatures of the tool calls agents make
    Sessions,       \* the sessions those calls belong to
    SessionOf,      \* SessionOf[s]: session of the calls with signature s
    StepOf,         \* StepOf[s]: their step_index in that session
    TierOf,         \* TierOf[s]: the tier of their tool
    MaxMonth,       \* the clock crosses MaxMonth - 1 month boundaries
    AutoApprove     \* auto_approve_on_timeout

Tiers == {"safe", "compensable", "irreversible"}

ASSUME SigAssumption ==
    /\ IsFiniteSet(Sigs)
    /\ SessionOf \in [Sigs -> Sessions]
    /\ StepOf \in [Sigs -> Nat]
    /\ TierOf \in [Sigs -> Tiers]

ASSUME ConfigAssumption ==
    /\ MaxMonth \in Nat \ {0}
    /\ AutoApprove \in BOOLEAN

Months == 1..MaxMonth

(***************************************************************************)
(* undolog_effect_log is partitioned by month and each partition has its   *)
(* own unique index on call_signature, so a row is identified by its       *)
(* signature and the month it was inserted in.                             *)
(***************************************************************************)
Effects == Sigs \X Months

EffectStates == {"pending", "executing", "committed", "compensating", "compensated",
                 "compensation_failed", "approved", "rejected", "replayed"}

ApprovalStates == {"pending", "approved", "rejected", "timed_out", "auto_approved"}

Actions == {"approve", "reject", "timeout"}

SessionStates == {"active", "awaiting_approval", "compensating", "completed",
                  "compensated", "failed", "halted"}

UndoStates == {"pending", "running", "compensated", "failed", "skipped"}

Results == {"null", "ok", "error"}

Args == {"proposed", "modified"}

VARIABLES
    month,              \* the month now() falls in
    session,            \* session[s]: state of the session row, or "none"
    approvals_pending,  \* the counter column the approval trigger maintains
    state,              \* state[e]: state of the effect row, or "none"
    result_snapshot,    \* what commit_effect or fail_effect stored in it
    args_snapshot,      \* the arguments recorded in it
    undo,               \* undo[e]: state of e's undo stack row, or "none"
    approval,           \* approval[e]: state of e's approval row, or "none"
    expired,            \* approval requests whose timeout_at has passed
    audit               \* audit[e][a]: events of action a on e's approval

effectVars   == <<state, result_snapshot, args_snapshot>>
approvalVars == <<approval, audit, approvals_pending>>
clockVars    == <<month, expired>>
dbVars       == <<effectVars, approvalVars, undo, session>>
storeVars    == <<dbVars, clockVars>>

SessionOfEffect(e) == SessionOf[e[1]]
TierOfEffect(e)    == TierOf[e[1]]
RowExists(e)       == state[e] # "none"
RowsOf(s)          == {e \in Effects : e[1] = s /\ RowExists(e)}

StoreTypeOK ==
    /\ month \in Months
    /\ session \in [Sessions -> SessionStates \cup {"none"}]
    /\ state \in [Effects -> EffectStates \cup {"none"}]
    /\ result_snapshot \in [Effects -> Results]
    /\ args_snapshot \in [Effects -> Args]
    /\ undo \in [Effects -> UndoStates \cup {"none"}]
    /\ approval \in [Effects -> ApprovalStates \cup {"none"}]
    /\ expired \in SUBSET Effects
    /\ audit \in [Effects -> [Actions -> Nat]]

CounterTypeOK == approvals_pending \in [Sessions -> Nat]

StoreInit ==
    /\ month = 1
    /\ session = [s \in Sessions |-> "none"]
    /\ approvals_pending = [s \in Sessions |-> 0]
    /\ state = [e \in Effects |-> "none"]
    /\ result_snapshot = [e \in Effects |-> "null"]
    /\ args_snapshot = [e \in Effects |-> "proposed"]
    /\ undo = [e \in Effects |-> "none"]
    /\ approval = [e \in Effects |-> "none"]
    /\ expired = {}
    /\ audit = [e \in Effects |-> [a \in Actions |-> 0]]

-----------------------------------------------------------------------------
(* Sessions                                                                *)

\* INSERT ... ON CONFLICT (session_id) DO NOTHING
CreateSession(s) ==
    /\ session' = [session EXCEPT ![s] = IF @ = "none" THEN "active" ELSE @]
    /\ UNCHANGED <<effectVars, approvalVars, undo>>

\* Only an active session is suspended; any other is left as it is.
SetAwaitingApproval(s) ==
    /\ session' = [session EXCEPT ![s] = IF @ = "active" THEN "awaiting_approval" ELSE @]
    /\ UNCHANGED <<effectVars, approvalVars, undo>>

-----------------------------------------------------------------------------
(* The effect log and the undo stack                                       *)

\* A second row with e's signature in e's partition breaks the unique index.
SignatureTaken(e) == RowExists(e)

\* Faulty variant: ON CONFLICT DO UPDATE.
UpsertEffect(e) ==
    /\ state' = [state EXCEPT ![e] = "pending"]
    /\ UNCHANGED <<result_snapshot, args_snapshot, approvalVars, undo, session>>

InsertEffect(e) ==
    /\ ~SignatureTaken(e)
    /\ state' = [state EXCEPT ![e] = "pending"]
    /\ UNCHANGED <<result_snapshot, args_snapshot, approvalVars, undo, session>>

\* Faulty variant: UNIQUE (effect_id) alone.
EntryTaken(e) == undo[e] # "none"

\* UNIQUE (session_id, stack_position), where stack_position = step_index
PositionTaken(e) ==
    \E f \in Effects : /\ undo[f] # "none"
                       /\ SessionOfEffect(f) = SessionOfEffect(e)
                       /\ StepOf[f[1]] = StepOf[e[1]]

PushUndoEntry(e) ==
    /\ ~PositionTaken(e)
    /\ undo' = [undo EXCEPT ![e] = "pending"]
    /\ UNCHANGED <<effectVars, approvalVars, session>>

CanExecute(e) == state[e] = "pending"

SetExecuting(e) ==
    /\ CanExecute(e)
    /\ state' = [state EXCEPT ![e] = "executing"]
    /\ UNCHANGED <<result_snapshot, args_snapshot, approvalVars, undo, session>>

InFlight(e) == state[e] \in {"executing", "approved"}

CommitEffect(e) ==
    /\ InFlight(e)
    /\ state' = [state EXCEPT ![e] = "committed"]
    /\ result_snapshot' = [result_snapshot EXCEPT ![e] = "ok"]
    /\ UNCHANGED <<args_snapshot, approvalVars, undo, session>>

\* The stored {"error": ...} object is not a ToolResult: see Unreadable.
FailEffect(e) ==
    /\ InFlight(e)
    /\ state' = [state EXCEPT ![e] = "pending"]
    /\ result_snapshot' = [result_snapshot EXCEPT ![e] = "error"]
    /\ UNCHANGED <<args_snapshot, approvalVars, undo, session>>

\* map_effect_row cannot decode the row into an EffectRecord.
Unreadable(e) == result_snapshot[e] = "error"

\* Faulty variant: the row is reset instead.
ResetReplayed(e) ==
    /\ state' = [state EXCEPT ![e] = "pending"]
    /\ UNCHANGED <<result_snapshot, args_snapshot, approvalVars, undo, session>>

\* UPDATE ... SET state = 'replayed' WHERE effect_id = $1, whatever the state
MarkReplayed(e) ==
    /\ state' = [state EXCEPT ![e] = "replayed"]
    /\ UNCHANGED <<result_snapshot, args_snapshot, approvalVars, undo, session>>

-----------------------------------------------------------------------------
(* Approval requests                                                       *)

\* Faulty variant: the trigger does not look at OLD.state.
AfterAnyUpdate(R) ==
    [s \in Sessions |->
        LET left == Cardinality({e \in R : SessionOfEffect(e) = s})
        IN  IF approvals_pending[s] > left THEN approvals_pending[s] - left ELSE 0]

\* The trigger's GREATEST(0, approvals_pending - 1), once for each row of R
\* that leaves 'pending'.
AfterLeavingPending(R) ==
    [s \in Sessions |->
        LET left == Cardinality({e \in R : SessionOfEffect(e) = s /\ approval[e] = "pending"})
        IN  IF approvals_pending[s] > left THEN approvals_pending[s] - left ELSE 0]

CreateApproval(e) ==
    /\ approval' = [approval EXCEPT ![e] = "pending"]
    /\ approvals_pending' = [approvals_pending EXCEPT ![SessionOfEffect(e)] = @ + 1]
    /\ UNCHANGED <<audit, effectVars, undo, session>>

\* resolve: a pending request gets its final state and an audit event.
Resolve(e, action, final) ==
    /\ approval[e] = "pending"
    /\ approval' = [approval EXCEPT ![e] = final]
    /\ approvals_pending' = AfterLeavingPending({e})
    /\ audit' = [audit EXCEPT ![e][action] = @ + 1]

CanApprove(e) ==
    /\ approval[e] = "pending"
    /\ state[e] = "pending"
    /\ session[SessionOfEffect(e)] = "awaiting_approval"

\* Faulty variant: resolve without its WHERE state = 'pending'.
ApproveAgain(e, args) ==
    /\ approval[e] # "none"
    /\ state[e] = "pending"
    /\ session[SessionOfEffect(e)] = "awaiting_approval"
    /\ approval' = [approval EXCEPT ![e] = "approved"]
    /\ approvals_pending' = AfterLeavingPending({e})
    /\ audit' = [audit EXCEPT ![e]["approve"] = @ + 1]
    /\ state' = [state EXCEPT ![e] = "approved"]
    /\ args_snapshot' = [args_snapshot EXCEPT ![e] = args]
    /\ session' = [session EXCEPT ![SessionOfEffect(e)] = "active"]
    /\ UNCHANGED <<result_snapshot, undo>>

\* The transaction of EffectEngine::approve; args are those the human let through.
ApproveTx(e, args) ==
    /\ CanApprove(e)
    /\ Resolve(e, "approve", "approved")
    /\ state' = [state EXCEPT ![e] = "approved"]
    /\ args_snapshot' = [args_snapshot EXCEPT ![e] = args]
    /\ session' = [session EXCEPT ![SessionOfEffect(e)] = "active"]
    /\ UNCHANGED <<result_snapshot, undo>>

CanReject(e) == approval[e] = "pending" /\ state[e] = "pending"

\* The transaction of EffectEngine::reject.
RejectTx(e) ==
    /\ CanReject(e)
    /\ Resolve(e, "reject", "rejected")
    /\ state' = [state EXCEPT ![e] = "rejected"]
    /\ session' = [session EXCEPT ![SessionOfEffect(e)] = "halted"]
    /\ UNCHANGED <<result_snapshot, args_snapshot, undo>>

\* Faulty variant: only requests whose effect row is still pending.
DueOpenEffects == {e \in expired : approval[e] = "pending" /\ state[e] = "pending"}

\* The SELECT that opens process_timeouts.
DueApprovals == {e \in expired : approval[e] = "pending"}

\* The UPDATEs and the COMMIT that end it, for the rows the SELECT returned:
\* they do not look at the state again.
TimeOutApprovals(due) ==
    /\ approval' = [e \in Effects |->
          IF e \notin due THEN approval[e]
          ELSE IF AutoApprove THEN "auto_approved" ELSE "timed_out"]
    /\ approvals_pending' = AfterLeavingPending(due)
    /\ audit' = [e \in Effects |->
          IF e \in due THEN [audit[e] EXCEPT !["timeout"] = @ + 1] ELSE audit[e]]
    /\ UNCHANGED <<effectVars, undo, session>>

-----------------------------------------------------------------------------
(* The clock                                                               *)

\* now() moves to the next month's partition.
NextMonth ==
    /\ month < MaxMonth
    /\ month' = month + 1
    /\ UNCHANGED <<expired, dbVars>>

\* now() passes the timeout_at of a request nobody has resolved yet.
Expire(e) ==
    /\ approval[e] = "pending"
    /\ e \notin expired
    /\ expired' = expired \cup {e}
    /\ UNCHANGED <<month, dbVars>>
=============================================================================
