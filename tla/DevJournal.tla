----------------------------- MODULE DevJournal -----------------------------
(***************************************************************************)
(* The SQLite journal of the local development server (class DevJournal of *)
(* undolog_sdk/dev.py).  Every operator is one statement or transaction:   *)
(* each operation opens its own connection in autocommit mode, so nothing  *)
(* wider is atomic.                                                        *)
(*                                                                         *)
(* A call journals at most one effect, so an effect is named after the     *)
(* call that created it; the approval request written in the same          *)
(* transaction is named after its effect.                                  *)
(***************************************************************************)
EXTENDS FiniteSets

CONSTANTS Calls,    \* intercepted calls, and the effects they may journal
          Sigs,     \* canonical call signatures
          SigOf,    \* SigOf[c]: the signature of call c
          None,     \* no effect, no result
          Mock      \* the marked result journalled by an approval

ASSUME JournalAssumption ==
    /\ SigOf \in [Calls -> Sigs]
    /\ None \notin Calls
    /\ Mock \notin Calls
    /\ None # Mock

VARIABLES status,   \* effects.status, "absent" before the row exists
          result,   \* effects.result: the call whose output it is, Mock or None
          approval  \* approvals.status of the effect's request, or "none"

journal == <<status, result, approval>>

\* _LIVE_EFFECT_STATUSES: the statuses that occupy a signature.
Live == {"executing", "awaiting_approval", "committed"}

Statuses == Live \cup {"absent", "failed", "rejected"}
ApprovalStatuses == {"none", "pending", "approved", "rejected"}

JournalInit ==
    /\ status = [c \in Calls |-> "absent"]
    /\ result = [c \in Calls |-> None]
    /\ approval = [c \in Calls |-> "none"]

\* find_live_effect: the rows the SELECT may return one of.
LiveEffects(s) == {e \in Calls : SigOf[e] = s /\ status[e] \in Live}

\* Faulty variant: the partial index leaves committed rows out.
ConflictPartial(e) ==
    {f \in LiveEffects(SigOf[e]) \ {e} : status[f] # "committed"} # {}

\* effects_live_signature_idx: would another live row share the signature?
Conflict(e) == LiveEffects(SigOf[e]) \ {e} # {}

(***************************************************************************)
(* create_effect: effect and approval request in one transaction.  The     *)
(* caller tests Conflict(c) in the same step: INSERT OR IGNORE changes     *)
(* nothing and reports no row when the index refuses it.                   *)
(***************************************************************************)
CreateEffect(c, st, asks) ==
    /\ status' = [status EXCEPT ![c] = st]
    /\ approval' = [approval EXCEPT ![c] = IF asks THEN "pending" ELSE @]
    /\ UNCHANGED result

\* _update_effect: status, result and error of one row, whatever they were.
UpdateEffect(e, st, res) ==
    /\ status' = [status EXCEPT ![e] = st]
    /\ result' = [result EXCEPT ![e] = res]
    /\ UNCHANGED approval

\* The index refuses the update with an IntegrityError no handler catches.
Refused(e, st) == st \in Live /\ Conflict(e)

RecordCommit(e, res) == UpdateEffect(e, "committed", res)

RecordFail(e) == UpdateEffect(e, "failed", None)

\* Faulty variant: a refused effect keeps its status.
MarkRejectedNot(e) == UNCHANGED journal

MarkRejected(e) == UpdateEffect(e, "rejected", None)

\* find_pending_approval
HasPendingApproval(e) == approval[e] = "pending"

\* resolve_approval: conditional on the request still being pending.
ResolveApproval(e, decision) ==
    /\ approval' = [approval EXCEPT ![e] = IF @ = "pending" THEN decision ELSE @]
    /\ UNCHANGED <<status, result>>
=============================================================================
