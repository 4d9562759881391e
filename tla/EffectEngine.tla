---------------------------- MODULE EffectEngine ----------------------------
(***************************************************************************)
(* EffectEngine (crates/undolog-engine/src/engine.rs) serving requests of  *)
(* the proxy, over the shared database of EffectStore.                     *)
(*                                                                         *)
(* A process of Calls is one request of the proxy at a time: either an     *)
(* intercepted tool call (ServeHTTP in proxy/handler.go) or a human's      *)
(* decision on an approval request (resolveDecision in                     *)
(* approval/handler.go).  pc follows the request from one database         *)
(* statement or RPC to the next, so statements of different requests       *)
(* interleave as they do between engine tasks and engine replicas.  When   *)
(* a request is answered its process becomes idle and may carry another,   *)
(* so clients retry and repeat calls as often as they like.                *)
(*                                                                         *)
(* Engine crashes, database errors, client disconnects and proxy crashes   *)
(* are Abort: the request ends where it is and the database keeps what its *)
(* last statement wrote.                                                   *)
(***************************************************************************)
EXTENDS EffectStore

CONSTANTS
    Calls,              \* requests in progress at the same time
    Sweepers,           \* approval timeout processors, one per engine replica
    LockMaxAttempts,    \* lock_max_attempts
    RpcMaxAttempts,     \* RetryConfig.MaxAttempts of the proxy's engine client
    None                \* no signature, or the effect id of a SAFE call: no row has it

ASSUME RetryAssumption ==
    /\ LockMaxAttempts \in Nat \ {0}
    /\ RpcMaxAttempts \in Nat \ {0}
    /\ None \notin Effects \cup Sigs

VARIABLES
    pc,         \* where each request is
    sig,        \* the signature of the intercepted call
    eff,        \* the effect id the request works on
    sent,       \* the arguments the proxy runs the tool with
    reply,      \* the cached result a replay answers with
    tries,      \* attempts of the lock, or of the commit or fail RPC, so far
    answer,     \* how the last request of the process ended
    due,        \* due[w]: the requests processor w selected to time out
    runs        \* runs[e]: times the tool of effect e has been run

callVars == <<pc, sig, eff, sent, reply, tries, answer>>
vars     == <<storeVars, callVars, due, runs>>

InterceptPC == {"session", "lock", "lookup", "replay", "insert", "push", "begin",
                "request", "park"}
ProxyPC     == {"exec", "commit", "fail"}
PCs         == {"idle"} \cup InterceptPC \cup ProxyPC

Answers == {"none", "replayed", "pending_approval", "executed", "tool_error",
            "rejected", "refused", "lock_timeout", "unreadable", "conflict",
            "overtaken", "not_executing", "unconfirmed", "aborted"}

EngineTypeOK ==
    /\ pc \in [Calls -> PCs]
    /\ sig \in [Calls -> Sigs \cup {None}]
    /\ eff \in [Calls -> Effects \cup {None}]
    /\ sent \in [Calls -> Args]
    /\ reply \in [Calls -> Results]
    /\ tries \in [Calls -> Nat]
    /\ answer \in [Calls -> Answers]
    /\ due \in [Sweepers -> SUBSET Effects]
    /\ runs \in [Effects -> Nat]

TypeOK == StoreTypeOK /\ CounterTypeOK /\ EngineTypeOK

Init ==
    /\ StoreInit
    /\ pc = [c \in Calls |-> "idle"]
    /\ sig = [c \in Calls |-> None]
    /\ eff = [c \in Calls |-> None]
    /\ sent = [c \in Calls |-> "proposed"]
    /\ reply = [c \in Calls |-> "null"]
    /\ tries = [c \in Calls |-> 0]
    /\ answer = [c \in Calls |-> "none"]
    /\ due = [w \in Sweepers |-> {}]
    /\ runs = [e \in Effects |-> 0]

-----------------------------------------------------------------------------
(* Moves of a request                                                      *)

Go(c, next) ==
    /\ pc' = [pc EXCEPT ![c] = next]
    /\ UNCHANGED <<sig, eff, sent, reply, tries, answer>>

Finish(c, how) ==
    /\ pc' = [pc EXCEPT ![c] = "idle"]
    /\ answer' = [answer EXCEPT ![c] = how]
    /\ sig' = [sig EXCEPT ![c] = None]
    /\ sent' = [sent EXCEPT ![c] = "proposed"]
    /\ tries' = [tries EXCEPT ![c] = 0]
    /\ UNCHANGED <<eff, reply>>

\* Faulty variant: the last attempt starts the count again.
RetryForEver(c, max, End) ==
    /\ tries' = [tries EXCEPT ![c] = (@ + 1) % max]
    /\ UNCHANGED <<pc, sig, eff, sent, reply, answer>>

\* Another attempt of the current step, or End after the last one allowed.
Retry(c, max, End) ==
    \/ /\ tries[c] + 1 < max
       /\ tries' = [tries EXCEPT ![c] = @ + 1]
       /\ UNCHANGED <<pc, sig, eff, sent, reply, answer>>
    \/ /\ tries[c] + 1 = max
       /\ End

\* The request is at a step and nothing but the request moves.
Silent == UNCHANGED <<storeVars, due, runs>>

\* The request is at a step that changes the database only.
Stored == UNCHANGED <<clockVars, due, runs>>

-----------------------------------------------------------------------------
(* intercept                                                               *)

\* A tool call reaches the engine.
Start(c) ==
    /\ pc[c] = "idle"
    /\ \E s \in Sigs : sig' = [sig EXCEPT ![c] = s]
    /\ pc' = [pc EXCEPT ![c] = "session"]
    /\ eff' = [eff EXCEPT ![c] = None]
    /\ reply' = [reply EXCEPT ![c] = "null"]
    /\ answer' = [answer EXCEPT ![c] = "none"]
    /\ UNCHANGED <<sent, tries>>
    /\ Silent

\* The session row is created on first use.  Its state is read into the
\* cache and decides nothing.
EnsureSession(c) ==
    /\ pc[c] = "session"
    /\ CreateSession(SessionOf[sig[c]])
    /\ Go(c, "lock")
    /\ Stored

\* pg_try_advisory_xact_lock runs as a statement of its own, so the lock is
\* gone when the statement returns: it keeps nobody out of the next steps.
AcquireLock(c) ==
    /\ pc[c] = "lock"
    /\ pc' = [pc EXCEPT ![c] = "lookup"]
    /\ tries' = [tries EXCEPT ![c] = 0]
    /\ UNCHANGED <<sig, eff, sent, reply, answer>>
    /\ Silent

\* The statement meets that of another request for the same signature.
LockBusy(c) ==
    /\ pc[c] = "lock"
    /\ \E d \in Calls \ {c} : pc[d] = "lock" /\ sig[d] = sig[c]
    /\ Retry(c, LockMaxAttempts, Finish(c, "lock_timeout"))
    /\ Silent

\* Faulty variant: a row without a result replays as a success.
FindExistingOk(c) ==
    /\ pc[c] = "lookup"
    /\ \E e \in RowsOf(sig[c]) :
          /\ ~Unreadable(e)
          /\ eff' = [eff EXCEPT ![c] = e]
    /\ reply' = [reply EXCEPT ![c] = "ok"]
    /\ pc' = [pc EXCEPT ![c] = "replay"]
    /\ UNCHANGED <<sig, sent, tries, answer>>
    /\ Silent

\* find_by_signature returns some row with the signature (LIMIT 1, no order).
FindExisting(c) ==
    /\ pc[c] = "lookup"
    /\ \E e \in RowsOf(sig[c]) :
          /\ ~Unreadable(e)
          /\ eff' = [eff EXCEPT ![c] = e]
          /\ reply' = [reply EXCEPT ![c] = result_snapshot[e]]
    /\ pc' = [pc EXCEPT ![c] = "replay"]
    /\ UNCHANGED <<sig, sent, tries, answer>>
    /\ Silent

\* The row it returns does not decode: the lookup is an error.
FindUnreadable(c) ==
    /\ pc[c] = "lookup"
    /\ \E e \in RowsOf(sig[c]) : Unreadable(e)
    /\ Finish(c, "unreadable")
    /\ Silent

\* The answer carries the result as it was read, not as it is now.
Replay(c) ==
    /\ pc[c] = "replay"
    /\ MarkReplayed(eff[c])
    /\ Finish(c, "replayed")
    /\ Stored

\* SAFE calls bypass the effect log.
RouteSafe(c) ==
    /\ pc[c] = "lookup"
    /\ RowsOf(sig[c]) = {}
    /\ TierOf[sig[c]] = "safe"
    /\ Go(c, "exec")
    /\ Silent

RouteLogged(c) ==
    /\ pc[c] = "lookup"
    /\ RowsOf(sig[c]) = {}
    /\ TierOf[sig[c]] # "safe"
    /\ Go(c, "insert")
    /\ Silent

\* Faulty variant: set_executing follows the insert directly.
InsertThenBegin(c) ==
    /\ pc[c] = "insert"
    /\ LET e == <<sig[c], month>> IN
         /\ InsertEffect(e)
         /\ eff' = [eff EXCEPT ![c] = e]
    /\ pc' = [pc EXCEPT ![c] = "begin"]
    /\ UNCHANGED <<sig, sent, reply, tries, answer>>
    /\ Stored

\* The row goes to the partition of the month it is inserted in.
Insert(c) ==
    /\ pc[c] = "insert"
    /\ LET e == <<sig[c], month>> IN
         /\ InsertEffect(e)
         /\ eff' = [eff EXCEPT ![c] = e]
    /\ pc' = [pc EXCEPT ![c] = IF TierOf[sig[c]] = "compensable" THEN "push" ELSE "request"]
    /\ UNCHANGED <<sig, sent, reply, tries, answer>>
    /\ Stored

\* A plain INSERT: a duplicate is an error, not a replay.
InsertConflict(c) ==
    /\ pc[c] = "insert"
    /\ SignatureTaken(<<sig[c], month>>)
    /\ Finish(c, "conflict")
    /\ Silent

Push(c) ==
    /\ pc[c] = "push"
    /\ PushUndoEntry(eff[c])
    /\ Go(c, "begin")
    /\ Stored

PushConflict(c) ==
    /\ pc[c] = "push"
    /\ PositionTaken(eff[c])
    /\ Finish(c, "conflict")
    /\ Silent

Begin(c) ==
    /\ pc[c] = "begin"
    /\ SetExecuting(eff[c])
    /\ Go(c, "exec")
    /\ Stored

\* A replay of the same signature got to the row first.
BeginRefused(c) ==
    /\ pc[c] = "begin"
    /\ ~CanExecute(eff[c])
    /\ Finish(c, "overtaken")
    /\ Silent

RequestApproval(c) ==
    /\ pc[c] = "request"
    /\ CreateApproval(eff[c])
    /\ Go(c, "park")
    /\ Stored

Park(c) ==
    /\ pc[c] = "park"
    /\ SetAwaitingApproval(SessionOf[sig[c]])
    /\ Finish(c, "pending_approval")
    /\ Stored

-----------------------------------------------------------------------------
(* The proxy runs the tool and reports back                                *)

RunTool(c) ==
    /\ pc[c] = "exec"
    /\ \E next \in {"commit", "fail"} : Go(c, next)
    /\ runs' = [e \in Effects |-> IF e = eff[c] THEN runs[e] + 1 ELSE runs[e]]
    /\ UNCHANGED <<storeVars, due>>

\* A human's decision is answered "committed" whatever became of the commit.
CommitEnds(c, how) == Finish(c, IF sig[c] = None THEN "executed" ELSE how)

\* retryVoid: a transport failure is retried up to RpcMaxAttempts times.
RetryRpc(c, End) == Retry(c, RpcMaxAttempts, End)

\* The engine applies the commit; its answer arrives or is lost.
Commit(c) ==
    /\ pc[c] = "commit"
    /\ eff[c] # None
    /\ CommitEffect(eff[c])
    /\ \/ Finish(c, "executed")
       \/ RetryRpc(c, CommitEnds(c, "unconfirmed"))
    /\ Stored

\* No row: a SAFE call, which commit_effect accepts.
CommitSafe(c) ==
    /\ pc[c] = "commit"
    /\ eff[c] = None
    /\ Finish(c, "executed")
    /\ Silent

\* NotExecuting, which is not retried.
CommitRefused(c) ==
    /\ pc[c] = "commit"
    /\ eff[c] # None
    /\ ~InFlight(eff[c])
    /\ CommitEnds(c, "not_executing")
    /\ Silent

\* The error of a Fail RPC is logged; the caller is told the tool's error.
Fail(c) ==
    /\ pc[c] = "fail"
    /\ eff[c] # None
    /\ FailEffect(eff[c])
    /\ \/ Finish(c, "tool_error")
       \/ RetryRpc(c, Finish(c, "tool_error"))
    /\ Stored

FailIgnored(c) ==
    /\ pc[c] = "fail"
    /\ eff[c] # None => ~InFlight(eff[c])
    /\ Finish(c, "tool_error")
    /\ Silent

\* A commit or fail request is lost before the engine sees it.
RpcLost(c) ==
    /\ \/ pc[c] = "commit" /\ RetryRpc(c, CommitEnds(c, "unconfirmed"))
       \/ pc[c] = "fail" /\ RetryRpc(c, Finish(c, "tool_error"))
    /\ Silent

-----------------------------------------------------------------------------
(* Human decisions and the timeout processor                               *)

\* The process takes up a decision on the approval request of e.
Decide(c, e, args, next, how) ==
    /\ pc' = [pc EXCEPT ![c] = next]
    /\ answer' = [answer EXCEPT ![c] = how]
    /\ eff' = [eff EXCEPT ![c] = e]
    /\ sent' = [sent EXCEPT ![c] = args]
    /\ reply' = [reply EXCEPT ![c] = "null"]
    /\ UNCHANGED <<sig, tries>>

\* The engine returns the resolved arguments, and the proxy runs the tool.
Approve(c, e, args) ==
    /\ pc[c] = "idle"
    /\ ApproveTx(e, args)
    /\ Decide(c, e, args, "exec", "none")
    /\ Stored

Reject(c, e) ==
    /\ pc[c] = "idle"
    /\ RejectTx(e)
    /\ Decide(c, e, "proposed", "idle", "rejected")
    /\ Stored

\* An error in the transaction rolls all of it back.
DecisionRefused(c, e) ==
    /\ pc[c] = "idle"
    /\ approval[e] # "none"
    /\ ~CanApprove(e)
    /\ Decide(c, e, "proposed", "idle", "refused")
    /\ Silent

SelectDue(w) ==
    /\ due[w] = {}
    /\ DueApprovals # {}
    /\ due' = [due EXCEPT ![w] = DueApprovals]
    /\ UNCHANGED <<storeVars, callVars, runs>>

ApplyDue(w) ==
    /\ due[w] # {}
    /\ TimeOutApprovals(due[w])
    /\ due' = [due EXCEPT ![w] = {}]
    /\ UNCHANGED <<clockVars, callVars, runs>>

-----------------------------------------------------------------------------
(* Faults                                                                  *)

\* The engine or the proxy dies, the database fails or the client goes away.
Abort(c) ==
    /\ pc[c] # "idle"
    /\ Finish(c, "aborted")
    /\ Silent

\* The processor's transaction is rolled back.
SweepAbort(w) ==
    /\ due[w] # {}
    /\ due' = [due EXCEPT ![w] = {}]
    /\ UNCHANGED <<storeVars, callVars, runs>>

-----------------------------------------------------------------------------
Intercept(c) ==
    \/ EnsureSession(c)
    \/ AcquireLock(c) \/ LockBusy(c)
    \/ FindExisting(c) \/ FindUnreadable(c) \/ Replay(c)
    \/ RouteSafe(c) \/ RouteLogged(c)
    \/ Insert(c) \/ InsertConflict(c)
    \/ Push(c) \/ PushConflict(c)
    \/ Begin(c) \/ BeginRefused(c)
    \/ RequestApproval(c) \/ Park(c)

Report(c) ==
    \/ RunTool(c)
    \/ Commit(c) \/ CommitSafe(c) \/ CommitRefused(c)
    \/ Fail(c) \/ FailIgnored(c)
    \/ RpcLost(c)

Decision(c) ==
    \E e \in Effects :
        \/ \E args \in Args : Approve(c, e, args)
        \/ Reject(c, e)
        \/ DecisionRefused(c, e)

Sweep(w) == SelectDue(w) \/ ApplyDue(w) \/ SweepAbort(w)

Clock == UNCHANGED <<callVars, due, runs>> /\ (NextMonth \/ \E e \in Effects : Expire(e))

Next ==
    \/ \E c \in Calls : Start(c) \/ Intercept(c) \/ Report(c) \/ Decision(c) \/ Abort(c)
    \/ \E w \in Sweepers : Sweep(w)
    \/ Clock

Spec == Init /\ [][Next]_vars

\* The runtime polls every request that can move.
FairSpec == Spec /\ \A c \in Calls : WF_vars(Intercept(c) \/ Report(c))

\* run_timeout_loop ticks for ever, and the database does not fail every time.
SweepSpec == Spec /\ \A w \in Sweepers : WF_vars(SelectDue(w)) /\ SF_vars(ApplyDue(w))

-----------------------------------------------------------------------------
(* What the engine promises                                                *)

Holds(c, e) == pc[c] = "exec" /\ eff[c] = e

\* The tool of e has been run, or a request has leave to run it.
Released(e) == runs[e] > 0 \/ \E c \in Calls : Holds(c, e)

(* The tool behind an effect row is run at most once, however often the
   call is repeated, replayed, failed, approved, timed out or cut off by a
   crash: intercept's lookup, insert and set_executing, and approve's guards,
   hand out the right to run it once. *)
AtMostOneRun ==
    \A e \in Effects :
        /\ runs[e] <= 1
        /\ runs[e] = 1 => \A c \in Calls : ~Holds(c, e)
        /\ \A c, d \in Calls : Holds(c, e) /\ Holds(d, e) => c = d

(* A compensable call is run once even when its rows land in the partitions of
   two months: the undo stack's UNIQUE (session_id, stack_position) stops the
   second insert that the month's own unique index lets through. *)
CompensableOnce ==
    \A e, f \in Effects :
        TierOfEffect(e) = "compensable" /\ e[1] = f[1] /\ Released(e) /\ Released(f) => e = f

(* push_undo_entry "MUST complete before the action executes"
   (effect_store.rs:196): a compensable tool is released only with its undo
   entry on the stack, wherever a crash or a competing request strikes. *)
UndoRegisteredFirst ==
    \A e \in Effects :
        TierOfEffect(e) = "compensable" /\ Released(e) => undo[e] # "none"

(* An irreversible tool is released by exactly one human approval and never
   after a rejection, though timeouts and replays write the same rows as
   approve and reject do. *)
HumanGate ==
    \A e \in Effects :
        TierOfEffect(e) = "irreversible" /\ Released(e) =>
            audit[e]["approve"] = 1 /\ audit[e]["reject"] = 0

(* A stored result, and a result a replay answers with, come from a run of
   the tool: commit_effect and fail_effect are reached after RunTool only. *)
ResultIsGenuine ==
    /\ \A e \in Effects : result_snapshot[e] # "null" => runs[e] = 1
    /\ \A c \in Calls : reply[c] = "ok" => eff[c] # None /\ result_snapshot[eff[c]] = "ok"

(* A committed result is never lost: retried commits, late Fail calls and
   replays leave result_snapshot and keep the row out of flight. *)
CommitSticks ==
    [][\A e \in Effects :
          result_snapshot[e] = "ok" =>
              result_snapshot'[e] = "ok" /\ state'[e] \in {"committed", "replayed"}]_vars

(* A request gets one human decision: approve and reject exclude each other
   in any interleaving with the timeout processor. *)
OneHumanDecision ==
    \A e \in Effects : audit[e]["approve"] + audit[e]["reject"] <= 1

(* After a rejection the session stays halted: no other approval, suspension
   or auto-creation of the session wakes it. *)
RejectionHalts ==
    \A e \in Effects :
        audit[e]["reject"] > 0 => session[SessionOfEffect(e)] = "halted"

(* The trigger's approvals_pending equals the number of pending requests,
   also when the processor overwrites a request that was resolved after its
   SELECT. *)
PendingCounterExact ==
    \A s \in Sessions :
        approvals_pending[s] =
            Cardinality({e \in Effects : SessionOfEffect(e) = s /\ approval[e] = "pending"})

(* approve updates args_snapshot "to keep the audit trail accurate"
   (engine.rs:394): a logged tool runs with the arguments its row records. *)
ArgsAudited ==
    \A c \in Calls :
        pc[c] \in ProxyPC /\ eff[c] # None => sent[c] = args_snapshot[eff[c]]

(* Every request is answered: lock attempts, RPC retries and the conflicts
   between requests never keep one in the engine for ever. *)
RequestsFinish == \A c \in Calls : pc[c] # "idle" ~> pc[c] = "idle"

(* An approval request that nobody decides is resolved once its timeout_at has
   passed, whatever replays and decisions do to its effect meanwhile:
   process_timeouts finds it in some sweep. *)
TimeoutsHappen ==
    \A e \in Effects : e \in expired /\ approval[e] = "pending" ~> approval[e] # "pending"
=============================================================================
