------------------------------ MODULE DevServer ------------------------------
(***************************************************************************)
(* The request handlers of the local development server (_DevHandler of    *)
(* undolog_sdk/dev.py) over its journal.  The HTTP server is threading:    *)
(* handlers interleave at every journal operation.  A handler step is one  *)
(* journal operation and what the code does with its outcome up to the     *)
(* next one; the step that ends a handler answers its client.              *)
(*                                                                         *)
(* Events go through a broadcaster that never blocks the request that      *)
(* emits one (module DevEvents), so they are left out here.                *)
(*                                                                         *)
(* An operation that raises (database locked, disk full) ends its handler  *)
(* where it is, since _dispatch does not catch it: the same as a handler   *)
(* that takes no further step, which the specification always allows.      *)
(***************************************************************************)
EXTENDS DevJournal

CONSTANTS Deciders  \* decisions sent to /approvals/{id}/approve or /reject

VARIABLES auto,     \* auto_approve, a flag of the server process
          gated,    \* signatures whose tool matches irreversible_patterns
          autoSeen, \* history: an auto-approving server has used this journal
          pc,       \* the call in the agent's process (module SdkCall)
          th,       \* the handler of the call's current request
          eff,      \* the effect the handler's or the client's answer is about
          got,      \* what the call returned to the agent
          decider   \* [at, effect, decision] of each decision request

server == <<auto, gated, autoSeen>>

\* Where a handler can be: the journal operation it does next.
HandlerSteps == {"idle", "find", "auto_create", "auto_resolve", "create",
                 "refind", "pending", "grant", "commit", "fail"}
DeciderSteps == {"idle", "resolve", "record", "done", "lost"}

NoDecision == [at |-> "idle", effect |-> None, decision |-> "none"]

\* _requires_approval
RequiresApproval(c) == SigOf[c] \in gated

\* The client is still there to read the answer.
Waiting(c) == pc[c] \in {"wait", "commit", "fail"}

ServerInit ==
    /\ auto \in BOOLEAN
    /\ gated \in SUBSET Sigs
    /\ autoSeen = auto
    /\ th = [c \in Calls |-> "idle"]
    /\ eff = [c \in Calls |-> None]
    /\ decider = [d \in Deciders |-> NoDecision]

(***************************************************************************)
(* Answers to an intercept, and what the client makes of them: "executed"  *)
(* lets the tool run, "replayed" returns the journalled result, and        *)
(* "pending_approval" parks the call.  A client that gave up reads none.   *)
(* The effect id is forgotten where nothing reads it any more.             *)
(***************************************************************************)
Answer(c, outcome, e, res) ==
    /\ th' = [th EXCEPT ![c] = "idle"]
    /\ eff' = [eff EXCEPT ![c] = IF Waiting(c) /\ outcome \in {"run", "parked"}
                                 THEN e ELSE None]
    /\ pc' = [pc EXCEPT ![c] = IF Waiting(c) THEN outcome ELSE @]
    /\ got' = [got EXCEPT ![c] = IF Waiting(c) THEN res ELSE @]

Execute(c, e) == Answer(c, "run", e, None)
Replay(c, e) == Answer(c, "returned", e, result[e])
Await(c, e) == Answer(c, "parked", e, None)

Goto(c, step, e) ==
    /\ th' = [th EXCEPT ![c] = step]
    /\ eff' = [eff EXCEPT ![c] = e]
    /\ UNCHANGED <<pc, got>>

\* Faulty variant: a committed effect is run again.
RespondByRunning(c, e) ==
    \/ status[e] \in {"committed", "executing"} /\ Execute(c, e)
    \/ status[e] = "awaiting_approval" /\ Goto(c, "pending", e)

\* _respond_for_live_effect, up to the read of the approval.
RespondForLiveEffect(c, e) ==
    \/ status[e] = "committed" /\ Replay(c, e)
    \/ status[e] = "executing" /\ Execute(c, e)
    \/ status[e] = "awaiting_approval" /\ Goto(c, "pending", e)

(***************************************************************************)
(* _handle_tool_call.                                                      *)
(***************************************************************************)
FindLiveEffect(c) ==
    /\ th[c] = "find"
    /\ IF LiveEffects(SigOf[c]) # {}
       THEN \E e \in LiveEffects(SigOf[c]) : RespondForLiveEffect(c, e)
       ELSE Goto(c, IF RequiresApproval(c) /\ auto THEN "auto_create" ELSE "create", None)
    /\ UNCHANGED <<journal, server, decider>>

\* An auto-approving server journals the call as executing, with a request.
CreateAutoApproved(c) ==
    /\ th[c] = "auto_create"
    /\ IF Conflict(c)
       THEN Goto(c, "create", None) /\ UNCHANGED journal
       ELSE Goto(c, "auto_resolve", c) /\ CreateEffect(c, "executing", TRUE)
    /\ UNCHANGED <<server, decider>>

ResolveAutoApproved(c) ==
    /\ th[c] = "auto_resolve"
    /\ ResolveApproval(c, "approved")
    /\ Execute(c, c)
    /\ UNCHANGED <<server, decider>>

\* The create both modes share.  A gated call still has its approval id,
\* also the one that lost the race for an auto-approved row.
CreateCall(c) ==
    /\ th[c] = "create"
    /\ IF Conflict(c)
       THEN Goto(c, "refind", None) /\ UNCHANGED journal
       ELSE /\ CreateEffect(c, IF RequiresApproval(c) /\ ~auto THEN "awaiting_approval" ELSE "executing",
                            RequiresApproval(c))
            /\ IF RequiresApproval(c) THEN Await(c, c) ELSE Execute(c, c)
    /\ UNCHANGED <<server, decider>>

\* The loser answers from the winner's row, which may be gone by now.
FindAfterConflict(c) ==
    /\ th[c] = "refind"
    /\ IF LiveEffects(SigOf[c]) # {}
       THEN \E e \in LiveEffects(SigOf[c]) : RespondForLiveEffect(c, e)
       ELSE IF RequiresApproval(c) THEN Await(c, None) ELSE Execute(c, None)
    /\ UNCHANGED <<journal, server, decider>>

\* Faulty variant: an awaiting row is run without a look at its request.
FindPendingIgnored(c) ==
    /\ th[c] = "pending"
    /\ Execute(c, eff[c])
    /\ UNCHANGED <<journal, server, decider>>

\* Rest of _respond_for_live_effect for a row read as awaiting approval.
FindPendingApproval(c) ==
    /\ th[c] = "pending"
    /\ IF ~HasPendingApproval(eff[c]) THEN Execute(c, eff[c])
       ELSE IF auto THEN Goto(c, "grant", eff[c])
       ELSE Await(c, eff[c])
    /\ UNCHANGED <<journal, server, decider>>

GrantPendingApproval(c) ==
    /\ th[c] = "grant"
    /\ ResolveApproval(eff[c], "approved")
    /\ Execute(c, eff[c])
    /\ UNCHANGED <<server, decider>>

(***************************************************************************)
(* _handle_effect_action: commit and fail.  A refused update ends the      *)
(* handler with the connection; the client sees a ConnectionError.         *)
(***************************************************************************)
Hangup(c) ==
    /\ th' = [th EXCEPT ![c] = "idle"]
    /\ eff' = [eff EXCEPT ![c] = None]
    /\ pc' = [pc EXCEPT ![c] = IF Waiting(c) THEN "raised" ELSE @]
    /\ UNCHANGED got

CommitEffect(c) ==
    /\ th[c] = "commit"
    /\ IF Refused(eff[c], "committed")
       THEN Hangup(c) /\ UNCHANGED journal
       ELSE Answer(c, "returned", eff[c], c) /\ RecordCommit(eff[c], c)
    /\ UNCHANGED <<server, decider>>

FailEffect(c) ==
    /\ th[c] = "fail"
    /\ Answer(c, "raised", eff[c], None)
    /\ RecordFail(eff[c])
    /\ UNCHANGED <<server, decider>>

(***************************************************************************)
(* _handle_approval_decision: three journal operations.                    *)
(***************************************************************************)
DeciderEnds(d) ==
    /\ decider' = [decider EXCEPT ![d] = NoDecision]
    /\ UNCHANGED <<pc, th, eff, got, server>>

DeciderGoto(d, step) ==
    /\ decider' = [decider EXCEPT ![d].at = step]
    /\ UNCHANGED <<pc, th, eff, got, server>>

\* get_approval.  A request that is missing or no longer pending is answered
\* 404 or 409 and changes nothing, so only the others go on.
GetApproval(d) ==
    /\ decider[d].at = "idle"
    /\ \E e \in Calls, decision \in {"approved", "rejected"} :
          /\ HasPendingApproval(e)
          /\ decider' = [decider EXCEPT ![d] =
                           [at |-> "resolve", effect |-> e, decision |-> decision]]
    /\ UNCHANGED <<pc, th, eff, got, server, journal>>

\* Faulty variant: the outcome of the conditional update is not looked at.
DecideUnchecked(d) ==
    /\ decider[d].at = "resolve"
    /\ DeciderGoto(d, "record")
    /\ ResolveApproval(decider[d].effect, decider[d].decision)

\* The conditional update; the loser of two decisions is answered 409.
DecideApproval(d) ==
    /\ decider[d].at = "resolve"
    /\ IF HasPendingApproval(decider[d].effect) THEN DeciderGoto(d, "record") ELSE DeciderEnds(d)
    /\ ResolveApproval(decider[d].effect, decider[d].decision)

RecordDecision(d) ==
    /\ decider[d].at = "record"
    /\ LET e == decider[d].effect IN
       IF decider[d].decision = "rejected"
       THEN MarkRejected(e) /\ DeciderGoto(d, "done")
       ELSE IF Refused(e, "committed")
       THEN UNCHANGED journal /\ DeciderGoto(d, "lost")
       ELSE RecordCommit(e, Mock) /\ DeciderGoto(d, "done")

(***************************************************************************)
(* The process stops and is started again on the same file, perhaps with   *)
(* --auto-approve given or dropped.                                        *)
(***************************************************************************)
Restart ==
    /\ auto' \in BOOLEAN
    /\ autoSeen' = (autoSeen \/ auto')
    /\ th' = [c \in Calls |-> "idle"]
    /\ pc' = [c \in Calls |-> IF Waiting(c) THEN "raised" ELSE pc[c]]
    /\ decider' = [d \in Deciders |->
                     CASE decider[d].at = "resolve" -> NoDecision
                       [] decider[d].at = "record" -> [decider[d] EXCEPT !.at = "lost"]
                       [] OTHER -> decider[d]]
    /\ eff' = [c \in Calls |-> IF th[c] # "idle" THEN None ELSE eff[c]]
    /\ UNCHANGED <<journal, gated, got>>

HandlerStep(c) ==
    \/ FindLiveEffect(c) \/ CreateAutoApproved(c) \/ ResolveAutoApproved(c)
    \/ CreateCall(c) \/ FindAfterConflict(c) \/ FindPendingApproval(c)
    \/ GrantPendingApproval(c) \/ CommitEffect(c) \/ FailEffect(c)

DeciderStep(d) == GetApproval(d) \/ DecideApproval(d) \/ RecordDecision(d)
=============================================================================
