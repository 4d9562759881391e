------------------------------- MODULE SdkCall -------------------------------
(***************************************************************************)
(* Calls of decorated tools (undolog_tool of decorators.py through         *)
(* UndoLogClient of client.py) against the local development server.       *)
(* Calls with the same signature are the same step of a session reached    *)
(* again: a retry, a resumed session or a second process.                  *)
(***************************************************************************)
EXTENDS DevServer

VARIABLES ran       \* history: calls whose tool body completed

vars == <<journal, server, pc, th, eff, got, decider, ran>>

CallStates == {"idle", "wait", "run", "commit", "fail", "parked", "returned", "raised"}
Done == {"parked", "returned", "raised"}

Init ==
    /\ JournalInit
    /\ ServerInit
    /\ pc = [c \in Calls |-> "idle"]
    /\ got = [c \in Calls |-> None]
    /\ ran = {}

\* client.intercept, commit and fail: the request is under way.
SendRequest(c, state, step) ==
    /\ pc' = [pc EXCEPT ![c] = state]
    /\ th' = [th EXCEPT ![c] = step]
    /\ UNCHANGED <<eff, got, journal, server, decider>>

Intercept(c) ==
    /\ pc[c] = "idle"
    /\ SendRequest(c, "wait", "find")
    /\ UNCHANGED ran

\* Faulty variant: the result is committed before the tool has run.
RunToolEarly(c) ==
    /\ pc[c] = "run"
    /\ UNCHANGED ran
    /\ SendRequest(c, "commit", "commit")

\* The tool body completes.  Without an effect id there is nothing to commit.
RunTool(c) ==
    /\ pc[c] = "run"
    /\ ran' = ran \cup {c}
    /\ IF eff[c] # None
       THEN SendRequest(c, "commit", "commit")
       ELSE /\ pc' = [pc EXCEPT ![c] = "returned"]
            /\ got' = [got EXCEPT ![c] = c]
            /\ UNCHANGED <<th, eff, journal, server, decider>>

\* The tool body raises: the failure is reported, the exception re-raised.
ToolRaises(c) ==
    /\ pc[c] = "run"
    /\ UNCHANGED ran
    /\ IF eff[c] # None
       THEN SendRequest(c, "fail", "fail")
       ELSE /\ pc' = [pc EXCEPT ![c] = "raised"]
            /\ UNCHANGED <<th, eff, got, journal, server, decider>>

\* httpx gives up on the request; the handler does not know.
RequestTimeout(c) ==
    /\ Waiting(c)
    /\ pc' = [pc EXCEPT ![c] = "raised"]
    /\ UNCHANGED <<journal, server, th, eff, got, decider, ran>>

CallStep(c) == HandlerStep(c) /\ UNCHANGED ran
DecisionStep(d) == DeciderStep(d) /\ UNCHANGED ran
ToolStep(c) == RunTool(c) \/ ToolRaises(c)

Next ==
    \/ \E c \in Calls :
          \/ Intercept(c)
          \/ ToolStep(c)
          \/ RequestTimeout(c)
          \/ CallStep(c)
    \/ \E d \in Deciders :
          DecisionStep(d)
    \/ Restart /\ UNCHANGED ran
    \/ (\A c \in Calls : pc[c] \in Done /\ th[c] = "idle") /\ UNCHANGED vars

Spec == Init /\ [][Next]_vars

-----------------------------------------------------------------------------
DevTypeOK ==
    /\ status \in [Calls -> Statuses]
    /\ result \in [Calls -> Calls \cup {Mock, None}]
    /\ approval \in [Calls -> ApprovalStatuses]
    /\ auto \in BOOLEAN /\ gated \in SUBSET Sigs
    /\ autoSeen \in BOOLEAN
    /\ pc \in [Calls -> CallStates]
    /\ th \in [Calls -> HandlerSteps]
    /\ eff \in [Calls -> Calls \cup {None}]
    /\ got \in [Calls -> Calls \cup {Mock, None}]
    /\ decider \in [Deciders -> [at : DeciderSteps, effect : Calls \cup {None},
                                 decision : {"none", "approved", "rejected"}]]
    /\ ran \in SUBSET Calls

\* A request of this signature has been decided, by a human or by the flag.
Decided(s) == \E e \in Calls : SigOf[e] = s /\ approval[e] \in {"approved", "rejected"}

(***************************************************************************)
(* The exactly-once gate of create_effect: no two live rows share a        *)
(* signature, whatever order commits, failures, refusals and new calls of  *)
(* that signature arrive in.                                               *)
(***************************************************************************)
OneLiveRow ==
    \A e, f \in Calls :
        /\ status[e] \in Live /\ status[f] \in Live
        /\ SigOf[e] = SigOf[f]
        => e = f

(***************************************************************************)
(* What a call returns to the agent, run or replayed, is the output of a   *)
(* completed run of the same step, or the marked mock of an approved       *)
(* request: never nothing, never the output of another step.               *)
(***************************************************************************)
ReturnsGenuine ==
    \A c \in Calls : pc[c] = "returned" =>
        \/ got[c] \in ran /\ SigOf[got[c]] = SigOf[c]
        \/ got[c] = Mock /\ \E e \in Calls : SigOf[e] = SigOf[c] /\ approval[e] = "approved"

(***************************************************************************)
(* Without --auto-approve a tool named irreversible does not begin until a *)
(* request for the same step has been decided.  (Decided, not approved: a  *)
(* call answered between a refusal and its effect's update runs too.)      *)
(***************************************************************************)
HeldUntilDecided ==
    \A c \in Calls :
        pc[c] = "run" /\ RequiresApproval(c) /\ ~autoSeen => Decided(SigOf[c])

(***************************************************************************)
(* A decision and its effect are two transactions.  Without --auto-approve *)
(* an undecided request belongs to a held effect, and an effect that is    *)
(* still held has an undecided request, or a decision whose handler is on  *)
(* its way to the effect or died there.                                    *)
(***************************************************************************)
DecisionLands ==
    ~autoSeen => \A e \in Calls :
        /\ approval[e] = "pending" => status[e] = "awaiting_approval"
        /\ status[e] = "awaiting_approval" =>
              \/ approval[e] = "pending"
              \/ \E d \in Deciders : /\ decider[d].effect = e
                                     /\ decider[d].decision = approval[e]
                                     /\ decider[d].at \in {"record", "lost"}

(***************************************************************************)
(* A step whose result is journalled is not run again: an ungated call is  *)
(* told to run only while no committed row holds its signature.            *)
(***************************************************************************)
RecordedNotRerun ==
    [][\A c \in Calls :
          pc[c] = "wait" /\ pc'[c] = "run" /\ ~RequiresApproval(c)
          => \A e \in LiveEffects(SigOf[c]) : status[e] # "committed"]_vars

\* A request is decided once: of two decisions at most one is carried out.
OneDecision ==
    \A d1, d2 \in Deciders :
        /\ decider[d1].at \in {"record", "done", "lost"}
        /\ decider[d2].at \in {"record", "done", "lost"}
        /\ decider[d1].effect = decider[d2].effect
        => d1 = d2
-----------------------------------------------------------------------------
(***************************************************************************)
(* The inductive invariant behind the theorems of SdkCallProofs.           *)
(***************************************************************************)

\* Where the result of a committed row comes from.
Genuine(e) ==
    \/ result[e] \in ran /\ SigOf[result[e]] = SigOf[e]
    \/ result[e] = Mock /\ approval[e] = "approved"

\* A row and its request; only an auto-approving server lets a gated call
\* be journalled as executing.
RowShape(e) ==
    /\ status[e] = "absent" => approval[e] = "none"
    /\ status[e] = "awaiting_approval" => approval[e] # "none"
    /\ SigOf[e] \notin gated => approval[e] = "none"
    /\ SigOf[e] \in gated /\ ~autoSeen => status[e] # "executing"
    /\ status[e] = "committed" => Genuine(e)

\* A call creates its row once; the effect a call or its handler holds is a
\* row of the call's own step; who is about to report a row has its leave.
CallShape(c) ==
    /\ pc[c] \in {"idle", "run"} => th[c] = "idle"
    /\ pc[c] = "idle" \/ th[c] \in {"find", "auto_create", "create"} => status[c] = "absent"
    /\ eff[c] # None => SigOf[eff[c]] = SigOf[c] /\ status[eff[c]] # "absent"
    /\ th[c] \in {"pending", "grant"} => eff[c] # None /\ approval[eff[c]] # "none"
    /\ th[c] \in {"auto_create", "auto_resolve"} => RequiresApproval(c)
    /\ th[c] \in {"auto_create", "auto_resolve", "grant"} => autoSeen
    /\ th[c] = "auto_resolve" => eff[c] = c
    /\ th[c] \in {"commit", "fail"} => eff[c] # None
    /\ th[c] = "commit" => c \in ran
    /\ (pc[c] = "run" \/ th[c] \in {"commit", "fail"}) /\ eff[c] # None /\ ~autoSeen
          => approval[eff[c]] # "pending"

DeciderShape(d) ==
    decider[d].at # "idle" =>
        /\ decider[d].effect # None
        /\ decider[d].decision # "none"
        /\ approval[decider[d].effect] # "none"
        /\ decider[d].at # "resolve" => approval[decider[d].effect] = decider[d].decision

DevInv ==
    /\ DevTypeOK
    /\ auto => autoSeen
    /\ \A e \in Calls : RowShape(e)
    /\ \A c \in Calls : CallShape(c)
    /\ \A d \in Deciders : DeciderShape(d)
    /\ OneLiveRow
    /\ ReturnsGenuine
    /\ HeldUntilDecided
    /\ DecisionLands
    /\ OneDecision
=============================================================================
