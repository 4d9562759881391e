------------------------- MODULE EffectEngineProofs -------------------------
(***************************************************************************)
(* IndInv is an inductive invariant of EffectEngine, for any sets of       *)
(* signatures, sessions, requests and timeout processors and any retry     *)
(* limits.  The safety properties follow from it, with one more invariant  *)
(* for the undo stack and one for the counter of pending approvals.        *)
(*                                                                         *)
(* The other steps of a request are in EngineRequestProofs.                *)
(***************************************************************************)
EXTENDS EngineRequestProofs, FiniteSetTheorems

(* Approval requests: their creation, the decisions and the timeouts       *)

\* The approval request is created.
Requested(c) ==
    /\ pc[c] = "request"
    /\ eff[c] \in Effects
    /\ UNCHANGED <<month, session, state, result_snapshot, args_snapshot, undo, expired,
                   audit, sig, eff, sent, reply, tries, answer, due, runs>>
    /\ pc'[c] = "park" /\ approval'[eff[c]] = "pending"
    /\ \A d \in Calls : d # c => pc'[d] = pc[d]
    /\ \A f \in Effects : f # eff[c] => approval'[f] = approval[f]

\* RequestApproval does that and keeps the types.
LEMMA RequestApprovalDoes ==
    ASSUME IndInv, NEW c \in Calls, RequestApproval(c)
    PROVE  StoreTypeOK' /\ EngineTypeOK' /\ Requested(c)
<1>1. /\ pc' = [pc EXCEPT ![c] = "park"]
      /\ approval' = [approval EXCEPT ![eff[c]] = "pending"]
  BY Zenon DEF RequestApproval, CreateApproval, Go, Stored, clockVars, effectVars, IndInv,
               RequestShape
<1>2. /\ pc[c] = "request"
      /\ eff[c] \in Effects
      /\ UNCHANGED <<month, session, state, result_snapshot, args_snapshot, undo, expired,
            audit, sig, eff, sent, reply, tries, answer, due, runs>>
  BY Zenon DEF RequestApproval, CreateApproval, Go, Stored, clockVars, effectVars, IndInv,
               RequestShape
<1>3. StoreTypeOK'
  BY <1>1, <1>2, SigAssumption, Zenon DEF IndInv, StoreTypeOK, ApprovalStates,
                                          SessionOfEffect, Effects
<1>4. EngineTypeOK'
  BY <1>1, <1>2, Zenon DEF IndInv, EngineTypeOK, PCs, InterceptPC
<1> QED BY <1>1, <1>2, <1>3, <1>4
        DEF IndInv, EngineTypeOK, StoreTypeOK, Requested

\* RequestApproval preserves IndInv.
LEMMA RequestApprovalStep ==
    ASSUME IndInv, NEW c \in Calls, RequestApproval(c)
    PROVE  IndInv'
<1>1. Requested(c)
  BY RequestApprovalDoes, Zenon
<1>2. StoreTypeOK' /\ EngineTypeOK'
  BY RequestApprovalDoes, Zenon
<1>3. OneHumanDecision' /\ RejectionHalts' /\ ResultIsGenuine' /\ CommittedAtRest'
  BY <1>1, Zenon DEF Requested, IndInv, OneHumanDecision, RejectionHalts, ResultIsGenuine,
                     CommittedAtRest
<1>4. RequestShape' /\ NoRowNoTrace' /\ OneOpener'
  BY <1>1 DEF Requested, IndInv, RequestShape, InterceptPC, ProxyPC, NoRowNoTrace,
              Released, Holds, OneOpener, Opening
<1>5. AtMostOneRun' /\ UndoBeforeBegin' /\ UndoRegisteredFirst'
  BY <1>1 DEF Requested, IndInv, AtMostOneRun, Holds, UndoBeforeBegin,
              UndoRegisteredFirst, Released
<1>6. HumanGate' /\ ReportedAfterRun' /\ ArgsAudited'
  BY <1>1 DEF Requested, IndInv, HumanGate, Released, Holds, ReportedAfterRun,
              ArgsAudited, ProxyPC
<1>7. ApprovalShape'
  BY <1>1 DEF Requested, IndInv, ApprovalShape, RequestShape, OneOpener, Opening
<1>8. GateShut'
  <2>1. GateShut /\ RequestShape /\ ApprovalShape
    BY Zenon DEF IndInv
  <2> QED BY <1>1, <2>1 DEF Requested, GateShut, Undecided, ProxyPC, RequestShape,
                            ApprovalShape
<1>9. DueExist'
  BY <1>1, Zenon DEF Requested, IndInv, DueExist
<1> QED BY <1>2, <1>3, <1>4, <1>5, <1>6, <1>7, <1>8, <1>9, Zenon DEF IndInv

\* Every effect belongs to a session.
LEMMA EffectSession == \A e \in Effects : SessionOfEffect(e) \in Sessions
BY SigAssumption, Zenon DEF Effects, SessionOfEffect

\* An audit event adds one to its own count and changes nothing else.
LEMMA AuditEvent ==
    ASSUME NEW A \in [Effects -> [Actions -> Nat]], NEW e \in Effects, NEW a \in Actions,
           NEW B, B = [A EXCEPT ![e][a] = @ + 1]
    PROVE  /\ B \in [Effects -> [Actions -> Nat]]
           /\ B[e][a] = A[e][a] + 1
           /\ \A b \in Actions : b # a => B[e][b] = A[e][b]
           /\ \A f \in Effects : f # e => B[f] = A[f]
<1> DEFINE R == [A[e] EXCEPT ![a] = @ + 1]
<1>1. A[e] \in [Actions -> Nat] /\ A[e][a] \in Nat
  <2>1. A[e] \in [Actions -> Nat]
    OBVIOUS
  <2> QED BY <2>1, Zenon
<1>2. /\ R \in [Actions -> Nat] /\ R[a] = A[e][a] + 1
      /\ \A b \in Actions : b # a => R[b] = A[e][b]
  BY <1>1
<1>3. B = [A EXCEPT ![e] = R]
  BY Zenon
<1>4. B[e] = R /\ \A f \in Effects : f # e => B[f] = A[f]
  BY <1>3, Zenon
<1>5. B \in [Effects -> [Actions -> Nat]]
  BY <1>2, <1>3, Zenon
<1> QED BY <1>2, <1>4, <1>5, Zenon

\* The transaction of approve.
Approved(c, e, args) ==
    /\ pc[c] = "idle"
    /\ approval[e] = "pending"
    /\ state[e] = "pending"
    /\ session[SessionOfEffect(e)] = "awaiting_approval"
    /\ UNCHANGED <<month, result_snapshot, undo, expired, sig, tries, due, runs>>
    /\ pc'[c] = "exec" /\ eff'[c] = e /\ sent'[c] = args
    /\ reply'[c] = "null" /\ approval'[e] = "approved" /\ state'[e] = "approved"
    /\ args_snapshot'[e] = args /\ session'[SessionOfEffect(e)] = "active"
    /\ \A d \in Calls : d # c => /\ pc'[d] = pc[d] /\ eff'[d] = eff[d]
                                 /\ sent'[d] = sent[d] /\ reply'[d] = reply[d]
    /\ \A f \in Effects : f # e => /\ approval'[f] = approval[f] /\ state'[f] = state[f]
                                   /\ args_snapshot'[f] = args_snapshot[f]
    /\ \A s \in Sessions : s # SessionOfEffect(e) => session'[s] = session[s]
    /\ audit'[e]["approve"] = audit[e]["approve"] + 1
    /\ audit'[e]["reject"] = audit[e]["reject"]
    /\ \A f \in Effects : f # e => audit'[f] = audit[f]

\* Approve does that and keeps the types.
LEMMA ApproveDoes ==
    ASSUME IndInv, NEW c \in Calls, NEW e \in Effects, NEW args \in Args,
           Approve(c, e, args)
    PROVE  StoreTypeOK' /\ EngineTypeOK' /\ Approved(c, e, args)
<1>1. /\ pc' = [pc EXCEPT ![c] = "exec"]
      /\ answer' = [answer EXCEPT ![c] = "none"]
      /\ eff' = [eff EXCEPT ![c] = e]
      /\ sent' = [sent EXCEPT ![c] = args]
      /\ reply' = [reply EXCEPT ![c] = "null"]
      /\ approval' = [approval EXCEPT ![e] = "approved"]
      /\ audit' = [audit EXCEPT ![e]["approve"] = @ + 1]
      /\ state' = [state EXCEPT ![e] = "approved"]
      /\ args_snapshot' = [args_snapshot EXCEPT ![e] = args]
      /\ session' = [session EXCEPT ![SessionOfEffect(e)] = "active"]
  BY Zenon DEF Approve, ApproveTx, CanApprove, Resolve, Decide, Stored, clockVars
<1>2. /\ pc[c] = "idle"
      /\ approval[e] = "pending"
      /\ state[e] = "pending"
      /\ session[SessionOfEffect(e)] = "awaiting_approval"
      /\ UNCHANGED <<month, result_snapshot, undo, expired, sig, tries, due, runs>>
  BY Zenon DEF Approve, ApproveTx, CanApprove, Resolve, Decide, Stored, clockVars
<1>3. /\ audit' \in [Effects -> [Actions -> Nat]]
      /\ audit'[e]["approve"] = audit[e]["approve"] + 1
      /\ audit'[e]["reject"] = audit[e]["reject"]
      /\ \A f \in Effects : f # e => audit'[f] = audit[f]
  BY <1>1, AuditEvent DEF IndInv, StoreTypeOK, Actions
<1>4. StoreTypeOK'
  <2>1. session' \in [Sessions -> SessionStates \cup {"none"}]
    BY <1>1, Zenon DEF IndInv, StoreTypeOK, SessionStates
  <2> QED BY <1>1, <1>2, <1>3, <2>1, Zenon DEF IndInv, StoreTypeOK, EffectStates,
                                               ApprovalStates
<1>5. EngineTypeOK'
  BY <1>1, <1>2, Zenon DEF IndInv, EngineTypeOK, PCs, ProxyPC, Results, Answers
<1>6. EngineTypeOK /\ StoreTypeOK
  BY Zenon DEF IndInv
<1>7. /\ pc'[c] = "exec" /\ eff'[c] = e /\ sent'[c] = args /\ reply'[c] = "null"
      /\ \A d \in Calls : d # c => /\ pc'[d] = pc[d] /\ eff'[d] = eff[d]
                                   /\ sent'[d] = sent[d] /\ reply'[d] = reply[d]
  BY <1>1, <1>6, Zenon DEF EngineTypeOK
<1>8. /\ approval'[e] = "approved" /\ state'[e] = "approved" /\ args_snapshot'[e] = args
      /\ \A f \in Effects : f # e => /\ approval'[f] = approval[f] /\ state'[f] = state[f]
                                     /\ args_snapshot'[f] = args_snapshot[f]
  BY <1>1, <1>6, Zenon DEF StoreTypeOK
<1>9. /\ session'[SessionOfEffect(e)] = "active"
      /\ \A s \in Sessions : s # SessionOfEffect(e) => session'[s] = session[s]
  BY <1>1, <1>6, EffectSession, Zenon DEF StoreTypeOK
<1> QED BY <1>2, <1>3, <1>4, <1>5, <1>7, <1>8, <1>9, Zenon DEF Approved

\* Approve preserves IndInv.
LEMMA ApproveStep ==
    ASSUME IndInv, NEW c \in Calls, NEW e \in Effects, NEW args \in Args,
           Approve(c, e, args)
    PROVE  IndInv'
<1>0. /\ StoreTypeOK /\ EngineTypeOK /\ RequestShape /\ NoRowNoTrace /\ OneOpener
      /\ UndoBeforeBegin /\ ApprovalShape /\ GateShut /\ DueExist /\ ReportedAfterRun
      /\ CommittedAtRest /\ AtMostOneRun /\ UndoRegisteredFirst /\ HumanGate
      /\ ResultIsGenuine /\ OneHumanDecision /\ RejectionHalts /\ ArgsAudited
  BY Zenon DEF IndInv
<1>1. Approved(c, e, args)
  BY ApproveDoes, Zenon
<1>2. StoreTypeOK' /\ EngineTypeOK'
  BY ApproveDoes, Zenon
<1>3. RequestShape' /\ NoRowNoTrace' /\ UndoBeforeBegin'
  <2>1. RequestShape'
    BY <1>0, <1>1 DEF Approved, RequestShape, InterceptPC, ProxyPC
  <2>2. NoRowNoTrace'
    BY <1>0, <1>1 DEF Approved, NoRowNoTrace, Released, Holds
  <2>3. UndoBeforeBegin'
    BY <1>0, <1>1 DEF Approved, UndoBeforeBegin, RequestShape
  <2> QED BY <2>1, <2>2, <2>3, Zenon
<1>4. ApprovalShape' /\ GateShut' /\ ReportedAfterRun'
  BY <1>0, <1>1 DEF Approved, ApprovalShape, GateShut, Undecided, ProxyPC,
              ReportedAfterRun
<1>5. ResultIsGenuine' /\ CommittedAtRest'
  BY <1>0, <1>1 DEF Approved, ResultIsGenuine, CommittedAtRest
<1>6. OneOpener'
  BY <1>0, <1>1 DEF Approved, OneOpener, Opening, Released, Holds, ApprovalShape,
              RequestShape, GateShut, Undecided, ProxyPC, HumanGate
<1>7. AtMostOneRun'
  BY <1>0, <1>1 DEF Approved, AtMostOneRun, Holds, GateShut, HumanGate, Released,
              Undecided, ProxyPC, ApprovalShape
<1>8. UndoRegisteredFirst'
  BY <1>0, <1>1 DEF Approved, UndoRegisteredFirst, Released, Holds, ApprovalShape
<1>9. DueExist'
  BY <1>0, <1>1 DEF Approved, DueExist
<1>10. HumanGate'
  BY <1>0, <1>1 DEF Approved, HumanGate, Released, Holds, GateShut, ApprovalShape,
              Undecided, ProxyPC
<1>11. OneHumanDecision'
  BY <1>0, <1>1 DEF Approved, OneHumanDecision, GateShut, Undecided
<1>12. RejectionHalts'
  BY <1>0, <1>1, EffectSession DEF Approved, RejectionHalts
<1>13. ArgsAudited'
  BY <1>0, <1>1 DEF Approved, ArgsAudited, ProxyPC, GateShut, ApprovalShape,
              Undecided, EngineTypeOK
<1> QED BY <1>2, <1>3, <1>4, <1>5, <1>6, <1>7, <1>8, <1>9, <1>10, <1>11, <1>12, <1>13,
           Zenon
           DEF IndInv

\* The transaction of reject.
Rejected(c, e) ==
    /\ pc[c] = "idle"
    /\ approval[e] = "pending"
    /\ state[e] = "pending"
    /\ UNCHANGED <<month, result_snapshot, args_snapshot, undo, expired, sig, tries,
                   due, runs>>
    /\ pc'[c] = "idle" /\ eff'[c] = e /\ sent'[c] = "proposed"
    /\ reply'[c] = "null" /\ approval'[e] = "rejected" /\ state'[e] = "rejected"
    /\ session'[SessionOfEffect(e)] = "halted"
    /\ \A d \in Calls : d # c => /\ pc'[d] = pc[d] /\ eff'[d] = eff[d]
                                 /\ sent'[d] = sent[d] /\ reply'[d] = reply[d]
    /\ \A f \in Effects : f # e => approval'[f] = approval[f] /\ state'[f] = state[f]
    /\ \A s \in Sessions : s # SessionOfEffect(e) => session'[s] = session[s]
    /\ audit'[e]["reject"] = audit[e]["reject"] + 1
    /\ audit'[e]["approve"] = audit[e]["approve"]
    /\ \A f \in Effects : f # e => audit'[f] = audit[f]

\* Reject does that and keeps the types.
LEMMA RejectDoes ==
    ASSUME IndInv, NEW c \in Calls, NEW e \in Effects, Reject(c, e)
    PROVE  StoreTypeOK' /\ EngineTypeOK' /\ Rejected(c, e)
<1>1. /\ pc' = [pc EXCEPT ![c] = "idle"]
      /\ answer' = [answer EXCEPT ![c] = "rejected"]
      /\ eff' = [eff EXCEPT ![c] = e]
      /\ sent' = [sent EXCEPT ![c] = "proposed"]
      /\ reply' = [reply EXCEPT ![c] = "null"]
      /\ approval' = [approval EXCEPT ![e] = "rejected"]
      /\ audit' = [audit EXCEPT ![e]["reject"] = @ + 1]
      /\ state' = [state EXCEPT ![e] = "rejected"]
      /\ session' = [session EXCEPT ![SessionOfEffect(e)] = "halted"]
  BY Zenon DEF Reject, RejectTx, CanReject, Resolve, Decide, Stored, clockVars
<1>2. /\ pc[c] = "idle"
      /\ approval[e] = "pending"
      /\ state[e] = "pending"
      /\ UNCHANGED <<month, result_snapshot, args_snapshot, undo, expired, sig, tries,
                   due, runs>>
  BY Zenon DEF Reject, RejectTx, CanReject, Resolve, Decide, Stored, clockVars
<1>3. /\ audit' \in [Effects -> [Actions -> Nat]]
      /\ audit'[e]["reject"] = audit[e]["reject"] + 1
      /\ audit'[e]["approve"] = audit[e]["approve"]
      /\ \A f \in Effects : f # e => audit'[f] = audit[f]
  BY <1>1, AuditEvent DEF IndInv, StoreTypeOK, Actions
<1>4. StoreTypeOK'
  <2>1. session' \in [Sessions -> SessionStates \cup {"none"}]
    BY <1>1, Zenon DEF IndInv, StoreTypeOK, SessionStates
  <2> QED BY <1>1, <1>2, <1>3, <2>1, Zenon DEF IndInv, StoreTypeOK, EffectStates,
                                               ApprovalStates
<1>5. EngineTypeOK'
  BY <1>1, <1>2, Zenon DEF IndInv, EngineTypeOK, PCs, Results, Answers, Args
<1>6. EngineTypeOK /\ StoreTypeOK
  BY Zenon DEF IndInv
<1>7. /\ pc'[c] = "idle" /\ eff'[c] = e /\ sent'[c] = "proposed" /\ reply'[c] = "null"
      /\ \A d \in Calls : d # c => /\ pc'[d] = pc[d] /\ eff'[d] = eff[d]
                                   /\ sent'[d] = sent[d] /\ reply'[d] = reply[d]
  BY <1>1, <1>6, Zenon DEF EngineTypeOK
<1>8. /\ approval'[e] = "rejected" /\ state'[e] = "rejected"
      /\ \A f \in Effects : f # e => approval'[f] = approval[f] /\ state'[f] = state[f]
  BY <1>1, <1>6, Zenon DEF StoreTypeOK
<1>9. /\ session'[SessionOfEffect(e)] = "halted"
      /\ \A s \in Sessions : s # SessionOfEffect(e) => session'[s] = session[s]
  BY <1>1, <1>6, EffectSession, Zenon DEF StoreTypeOK
<1> QED BY <1>2, <1>3, <1>4, <1>5, <1>7, <1>8, <1>9, Zenon DEF Rejected

\* Reject preserves IndInv.
LEMMA RejectStep ==
    ASSUME IndInv, NEW c \in Calls, NEW e \in Effects, Reject(c, e)
    PROVE  IndInv'
<1>0. /\ StoreTypeOK /\ EngineTypeOK /\ RequestShape /\ NoRowNoTrace /\ OneOpener
      /\ UndoBeforeBegin /\ ApprovalShape /\ GateShut /\ DueExist /\ ReportedAfterRun
      /\ CommittedAtRest /\ AtMostOneRun /\ UndoRegisteredFirst /\ HumanGate
      /\ ResultIsGenuine /\ OneHumanDecision /\ RejectionHalts /\ ArgsAudited
  BY Zenon DEF IndInv
<1>1. Rejected(c, e)
  BY RejectDoes, Zenon
<1>2. StoreTypeOK' /\ EngineTypeOK'
  BY RejectDoes, Zenon
<1>3. RequestShape' /\ NoRowNoTrace' /\ OneOpener'
  <2>1. RequestShape'
    <3>1. /\ pc[c] = "idle" /\ pc'[c] = "idle" /\ sent'[c] = "proposed"
          /\ sig' = sig
          /\ \A d \in Calls : d # c => pc'[d] = pc[d] /\ eff'[d] = eff[d] /\ sent'[d] = sent[d]
      BY <1>1, Zenon DEF Rejected
    <3> QED BY <1>0, <3>1 DEF RequestShape, InterceptPC, ProxyPC
  <2>2. NoRowNoTrace'
    BY <1>0, <1>1 DEF Rejected, NoRowNoTrace, Released, Holds
  <2>3. OneOpener'
    BY <1>0, <1>1 DEF Rejected, OneOpener, Opening, Released, Holds
  <2> QED BY <2>1, <2>2, <2>3, Zenon
<1>4. AtMostOneRun' /\ UndoBeforeBegin' /\ UndoRegisteredFirst'
  BY <1>0, <1>1 DEF Rejected, AtMostOneRun, Holds, UndoBeforeBegin,
              UndoRegisteredFirst, Released
<1>5. ApprovalShape' /\ GateShut' /\ ReportedAfterRun'
  BY <1>0, <1>1 DEF Rejected, ApprovalShape, GateShut, Undecided, ProxyPC,
              ReportedAfterRun
<1>6. ArgsAudited' /\ ResultIsGenuine' /\ CommittedAtRest'
  BY <1>0, <1>1 DEF Rejected, ArgsAudited, ProxyPC, ResultIsGenuine, CommittedAtRest
<1>7. DueExist'
  BY <1>0, <1>1, Zenon DEF Rejected, DueExist
<1>8. HumanGate'
  <2>1. ~Released(e)
    BY <1>0, <1>1 DEF Rejected, HumanGate, Released, Holds, GateShut, ApprovalShape,
                Undecided, ProxyPC
  <2> QED BY <1>0, <1>1, <2>1 DEF Rejected, HumanGate, Released, Holds
<1>9. OneHumanDecision'
  BY <1>0, <1>1 DEF Rejected, OneHumanDecision, GateShut, Undecided
<1>10. RejectionHalts'
  BY <1>0, <1>1, EffectSession, Zenon DEF Rejected, RejectionHalts
<1> QED BY <1>2, <1>3, <1>4, <1>5, <1>6, <1>7, <1>8, <1>9, <1>10, Zenon DEF IndInv

\* The UPDATEs of process_timeouts.
TimedOut(w) ==
    /\ UNCHANGED <<month, session, state, result_snapshot, args_snapshot, undo, expired,
                   pc, sig, eff, sent, reply, tries, answer, runs>>
    /\ due'[w] = {}
    /\ \A v \in Sweepers : v # w => due'[v] = due[v]
    /\ \A f \in Effects : f \notin due[w] => approval'[f] = approval[f]
    /\ \A f \in Effects : f \in due[w] => approval'[f] \in {"timed_out", "auto_approved"}
    /\ \A f \in Effects : /\ audit'[f]["approve"] = audit[f]["approve"]
                          /\ audit'[f]["reject"] = audit[f]["reject"]

\* ApplyDue does that and keeps the types.
LEMMA ApplyDueDoes ==
    ASSUME IndInv, NEW w \in Sweepers, ApplyDue(w)
    PROVE  StoreTypeOK' /\ EngineTypeOK' /\ TimedOut(w)
<1>1. PICK final \in {"timed_out", "auto_approved"} :
      /\ due' = [due EXCEPT ![w] = {}]
      /\ approval' = [e \in Effects |-> IF e \in due[w] THEN final ELSE approval[e]]
      /\ audit' = [e \in Effects |->
            IF e \in due[w] THEN [audit[e] EXCEPT !["timeout"] = @ + 1] ELSE audit[e]]
  BY Zenon DEF ApplyDue, TimeOutApprovals, callVars, clockVars, effectVars, ApprovalStates
<1>2. /\ UNCHANGED <<month, session, state, result_snapshot, args_snapshot, undo, expired,
            pc, sig, eff, sent, reply, tries, answer, runs>>
  BY Zenon DEF ApplyDue, TimeOutApprovals, callVars, clockVars, effectVars, ApprovalStates
<1>3. StoreTypeOK'
  BY <1>1, <1>2 DEF IndInv, StoreTypeOK, ApprovalStates, Actions
<1>4. EngineTypeOK'
  BY <1>1, <1>2, Zenon DEF IndInv, EngineTypeOK
<1> QED BY <1>1, <1>2, <1>3, <1>4
        DEF IndInv, EngineTypeOK, StoreTypeOK, Actions, TimedOut

\* ApplyDue preserves IndInv.
LEMMA ApplyDueStep ==
    ASSUME IndInv, NEW w \in Sweepers, ApplyDue(w)
    PROVE  IndInv'
<1>0. /\ StoreTypeOK /\ EngineTypeOK /\ RequestShape /\ NoRowNoTrace /\ OneOpener
      /\ UndoBeforeBegin /\ ApprovalShape /\ GateShut /\ DueExist /\ ReportedAfterRun
      /\ CommittedAtRest /\ AtMostOneRun /\ UndoRegisteredFirst /\ HumanGate
      /\ ResultIsGenuine /\ OneHumanDecision /\ RejectionHalts /\ ArgsAudited
  BY Zenon DEF IndInv
<1>1. TimedOut(w)
  BY ApplyDueDoes, Zenon
<1>2. StoreTypeOK' /\ EngineTypeOK'
  BY ApplyDueDoes, Zenon
<1>3. RequestShape' /\ OneOpener' /\ AtMostOneRun' /\ UndoBeforeBegin'
      /\ UndoRegisteredFirst' /\ ReportedAfterRun' /\ ArgsAudited' /\ ResultIsGenuine'
      /\ CommittedAtRest'
  <2>1. RequestShape' /\ OneOpener' /\ AtMostOneRun'
    <3>1. RequestShape'
      BY <1>0, <1>1, Zenon DEF TimedOut, RequestShape
    <3>2. OneOpener'
      BY <1>0, <1>1, Zenon DEF TimedOut, OneOpener, Opening, Released, Holds
    <3>3. AtMostOneRun'
      BY <1>0, <1>1, Zenon DEF TimedOut, AtMostOneRun, Holds
    <3> QED BY <3>1, <3>2, <3>3, Zenon
  <2>2. UndoBeforeBegin' /\ UndoRegisteredFirst' /\ ReportedAfterRun'
    BY <1>0, <1>1, Zenon DEF TimedOut, UndoBeforeBegin, UndoRegisteredFirst, Released,
                             Holds, ReportedAfterRun
  <2>3. ArgsAudited' /\ ResultIsGenuine' /\ CommittedAtRest'
    BY <1>0, <1>1, Zenon DEF TimedOut, ArgsAudited, ProxyPC, ResultIsGenuine,
                             CommittedAtRest
  <2> QED BY <2>1, <2>2, <2>3, Zenon
<1>4. HumanGate' /\ OneHumanDecision' /\ RejectionHalts'
  BY <1>0, <1>1, ZenonT(60) DEF TimedOut, HumanGate, Released, Holds, OneHumanDecision,
                           RejectionHalts
<1>5. NoRowNoTrace'
  <2>1. \A e \in Effects : Released(e)' <=> Released(e)
    BY <1>1, Zenon DEF TimedOut, Released, Holds
  <2>2. \A e \in Effects : state[e] = "none" => approval'[e] = "none"
    BY <1>0, <1>1, Zenon DEF TimedOut, NoRowNoTrace, DueExist
  <2> QED BY <1>0, <1>1, <2>1, <2>2, Zenon DEF TimedOut, NoRowNoTrace
<1>6. ApprovalShape'
  BY <1>0, <1>1, ZenonT(60) DEF TimedOut, ApprovalShape, DueExist
<1>7. GateShut'
  BY <1>0, <1>1, ZenonT(60) DEF TimedOut, GateShut, Undecided, ProxyPC, DueExist
<1>8. DueExist'
  BY <1>0, <1>1, Zenon DEF TimedOut, DueExist
<1> QED BY <1>2, <1>3, <1>4, <1>5, <1>6, <1>7, <1>8, Zenon DEF IndInv

-----------------------------------------------------------------------------
(* The other steps                                                         *)

\* A session is created, or left as it is.
LEMMA EnsureSessionStep ==
    ASSUME IndInv, NEW c \in Calls, EnsureSession(c)
    PROVE  IndInv'
<1>1. UNCHANGED <<month, state, result_snapshot, args_snapshot, undo, approval, expired,
                  audit, sig, eff, sent, reply, tries, answer, due, runs>>
  BY Zenon DEF EnsureSession, CreateSession, Go, Stored, clockVars, effectVars,
               approvalVars
<1>2. StoreTypeOK' /\ EngineTypeOK'
  <2>1. StoreTypeOK'
    BY <1>1, Zenon DEF IndInv, EnsureSession, CreateSession, StoreTypeOK, SessionStates
  <2>2. EngineTypeOK'
    BY <1>1, Zenon DEF IndInv, EnsureSession, Go, EngineTypeOK, PCs, InterceptPC
  <2> QED BY <2>1, <2>2, Zenon
<1>3. /\ pc'[c] = "lock"
      /\ \A d \in Calls \ {c} : pc'[d] = pc[d]
      /\ \A s \in Sessions : session[s] = "halted" => session'[s] = "halted"
      /\ pc[c] = "session"
  BY Zenon DEF IndInv, EnsureSession, CreateSession, Go, StoreTypeOK, EngineTypeOK
<1>4. RequestShape' /\ RejectionHalts' /\ CommittedAtRest'
  <2>1. RequestShape'
    BY <1>1, <1>3 DEF IndInv, RequestShape, InterceptPC, ProxyPC
  <2>2. RejectionHalts' /\ CommittedAtRest'
    BY <1>1, <1>3, EffectSession, Zenon DEF IndInv, RejectionHalts, CommittedAtRest
  <2> QED BY <2>1, <2>2, Zenon
<1>5. eff[c] = None
  BY <1>3, Zenon DEF IndInv, RequestShape
<1> QED BY <1>1, <1>2, <1>3, <1>4, <1>5, QuietRequestStep, Zenon
        DEF IndInv, ResultIsGenuine, Quiet

\* Only an active session is suspended, so a halted one stays halted.
LEMMA ParkStep ==
    ASSUME IndInv, NEW c \in Calls, Park(c)
    PROVE  IndInv'
<1>1. UNCHANGED <<month, state, result_snapshot, args_snapshot, undo, approval, expired,
                  audit, eff, reply, due, runs>>
  BY Zenon DEF Park, SetAwaitingApproval, Finish, Stored, clockVars, effectVars,
               approvalVars
<1>2. StoreTypeOK' /\ EngineTypeOK'
  <2>1. StoreTypeOK'
    BY <1>1, Zenon DEF IndInv, Park, SetAwaitingApproval, StoreTypeOK, SessionStates
  <2>2. EngineTypeOK'
    BY <1>1, Zenon DEF IndInv, Park, Finish, EngineTypeOK, PCs, Answers, Args
  <2> QED BY <2>1, <2>2
<1>3. /\ pc'[c] = "idle" /\ sig'[c] = None /\ sent'[c] = "proposed"
      /\ \A d \in Calls \ {c} : pc'[d] = pc[d] /\ sig'[d] = sig[d] /\ sent'[d] = sent[d]
      /\ \A s \in Sessions : session[s] = "halted" => session'[s] = "halted"
  BY Zenon DEF IndInv, Park, SetAwaitingApproval, Finish, StoreTypeOK, EngineTypeOK
<1>4. RequestShape' /\ RejectionHalts' /\ CommittedAtRest'
  <2>1. RequestShape'
    BY <1>1, <1>3, ShapeKept, Zenon DEF IndInv
  <2>2. RejectionHalts' /\ CommittedAtRest'
    BY <1>1, <1>3, EffectSession, Zenon DEF IndInv, RejectionHalts, CommittedAtRest
  <2> QED BY <2>1, <2>2, Zenon
<1> QED BY <1>1, <1>2, <1>3, <1>4, QuietRequestStep, Zenon
        DEF IndInv, ResultIsGenuine, Quiet

\* A replay rewrites the state of a row that exists, and keeps its result.
LEMMA ReplayStep ==
    ASSUME IndInv, NEW c \in Calls, Replay(c)
    PROVE  IndInv'
<1>1. UNCHANGED <<month, session, result_snapshot, args_snapshot, undo, approval, expired,
                  audit, eff, reply, due, runs>>
  BY Zenon DEF Replay, MarkReplayed, Finish, Stored, clockVars, approvalVars
<1>2. StoreTypeOK' /\ EngineTypeOK'
  <2>1. StoreTypeOK'
    BY <1>1, Zenon DEF IndInv, Replay, MarkReplayed, StoreTypeOK, EffectStates
  <2>2. EngineTypeOK'
    BY <1>1, Zenon DEF IndInv, Replay, Finish, EngineTypeOK, PCs, Answers, Args
  <2> QED BY <2>1, <2>2
<1>3. /\ pc'[c] = "idle" /\ sig'[c] = None /\ sent'[c] = "proposed"
      /\ \A d \in Calls \ {c} : pc'[d] = pc[d] /\ sig'[d] = sig[d] /\ sent'[d] = sent[d]
      /\ state'[eff[c]] = "replayed"
      /\ \A e \in Effects : e # eff[c] => state'[e] = state[e]
      /\ pc[c] = "replay" /\ eff[c] \in Effects
  BY DEF IndInv, Replay, MarkReplayed, Finish, StoreTypeOK, EngineTypeOK, RequestShape
<1>4. RequestShape' /\ RejectionHalts' /\ CommittedAtRest'
  <2>1. RequestShape'
    BY <1>1, <1>3, ShapeKept, Zenon DEF IndInv
  <2>2. RejectionHalts' /\ CommittedAtRest'
    BY <1>1, <1>3, Zenon DEF IndInv, RejectionHalts, CommittedAtRest
  <2> QED BY <2>1, <2>2, Zenon
<1>5. \A e \in Effects : state'[e] = "none" <=> state[e] = "none"
  BY <1>3, Zenon DEF IndInv, NoRowNoTrace
<1> QED BY <1>1, <1>2, <1>3, <1>4, <1>5, QuietRequestStep, Zenon
        DEF IndInv, ResultIsGenuine, Quiet

\* No part of IndInv but the types and DueExist looks at the clock, at the
\* counters or at what the timeout processors selected.
LEMMA FrameStep ==
    ASSUME IndInv, StoreTypeOK', EngineTypeOK', DueExist',
           UNCHANGED <<session, state, result_snapshot, args_snapshot, undo, approval, audit,
                       pc, sig, eff, sent, reply, runs>>
    PROVE  IndInv'
<1>1. RequestShape' /\ RejectionHalts' /\ CommittedAtRest' /\ ResultIsGenuine'
  BY Zenon DEF IndInv, RequestShape, RejectionHalts, CommittedAtRest, ResultIsGenuine
<1>2. \A d \in Calls : Quiet(d)
  BY Zenon DEF Quiet
<1> QED BY <1>1, <1>2, QuietStep, Zenon

\* Another attempt of a step.
LEMMA AgainStep ==
    ASSUME IndInv, NEW c \in Calls, tries' = [tries EXCEPT ![c] = @ + 1],
           UNCHANGED <<pc, sig, eff, sent, reply, answer>>, Silent
    PROVE  IndInv'
<1>1. UNCHANGED <<month, session, state, result_snapshot, args_snapshot, undo, approval,
                  expired, audit, due, runs>>
  BY Zenon DEF Silent, storeVars, dbVars, clockVars, effectVars, approvalVars
<1>2. StoreTypeOK' /\ EngineTypeOK' /\ DueExist'
  BY <1>1 DEF IndInv, StoreTypeOK, EngineTypeOK, DueExist
<1> QED BY <1>1, <1>2, FrameStep, Zenon

\* A processor selects requests that are pending.
LEMMA SelectDueStep ==
    ASSUME IndInv, NEW w \in Sweepers, SelectDue(w)
    PROVE  IndInv'
<1>1. UNCHANGED <<month, session, state, result_snapshot, args_snapshot, undo, approval,
                  expired, audit, pc, sig, eff, sent, reply, tries, answer, runs>>
  BY Zenon DEF SelectDue, callVars, storeVars, dbVars, clockVars, effectVars, approvalVars
<1>2. StoreTypeOK' /\ EngineTypeOK'
  BY <1>1, Zenon DEF IndInv, SelectDue, DueApprovals, StoreTypeOK, EngineTypeOK
<1>3. /\ due'[w] = DueApprovals
      /\ \A v \in Sweepers \ {w} : due'[v] = due[v]
  BY Zenon DEF IndInv, SelectDue, EngineTypeOK
<1>4. DueExist'
  BY <1>1, <1>3, Zenon DEF IndInv, DueExist, DueApprovals
<1> QED BY <1>1, <1>2, <1>4, FrameStep, Zenon

\* A processor's transaction is rolled back.
LEMMA SweepAbortStep ==
    ASSUME IndInv, NEW w \in Sweepers, SweepAbort(w)
    PROVE  IndInv'
<1>1. UNCHANGED <<month, session, state, result_snapshot, args_snapshot, undo, approval,
                  expired, audit, pc, sig, eff, sent, reply, tries, answer, runs>>
  BY Zenon DEF SweepAbort, callVars, storeVars, dbVars, clockVars, effectVars,
               approvalVars
<1>2. StoreTypeOK' /\ EngineTypeOK' /\ DueExist'
  BY <1>1, Zenon DEF IndInv, SweepAbort, StoreTypeOK, EngineTypeOK, DueExist
<1> QED BY <1>1, <1>2, FrameStep, Zenon

\* The clock moves.
LEMMA ClockStep ==
    ASSUME IndInv, Clock
    PROVE  IndInv'
<1>1. UNCHANGED <<session, state, result_snapshot, args_snapshot, undo, approval, audit,
                  pc, sig, eff, sent, reply, tries, answer, due, runs>>
  BY Zenon DEF Clock, NextMonth, Expire, callVars, dbVars, effectVars, approvalVars
<1>2. month' \in Months /\ expired' \in SUBSET Effects
  BY ConfigAssumption DEF IndInv, StoreTypeOK, Clock, NextMonth, Expire, Months
<1>3. StoreTypeOK' /\ EngineTypeOK' /\ DueExist'
  BY <1>1, <1>2, Zenon DEF IndInv, StoreTypeOK, EngineTypeOK, DueExist
<1> QED BY <1>1, <1>3, FrameStep, Zenon

-----------------------------------------------------------------------------
(* The invariant and what follows from it                                  *)

\* IndInv holds at the start.
LEMMA InitIndInv == Init => IndInv
<1> SUFFICES ASSUME Init PROVE IndInv
  OBVIOUS
<1>1. StoreTypeOK
  BY ConfigAssumption DEF Init, StoreInit, StoreTypeOK, Months, Results, Args
<1>2. EngineTypeOK
  BY Zenon DEF Init, EngineTypeOK, PCs, Args, Results, Answers
<1>3. /\ \A c \in Calls : pc[c] = "idle" /\ sent[c] = "proposed" /\ reply[c] = "null"
      /\ \A w \in Sweepers : due[w] = {}
      /\ \A e \in Effects :
            /\ state[e] = "none" /\ approval[e] = "none" /\ runs[e] = 0
            /\ result_snapshot[e] = "null" /\ args_snapshot[e] = "proposed"
            /\ audit[e]["approve"] = 0 /\ audit[e]["reject"] = 0
  BY Zenon DEF Init, StoreInit, Actions
<1>4. RequestShape /\ UndoBeforeBegin
  BY <1>3, Zenon DEF RequestShape, InterceptPC, ProxyPC, UndoBeforeBegin
<1>5. NoRowNoTrace /\ OneOpener /\ AtMostOneRun
  BY <1>3 DEF NoRowNoTrace, OneOpener, Opening, AtMostOneRun, Released, Holds
<1>6. ApprovalShape /\ GateShut /\ DueExist /\ ReportedAfterRun /\ CommittedAtRest
  BY <1>3, Zenon DEF ApprovalShape, GateShut, ProxyPC, DueExist, ReportedAfterRun,
                     CommittedAtRest
<1>7. UndoRegisteredFirst /\ HumanGate /\ ResultIsGenuine
  BY <1>3 DEF UndoRegisteredFirst, HumanGate, ResultIsGenuine, Released, Holds
<1>8. OneHumanDecision /\ RejectionHalts /\ ArgsAudited
  BY <1>3 DEF OneHumanDecision, RejectionHalts, ArgsAudited, ProxyPC
<1> QED BY <1>1, <1>2, <1>4, <1>5, <1>6, <1>7, <1>8, Zenon DEF IndInv

\* A retried step is another attempt, or the last one and its end.
LEMMA RetryStep ==
    ASSUME IndInv, NEW c \in Calls, NEW max, NEW how \in Answers, Silent,
           Retry(c, max, Finish(c, how))
    PROVE  IndInv'
BY AgainStep, FinishStep, Zenon DEF Retry

\* A step of intercept.
LEMMA InterceptStep ==
    ASSUME IndInv, NEW c \in Calls, Intercept(c)
    PROVE  IndInv'
<1>1. ASSUME LockBusy(c) PROVE IndInv'
  BY <1>1, RetryStep, Zenon DEF LockBusy, Answers
<1>2. ASSUME \/ FindUnreadable(c) \/ InsertConflict(c) \/ PushConflict(c)
             \/ BeginRefused(c)
      PROVE  IndInv'
  BY <1>2, FinishStep, Zenon DEF FindUnreadable, InsertConflict, PushConflict,
                                 BeginRefused, Answers
<1> QED BY <1>1, <1>2, EnsureSessionStep, AcquireLockStep, FindExistingStep, ReplayStep,
           RouteSafeStep, RouteLoggedStep, InsertStep, PushStep, BeginStep,
           RequestApprovalStep, ParkStep, Zenon
           DEF Intercept

\* A step of the proxy after the release.
LEMMA ReportStep ==
    ASSUME IndInv, NEW c \in Calls, Report(c)
    PROVE  IndInv'
<1>1. ASSUME CommitSafe(c) \/ CommitRefused(c) \/ FailIgnored(c) PROVE IndInv'
  BY <1>1, FinishStep, Zenon DEF CommitSafe, CommitRefused, CommitEnds, FailIgnored,
                                 Answers
<1>2. ASSUME RpcLost(c) PROVE IndInv'
  BY <1>2, RetryStep, Zenon DEF RpcLost, RetryRpc, CommitEnds, Answers
<1> QED BY <1>1, <1>2, RunToolStep, CommitStep, FailStep, Zenon DEF Report

\* Every step preserves IndInv.
LEMMA NextIndInv == IndInv /\ [Next]_vars => IndInv'
<1> SUFFICES ASSUME IndInv, [Next]_vars PROVE IndInv'
  OBVIOUS
<1>1. ASSUME NEW c \in Calls, Start(c) \/ Intercept(c) \/ Report(c)
      PROVE  IndInv'
  BY <1>1, StartStep, InterceptStep, ReportStep, Zenon
<1>2. ASSUME NEW c \in Calls, Decision(c) PROVE IndInv'
  BY <1>2, ApproveStep, RejectStep, DecisionRefusedStep, Zenon DEF Decision
<1>3. ASSUME NEW c \in Calls, Abort(c) PROVE IndInv'
  BY <1>3, FinishStep, Zenon DEF Abort, Answers
<1>4. ASSUME NEW w \in Sweepers, Sweep(w) PROVE IndInv'
  BY <1>4, SelectDueStep, ApplyDueStep, SweepAbortStep, Zenon DEF Sweep
<1>5. ASSUME UNCHANGED vars PROVE IndInv'
  <2>1. StoreTypeOK' /\ EngineTypeOK' /\ DueExist'
    BY <1>5, Zenon DEF IndInv, vars, storeVars, dbVars, clockVars, effectVars,
                       approvalVars, callVars, StoreTypeOK, EngineTypeOK, DueExist
  <2> QED BY <1>5, <2>1, FrameStep, Zenon DEF vars, storeVars, dbVars, effectVars,
                                              approvalVars, callVars
<1> QED BY <1>1, <1>2, <1>3, <1>4, <1>5, ClockStep, Zenon DEF Next

(* IndInv holds in every state the engine, the proxy, the humans, the timeout
   processors and the clock can reach. *)
THEOREM Invariance == Spec => []IndInv
BY InitIndInv, NextIndInv, PTL DEF Spec

(* No interleaving of requests, replays, retries, approvals, timeouts and
   crashes runs the tool behind an effect row twice: what intercept's insert
   and set_executing and approve's guards are for. *)
THEOREM ExactlyOnce == Spec => []AtMostOneRun
<1>1. IndInv => AtMostOneRun
  BY Zenon DEF IndInv
<1> QED BY <1>1, Invariance, PTL

(* A compensable tool is run only with its undo entry on the stack: the order
   of push_undo_entry and set_executing in intercept. *)
THEOREM UndoFirst == Spec => []UndoRegisteredFirst
<1>1. IndInv => UndoRegisteredFirst
  BY Zenon DEF IndInv
<1> QED BY <1>1, Invariance, PTL

(* An irreversible tool is run after exactly one approval and no rejection,
   whatever the timeout processors write meanwhile: approve and reject. *)
THEOREM Gated == Spec => []HumanGate
<1>1. IndInv => HumanGate
  BY Zenon DEF IndInv
<1> QED BY <1>1, Invariance, PTL

(* approve and reject decide a request once and a rejection halts its session
   for good: the guards of resolve, set_active and set_awaiting_approval. *)
THEOREM Decisions == Spec => [](OneHumanDecision /\ RejectionHalts)
<1>1. IndInv => OneHumanDecision /\ RejectionHalts
  BY Zenon DEF IndInv
<1> QED BY <1>1, Invariance, PTL

(* What commit_effect and fail_effect store, and what a replay answers with,
   comes from a run, and the run had the arguments the row records. *)
THEOREM Faithful == Spec => [](ResultIsGenuine /\ ArgsAudited)
<1>1. IndInv => ResultIsGenuine /\ ArgsAudited
  BY Zenon DEF IndInv
<1> QED BY <1>1, Invariance, PTL

-----------------------------------------------------------------------------
(* Who writes what                                                         *)

\* The states the engine's statements write.
EngineStates == {"pending", "executing", "committed", "replayed", "approved", "rejected"}

\* Of all steps only a few write the state, the result or the undo entry of an
\* effect, or an approval request and the counter of the pending ones.
LEMMA Writers ==
    ASSUME [Next]_vars
    PROVE  /\ \/ UNCHANGED state
              \/ \E e, v : v \in EngineStates /\ state' = [state EXCEPT ![e] = v]
           /\ UNCHANGED result_snapshot \/ \E c \in Calls : Commit(c) \/ Fail(c)
           /\ UNCHANGED undo \/ \E c \in Calls : Push(c)
           /\ \/ UNCHANGED <<approval, approvals_pending>>
              \/ \E c \in Calls :
                    \/ RequestApproval(c)
                    \/ \E e \in Effects :
                          (\E args \in Args : Approve(c, e, args)) \/ Reject(c, e)
              \/ \E w \in Sweepers : ApplyDue(w)
<1>1. ASSUME Silent
      PROVE  UNCHANGED <<state, result_snapshot, undo, approval, approvals_pending>>
  BY <1>1, Zenon DEF Silent, storeVars, dbVars, effectVars, approvalVars
<1>2. ASSUME NEW c \in Calls, EnsureSession(c) \/ Park(c)
      PROVE  UNCHANGED <<state, result_snapshot, undo, approval, approvals_pending>>
  BY <1>2, Zenon DEF EnsureSession, CreateSession, Park, SetAwaitingApproval, effectVars,
                     approvalVars
<1>3. ASSUME NEW c \in Calls, Replay(c) \/ Insert(c) \/ Begin(c)
      PROVE  /\ \E e, v : v \in EngineStates /\ state' = [state EXCEPT ![e] = v]
             /\ UNCHANGED <<result_snapshot, undo, approval, approvals_pending>>
  BY <1>3, Zenon DEF Replay, MarkReplayed, Insert, InsertEffect, Begin, SetExecuting,
                     approvalVars, EngineStates
<1>4. ASSUME NEW c \in Calls, Push(c)
      PROVE  UNCHANGED <<state, result_snapshot, approval, approvals_pending>>
  BY <1>4, Zenon DEF Push, PushUndoEntry, effectVars, approvalVars
<1>5. ASSUME NEW c \in Calls, RequestApproval(c)
      PROVE  UNCHANGED <<state, result_snapshot, undo>>
  BY <1>5, Zenon DEF RequestApproval, CreateApproval, effectVars
<1>6. ASSUME NEW c \in Calls, Commit(c) \/ Fail(c)
      PROVE  /\ \E e, v : v \in EngineStates /\ state' = [state EXCEPT ![e] = v]
             /\ UNCHANGED <<undo, approval, approvals_pending>>
  BY <1>6, Zenon DEF Commit, CommitEffect, Fail, FailEffect, approvalVars, EngineStates
<1>7. ASSUME NEW c \in Calls, NEW e \in Effects,
             (\E args \in Args : Approve(c, e, args)) \/ Reject(c, e)
      PROVE  /\ \E f, v : v \in EngineStates /\ state' = [state EXCEPT ![f] = v]
             /\ UNCHANGED <<result_snapshot, undo>>
  BY <1>7, Zenon DEF Approve, ApproveTx, Reject, RejectTx, EngineStates
<1>8. ASSUME NEW w \in Sweepers, ApplyDue(w)
      PROVE  UNCHANGED <<state, result_snapshot, undo>>
  BY <1>8, Zenon DEF ApplyDue, TimeOutApprovals, effectVars
<1>9. ASSUME NEW c \in Calls, Intercept(c)
      PROVE  \/ UNCHANGED <<state, result_snapshot, undo, approval, approvals_pending>>
             \/ Replay(c) \/ Insert(c) \/ Begin(c) \/ Push(c) \/ RequestApproval(c)
  BY <1>1, <1>2, <1>9, Zenon DEF Intercept, AcquireLock, LockBusy, FindExisting,
     FindUnreadable, RouteSafe, RouteLogged, InsertConflict, PushConflict, BeginRefused
<1>10. ASSUME NEW c \in Calls, Start(c) \/ Report(c) \/ Abort(c)
       PROVE  \/ UNCHANGED <<state, result_snapshot, undo, approval, approvals_pending>>
              \/ Commit(c) \/ Fail(c)
  BY <1>1, <1>10, Zenon DEF Start, Abort, Report, RunTool, CommitSafe, CommitRefused,
     FailIgnored, RpcLost, storeVars, dbVars, effectVars, approvalVars
<1>11. ASSUME NEW c \in Calls, Decision(c)
       PROVE  \/ UNCHANGED <<state, result_snapshot, undo, approval, approvals_pending>>
              \/ \E e \in Effects :
                    (\E args \in Args : Approve(c, e, args)) \/ Reject(c, e)
  BY <1>1, <1>11, Zenon DEF Decision, DecisionRefused
<1>12. ASSUME NEW w \in Sweepers, Sweep(w)
       PROVE  \/ UNCHANGED <<state, result_snapshot, undo, approval, approvals_pending>>
              \/ ApplyDue(w)
  BY <1>12, Zenon DEF Sweep, SelectDue, SweepAbort, storeVars, dbVars, effectVars,
                      approvalVars
<1>13. ASSUME Clock \/ UNCHANGED vars
       PROVE  UNCHANGED <<state, result_snapshot, undo, approval, approvals_pending>>
  BY <1>13, Zenon DEF Clock, NextMonth, Expire, vars, storeVars, dbVars, effectVars,
                      approvalVars
<1> QED BY <1>3, <1>4, <1>5, <1>6, <1>7, <1>8, <1>9, <1>10, <1>11, <1>12, <1>13, Zenon
        DEF Next

\* A row stays, and its state is one the engine writes.
LEMMA RowsStay ==
    ASSUME IndInv, [Next]_vars, NEW e \in Effects
    PROVE  state'[e] = state[e] \/ state'[e] \in EngineStates
BY Writers, Zenon DEF IndInv, StoreTypeOK

\* The engine never gives a compensation up.
LEMMA NoneGivenUpStep == IndInv /\ NoneGivenUp /\ [Next]_vars => NoneGivenUp'
BY RowsStay, Zenon DEF NoneGivenUp, EngineStates

(* A committed result is never lost and its row never goes back into flight:
   commit_effect and fail_effect refuse a row that is not in flight, and no
   other statement writes result_snapshot. *)
THEOREM Sticks == Spec => CommitSticks
<1>1. ASSUME IndInv, IndInv', NoneGivenUp', [Next]_vars,
             NEW e \in Effects, result_snapshot[e] = "ok"
      PROVE  result_snapshot'[e] = "ok" /\ state'[e] \in {"committed", "replayed"}
  <2>1. ASSUME NEW c \in Calls, Commit(c) \/ Fail(c) PROVE result_snapshot'[e] = "ok"
    <3>1. eff[c] \in Effects
      BY <2>1, <1>1, Zenon DEF Commit, Fail, IndInv, EngineTypeOK
    <3>2. state[eff[c]] \in {"executing", "approved"}
      BY <2>1, Zenon DEF Commit, Fail, CommitEffect, FailEffect, InFlight
    <3>3. e # eff[c]
      BY <1>1, <3>2, Zenon DEF IndInv, CommittedAtRest
    <3>4. \E r : result_snapshot' = [result_snapshot EXCEPT ![eff[c]] = r]
      BY <2>1, Zenon DEF Commit, Fail, CommitEffect, FailEffect
    <3>5. result_snapshot'[e] = result_snapshot[e]
      BY <3>1, <3>3, <3>4, <1>1, Zenon DEF IndInv, StoreTypeOK
    <3> QED BY <1>1, <3>5, Zenon
  <2>2. result_snapshot'[e] = "ok"
    BY <1>1, <2>1, Writers, Zenon
  <2> QED BY <1>1, <2>2, Zenon DEF IndInv, CommittedAtRest, NoneGivenUp
<1>2. ASSUME IndInv, IndInv', NoneGivenUp', [Next]_vars
      PROVE  [\A e \in Effects :
                result_snapshot[e] = "ok" =>
                    result_snapshot'[e] = "ok" /\ state'[e] \in {"committed", "replayed"}]_vars
  <2>1. \A e \in Effects :
            result_snapshot[e] = "ok" =>
                result_snapshot'[e] = "ok" /\ state'[e] \in {"committed", "replayed"}
    BY <1>1, <1>2
  <2> QED BY ONLY <2>1, Zenon
<1>3. Init => NoneGivenUp
  BY DEF Init, StoreInit, NoneGivenUp
<1> QED BY <1>2, <1>3, NoneGivenUpStep, Invariance, PTL DEF Spec, CommitSticks

-----------------------------------------------------------------------------
(* The undo stack across months                                            *)

\* push_undo_entry writes the entry of a row that exists, in a free position.
LEMMA EntryShapeStep ==
    ASSUME IndInv, EntryShape, [Next]_vars
    PROVE  EntryShape'
<1>1. \A e \in Effects : state[e] # "none" => state'[e] # "none"
  BY RowsStay, Zenon DEF EngineStates
<1>2. CASE UNCHANGED undo
  BY <1>1, <1>2, Zenon DEF EntryShape
<1>3. ASSUME NEW c \in Calls, Push(c) PROVE EntryShape'
  <2>1. /\ eff[c] \in Effects /\ pc[c] = "push"
        /\ \A f \in Effects : f # eff[c] => undo'[f] = undo[f]
    BY <1>3, PushDoes, Zenon DEF Pushed
  <2>2. state[eff[c]] # "none"
    BY <2>1, Zenon DEF IndInv, NoRowNoTrace
  <2>3. ~PositionTaken(eff[c])
    BY <1>3, Zenon DEF Push, PushUndoEntry
  <2>4. \A e \in Effects : undo'[e] # "none" => state'[e] # "none"
    BY <1>1, <2>1, <2>2, Zenon DEF EntryShape
  <2>5. ASSUME NEW e \in Effects, NEW f \in Effects, undo'[e] # "none", undo'[f] # "none",
               SessionOfEffect(e) = SessionOfEffect(f), StepOf[e[1]] = StepOf[f[1]]
        PROVE  e = f
    BY <2>1, <2>3, <2>5, Zenon DEF EntryShape, PositionTaken
  <2> QED BY <2>4, <2>5, Zenon DEF EntryShape
<1> QED BY <1>2, <1>3, Writers, Zenon

\* No entry at the start.
LEMMA EntryShapeInit == Init => EntryShape
BY Zenon DEF Init, StoreInit, EntryShape

\* Calls with one signature would have to share a position.
LEMMA OnceByPosition ==
    ASSUME IndInv, EntryShape
    PROVE  CompensableOnce
<1> SUFFICES ASSUME NEW e \in Effects, NEW f \in Effects,
                    TierOfEffect(e) = "compensable", e[1] = f[1], Released(e), Released(f)
             PROVE  e = f
  BY Zenon DEF CompensableOnce
<1>1. undo[e] # "none" /\ undo[f] # "none"
  BY Zenon DEF IndInv, UndoRegisteredFirst, TierOfEffect
<1> QED BY <1>1, Zenon DEF EntryShape, SessionOfEffect

(* A compensable call is run once, also when its rows are in the partitions of
   two months: UNIQUE (session_id, stack_position) of push_undo_entry, and
   UndoRegisteredFirst. *)
THEOREM OncePerCall == Spec => []CompensableOnce
<1>1. IndInv /\ EntryShape => CompensableOnce
  BY OnceByPosition
<1>2. IndInv /\ EntryShape /\ [Next]_vars => EntryShape'
  BY EntryShapeStep
<1> QED BY <1>1, <1>2, EntryShapeInit, Invariance, PTL DEF Spec

-----------------------------------------------------------------------------
(* The counter of pending approvals                                        *)

\* The pending requests of a session.
Waiting(s) == {e \in Effects : SessionOfEffect(e) = s /\ approval[e] = "pending"}

Counted == CounterTypeOK /\ PendingCounterExact

\* There are finitely many rows, so the counts are numbers.
LEMMA FiniteRows == IsFiniteSet(Effects) /\ \A T \in SUBSET Effects : IsFiniteSet(T)
<1>1. IsFiniteSet(Months)
  BY ConfigAssumption, FS_Interval DEF Months
<1>2. IsFiniteSet(Effects)
  BY <1>1, SigAssumption, FS_Product DEF Effects
<1> QED BY <1>2, FS_Subset

\* Requests that leave 'pending' are taken off their sessions' counters, and
\* those that had left before are not: GREATEST(0, ..) never cuts anything off.
LEMMA LeavingStep ==
    ASSUME Counted, NEW R \in SUBSET Effects,
           approvals_pending' = AfterLeavingPending(R),
           \A e \in R : approval'[e] # "pending",
           \A e \in Effects \ R : approval'[e] = approval[e]
    PROVE  Counted'
<1>1. ASSUME NEW s \in Sessions
      PROVE  approvals_pending'[s] = Cardinality(Waiting(s)') /\ approvals_pending'[s] \in Nat
  <2> DEFINE Left == {e \in R : SessionOfEffect(e) = s /\ approval[e] = "pending"}
  <2>1. Waiting(s)' = Waiting(s) \ Left /\ Left = Waiting(s) \cap Left
    <3>1. \A e \in Effects : e \in Waiting(s)' <=> e \in Waiting(s) /\ e \notin Left
      BY Zenon DEF Waiting
    <3>2. Waiting(s)' \subseteq Effects /\ Waiting(s) \subseteq Effects /\ Left \subseteq Waiting(s)
      BY Zenon DEF Waiting
    <3> HIDE DEF Left
    <3> QED BY <3>1, <3>2, Zenon
  <2>2. IsFiniteSet(Waiting(s)) /\ IsFiniteSet(Left)
    BY FiniteRows, Zenon DEF Waiting
  <2>3. /\ IsFiniteSet(Waiting(s)')
        /\ Cardinality(Waiting(s)') = Cardinality(Waiting(s)) - Cardinality(Left)
    <3> HIDE DEF Left
    <3>1. /\ IsFiniteSet(Waiting(s) \ Left)
          /\ Cardinality(Waiting(s) \ Left) = Cardinality(Waiting(s)) - Cardinality(Waiting(s) \cap Left)
      BY <2>2, FS_Difference, Zenon
    <3>2. Waiting(s) \cap Left = Left
      BY <2>1, Zenon
    <3> QED BY <2>1, <3>1, <3>2, Zenon
  <2>6. /\ Cardinality(Waiting(s)) \in Nat /\ Cardinality(Left) \in Nat
        /\ Cardinality(Waiting(s)') \in Nat
    BY <2>2, <2>3, FS_CardinalityType, Zenon
  <2>4. approvals_pending[s] = Cardinality(Waiting(s))
    BY Zenon DEF Counted, PendingCounterExact, Waiting
  <2>5. approvals_pending'[s] = IF approvals_pending[s] > Cardinality(Left)
                                THEN approvals_pending[s] - Cardinality(Left) ELSE 0
    BY Zenon DEF AfterLeavingPending
  <2> HIDE DEF Left
  <2> QED BY <2>3, <2>4, <2>5, <2>6
<1>2. CounterTypeOK'
  BY <1>1, Zenon DEF AfterLeavingPending, CounterTypeOK
<1>3. PendingCounterExact'
  BY <1>1, Zenon DEF PendingCounterExact, Waiting
<1> QED BY <1>2, <1>3, Zenon DEF Counted

\* create_approval adds one request that was not there.
LEMMA CreatingStep ==
    ASSUME Counted, NEW e \in Effects, approval[e] = "none", approval \in [Effects -> ApprovalStates \cup {"none"}], CreateApproval(e)
    PROVE  Counted'
<1>1. /\ approval'[e] = "pending" /\ \A f \in Effects : f # e => approval'[f] = approval[f]
  BY Zenon DEF CreateApproval
<1>2. SessionOfEffect(e) \in Sessions
  BY EffectSession, Zenon
<1>3. ASSUME NEW s \in Sessions
      PROVE  approvals_pending'[s] = Cardinality(Waiting(s)') /\ approvals_pending'[s] \in Nat
  <2>1. /\ IsFiniteSet(Waiting(s)) /\ Cardinality(Waiting(s)) \in Nat
        /\ approvals_pending[s] = Cardinality(Waiting(s)) /\ e \notin Waiting(s)
    BY FiniteRows, FS_CardinalityType, Zenon DEF Waiting, Counted, PendingCounterExact
  <2>2. CASE s = SessionOfEffect(e)
    <3>1. Waiting(s)' = Waiting(s) \cup {e}
      BY <1>1, <2>2, Zenon DEF Waiting
    <3>2. Cardinality(Waiting(s)') = Cardinality(Waiting(s)) + 1
      BY <2>1, <3>1, FS_AddElement, Zenon
    <3>3. approvals_pending'[s] = approvals_pending[s] + 1
      BY <1>2, <2>2, Zenon DEF CreateApproval, Counted, CounterTypeOK
    <3> QED BY <2>1, <3>2, <3>3
  <2>3. CASE s # SessionOfEffect(e)
    <3>1. Waiting(s)' = Waiting(s)
      BY <1>1, <2>3, Zenon DEF Waiting
    <3>2. approvals_pending'[s] = approvals_pending[s]
      BY <1>2, <2>3, Zenon DEF CreateApproval, Counted, CounterTypeOK
    <3> QED BY <2>1, <3>1, <3>2, Zenon
  <2> QED BY <2>2, <2>3, Zenon
<1>4. CounterTypeOK'
  BY <1>3, Zenon DEF CreateApproval, Counted, CounterTypeOK
<1>5. PendingCounterExact'
  BY <1>3, Zenon DEF PendingCounterExact, Waiting
<1> QED BY <1>4, <1>5, Zenon DEF Counted

\* Every step keeps the counters exact.
LEMMA CountedStep ==
    ASSUME IndInv, Counted, [Next]_vars
    PROVE  Counted'
<1>0. approval \in [Effects -> ApprovalStates \cup {"none"}]
  BY Zenon DEF IndInv, StoreTypeOK
<1>1. CASE UNCHANGED <<approval, approvals_pending>>
  BY <1>1, Zenon DEF Counted, CounterTypeOK, PendingCounterExact
<1>2. ASSUME NEW c \in Calls, RequestApproval(c) PROVE Counted'
  <2>1. eff[c] \in Effects /\ approval[eff[c]] = "none"
    BY <1>2, Zenon DEF RequestApproval, IndInv, RequestShape, ApprovalShape
  <2> QED BY <1>0, <1>2, <2>1, CreatingStep, Zenon DEF RequestApproval
<1>3. ASSUME NEW e \in Effects, NEW action, NEW final, final # "pending",
             Resolve(e, action, final)
      PROVE  Counted'
  <2>1. approval'[e] # "pending" /\ \A f \in Effects \ {e} : approval'[f] = approval[f]
    BY <1>0, <1>3, Zenon DEF Resolve
  <2> QED BY <1>3, <2>1, LeavingStep, Zenon DEF Resolve
<1>4. ASSUME NEW c \in Calls, NEW e \in Effects,
             (\E args \in Args : Approve(c, e, args)) \/ Reject(c, e)
      PROVE  Counted'
  BY <1>3, <1>4, Zenon DEF Approve, ApproveTx, Reject, RejectTx
<1>5. ASSUME NEW w \in Sweepers, ApplyDue(w) PROVE Counted'
  <2>1. due[w] \in SUBSET Effects
    BY Zenon DEF IndInv, EngineTypeOK
  <2>2. /\ \A e \in due[w] : approval'[e] # "pending"
        /\ \A e \in Effects \ due[w] : approval'[e] = approval[e]
    BY <1>5, <2>1, Zenon DEF ApplyDue, TimeOutApprovals
  <2> QED BY <1>5, <2>1, <2>2, LeavingStep, Zenon DEF ApplyDue, TimeOutApprovals
<1> QED BY <1>1, <1>2, <1>4, <1>5, Writers, Zenon

\* No request and no count at the start.
LEMMA CountedInit == Init => Counted
<1> SUFFICES ASSUME Init PROVE Counted
  OBVIOUS
<1>1. approvals_pending = [s \in Sessions |-> 0] /\ \A e \in Effects : approval[e] = "none"
  BY Zenon DEF Init, StoreInit
<1>2. \A s \in Sessions : Waiting(s) = {}
  BY <1>1, Zenon DEF Waiting
<1>3. PendingCounterExact
  BY <1>1, <1>2, FS_EmptySet, Zenon DEF PendingCounterExact, Waiting
<1> QED BY <1>1, <1>3 DEF Counted, CounterTypeOK

(* The column the approval trigger maintains is the number of pending requests,
   though process_timeouts overwrites requests that were decided after its
   SELECT: the trigger looks at OLD.state. *)
THEOREM CounterExact == Spec => [](CounterTypeOK /\ PendingCounterExact)
<1>1. IndInv /\ Counted /\ [Next]_vars => Counted'
  BY CountedStep
<1>2. Counted => CounterTypeOK /\ PendingCounterExact
  BY Zenon DEF Counted
<1> QED BY <1>1, <1>2, CountedInit, Invariance, PTL DEF Spec
=============================================================================
