------------------------- MODULE EngineRequestProofs -------------------------
(***************************************************************************)
(* The steps of a request preserve IndInv.                                 *)
(*                                                                         *)
(* Steps that neither open a row nor release a tool rest on one lemma,     *)
(* QuietStep.  Each of insert, push_undo_entry, set_executing, the run of  *)
(* the tool, commit_effect and fail_effect has a definition of what it     *)
(* does, argument by argument, a lemma that it does so and keeps the       *)
(* types, and a lemma on the other parts of IndInv.                        *)
(***************************************************************************)
EXTENDS EffectEngineInv, TLAPS

\* The request is where it was; or it is not about to open a row, and has no row,
\* or is answered, or refers to a row that exists and is not about to run a tool.
Quiet(d) ==
    \/ pc'[d] = pc[d] /\ eff'[d] = eff[d] /\ sent'[d] = sent[d]
    \/ /\ pc'[d] \notin {"push", "begin", "request"}
       /\ \/ eff'[d] = None
          \/ pc'[d] = "idle"
          \/ pc'[d] \notin ProxyPC /\ eff'[d] \in Effects /\ state[eff'[d]] # "none"

\* A step keeps IndInv when all requests are quiet and it deletes nothing, if it
\* keeps the types, the shape of requests, halted sessions and stored results.
LEMMA QuietStep ==
    ASSUME IndInv, StoreTypeOK', EngineTypeOK', RequestShape', DueExist',
           RejectionHalts', CommittedAtRest', ResultIsGenuine',
           UNCHANGED <<args_snapshot, approval, audit, runs>>,
           \A e \in Effects : /\ state'[e] = "none" <=> state[e] = "none"
                              /\ undo[e] # "none" => undo'[e] # "none",
           \A d \in Calls : Quiet(d)
    PROVE  IndInv'
<1>0. /\ RequestShape /\ NoRowNoTrace /\ OneOpener /\ UndoBeforeBegin /\ ApprovalShape
      /\ GateShut /\ ReportedAfterRun /\ AtMostOneRun /\ UndoRegisteredFirst
      /\ HumanGate /\ OneHumanDecision /\ ArgsAudited
  BY Zenon DEF IndInv
<1>1. \A e \in Effects : e # None
  BY RetryAssumption, Zenon
<1>2. \A d \in Calls, e \in Effects : /\ Holds(d, e)' => Holds(d, e)
                                      /\ Opening(d, e)' => Opening(d, e)
  BY <1>1, Zenon DEF Holds, Opening, Quiet, ProxyPC
<1>3. \A e \in Effects : Released(e)' => Released(e)
  BY <1>2, Zenon DEF Released
<1>4. OneOpener'
  BY <1>0, <1>2, <1>3, Zenon DEF OneOpener
<1>5. AtMostOneRun'
  BY <1>0, <1>2, Zenon DEF AtMostOneRun
<1>6. NoRowNoTrace'
  <2>1. \A d \in Calls, e \in Effects :
           pc'[d] # "idle" /\ eff'[d] = e /\ state[e] = "none" => pc[d] # "idle" /\ eff[d] = e
    BY <1>1, Zenon DEF Quiet
  <2> QED BY <1>0, <1>3, <2>1, Zenon DEF NoRowNoTrace
<1>7. UndoRegisteredFirst' /\ HumanGate' /\ OneHumanDecision'
  BY <1>0, <1>3, Zenon DEF UndoRegisteredFirst, HumanGate, OneHumanDecision
<1>8. UndoBeforeBegin'
  BY <1>0 DEF UndoBeforeBegin, Quiet, RequestShape
<1>9. ApprovalShape'
  BY <1>0, Zenon DEF ApprovalShape, Quiet
<1>10. GateShut'
  <2>1. \A d \in Calls, e \in Effects :
           pc'[d] \in ProxyPC /\ eff'[d] = e => pc[d] \in ProxyPC /\ eff[d] = e
    BY <1>1, Zenon DEF Quiet, ProxyPC
  <2> QED BY <1>0, <2>1, Zenon DEF GateShut, Undecided
<1>11. ReportedAfterRun' /\ ArgsAudited'
  BY <1>0, Zenon DEF ReportedAfterRun, ArgsAudited, ProxyPC, Quiet
<1> QED BY <1>4, <1>5, <1>6, <1>7, <1>8, <1>9, <1>10, <1>11, Zenon DEF IndInv

\* The same for a step of one request that writes no result.
LEMMA QuietRequestStep ==
    ASSUME IndInv, NEW c \in Calls,
           StoreTypeOK', EngineTypeOK', RequestShape', RejectionHalts', CommittedAtRest',
           UNCHANGED <<result_snapshot, args_snapshot, undo, approval, audit, due, runs>>,
           \A e \in Effects : state'[e] = "none" <=> state[e] = "none",
           \A d \in Calls \ {c} : /\ pc'[d] = pc[d] /\ eff'[d] = eff[d]
                                  /\ sent'[d] = sent[d] /\ reply'[d] = reply[d],
           Quiet(c),
           reply'[c] = "ok" => eff'[c] # None /\ result_snapshot[eff'[c]] = "ok"
    PROVE  IndInv'
<1>1. \A d \in Calls : Quiet(d)
  BY Zenon DEF Quiet
<1>2. DueExist'
  BY Zenon DEF IndInv, DueExist
<1>3. ResultIsGenuine'
  <2>1. ResultIsGenuine
    BY Zenon DEF IndInv
  <2> QED BY <2>1, Zenon DEF ResultIsGenuine
<1> QED BY <1>1, <1>2, <1>3, QuietStep, Zenon

\* The same for a step that does not touch the database at all.
LEMMA SilentStep ==
    ASSUME IndInv, NEW c \in Calls, Silent, EngineTypeOK', RequestShape',
           \A d \in Calls \ {c} : /\ pc'[d] = pc[d] /\ eff'[d] = eff[d]
                                  /\ sent'[d] = sent[d] /\ reply'[d] = reply[d],
           Quiet(c),
           reply'[c] = "ok" => eff'[c] # None /\ result_snapshot[eff'[c]] = "ok"
    PROVE  IndInv'
<1>1. UNCHANGED <<month, session, state, result_snapshot, args_snapshot, undo, approval,
                  expired, audit, due, runs>>
  BY Zenon DEF Silent, storeVars, dbVars, clockVars, effectVars, approvalVars
<1>2. StoreTypeOK' /\ RejectionHalts' /\ CommittedAtRest'
  BY <1>1, Zenon DEF IndInv, StoreTypeOK, RejectionHalts, CommittedAtRest
<1> QED BY <1>1, <1>2, QuietRequestStep, Zenon

\* Requests that stay where they are, or are answered, keep their shape.
LEMMA ShapeKept ==
    ASSUME RequestShape,
           \A d \in Calls : \/ /\ pc'[d] = pc[d] /\ eff'[d] = eff[d]
                               /\ sig'[d] = sig[d] /\ sent'[d] = sent[d]
                            \/ pc'[d] = "idle" /\ sent'[d] = "proposed"
    PROVE  RequestShape'
BY DEF RequestShape, InterceptPC, ProxyPC

\* The request is answered and nothing is written.
LEMMA FinishStep ==
    ASSUME IndInv, NEW c \in Calls, NEW how \in Answers, Finish(c, how), Silent
    PROVE  IndInv'
<1>1. EngineTypeOK'
  BY Zenon DEF IndInv, Finish, Silent, EngineTypeOK, PCs, Args
<1>2. /\ pc'[c] = "idle" /\ sig'[c] = None /\ sent'[c] = "proposed"
      /\ \A d \in Calls \ {c} : pc'[d] = pc[d] /\ sig'[d] = sig[d] /\ sent'[d] = sent[d]
      /\ UNCHANGED <<eff, reply, result_snapshot>>
  BY Zenon DEF IndInv, Finish, EngineTypeOK, Silent, storeVars, dbVars, effectVars
<1>3. RequestShape'
  BY <1>2, ShapeKept, Zenon DEF IndInv
<1>4. Quiet(c)
  BY <1>2, Zenon DEF Quiet
<1> QED BY <1>1, <1>2, <1>3, <1>4, SilentStep, Zenon DEF IndInv, ResultIsGenuine

\* A tool call reaches the engine.
LEMMA StartStep ==
    ASSUME IndInv, NEW c \in Calls, Start(c)
    PROVE  IndInv'
<1>1. PICK s \in Sigs :
        /\ sig' = [sig EXCEPT ![c] = s]
        /\ pc' = [pc EXCEPT ![c] = "session"]
        /\ eff' = [eff EXCEPT ![c] = None]
        /\ reply' = [reply EXCEPT ![c] = "null"]
        /\ answer' = [answer EXCEPT ![c] = "none"]
        /\ UNCHANGED <<sent, tries, due, runs>>
        /\ Silent /\ pc[c] = "idle"
  BY Zenon DEF Start, Silent
<1>2. EngineTypeOK'
  BY <1>1, Zenon DEF IndInv, EngineTypeOK, PCs, InterceptPC, Results, Answers
<1>3. /\ pc'[c] = "session" /\ sig'[c] = s /\ eff'[c] = None /\ reply'[c] = "null"
      /\ \A d \in Calls \ {c} : /\ pc'[d] = pc[d] /\ sig'[d] = sig[d]
                               /\ eff'[d] = eff[d] /\ reply'[d] = reply[d]
  BY <1>1, Zenon DEF IndInv, EngineTypeOK
<1>4. RequestShape'
  BY <1>1, <1>3 DEF IndInv, RequestShape, InterceptPC, ProxyPC
<1> QED BY <1>1, <1>2, <1>3, <1>4, SilentStep, Zenon DEF Quiet

\* The lock statement succeeds.
LEMMA AcquireLockStep ==
    ASSUME IndInv, NEW c \in Calls, AcquireLock(c)
    PROVE  IndInv'
<1>1. EngineTypeOK'
  BY Zenon DEF IndInv, AcquireLock, Silent, EngineTypeOK, PCs, InterceptPC
<1>2. /\ pc'[c] = "lookup"
      /\ \A d \in Calls \ {c} : pc'[d] = pc[d]
      /\ UNCHANGED <<sig, eff, sent, reply, result_snapshot>>
      /\ Silent /\ pc[c] = "lock"
  BY Zenon DEF IndInv, AcquireLock, EngineTypeOK, Silent, storeVars, dbVars, effectVars
<1>3. RequestShape'
  BY <1>2, Zenon DEF IndInv, RequestShape, InterceptPC, ProxyPC
<1>4. eff[c] = None
  BY <1>2, Zenon DEF IndInv, RequestShape
<1> QED BY <1>1, <1>2, <1>3, <1>4, SilentStep, Zenon
        DEF IndInv, ResultIsGenuine, Quiet

\* The lookup finds a row: its result becomes the reply.
LEMMA FindExistingStep ==
    ASSUME IndInv, NEW c \in Calls, FindExisting(c)
    PROVE  IndInv'
<1>1. PICK e \in Effects :
        /\ state[e] # "none" /\ result_snapshot[e] # "error"
        /\ eff' = [eff EXCEPT ![c] = e]
        /\ reply' = [reply EXCEPT ![c] = result_snapshot[e]]
        /\ pc' = [pc EXCEPT ![c] = "replay"]
        /\ UNCHANGED <<sig, sent, tries, answer, due, runs>>
        /\ Silent /\ pc[c] = "lookup"
  BY Zenon DEF FindExisting, RowsOf, RowExists, Unreadable, Silent
<1>2. EngineTypeOK'
  BY <1>1, Zenon DEF IndInv, EngineTypeOK, StoreTypeOK, PCs, InterceptPC
<1>3. /\ pc'[c] = "replay" /\ eff'[c] = e /\ reply'[c] = result_snapshot[e]
      /\ \A d \in Calls \ {c} : pc'[d] = pc[d] /\ eff'[d] = eff[d] /\ reply'[d] = reply[d]
  BY <1>1, Zenon DEF IndInv, EngineTypeOK
<1>4. RequestShape'
  BY <1>1, <1>3 DEF IndInv, RequestShape, InterceptPC, ProxyPC
<1>5. Quiet(c)
  BY <1>1, <1>3, Zenon DEF Quiet, ProxyPC
<1>6. \A d \in Calls \ {c} : sent'[d] = sent[d]
  BY <1>1, Zenon
<1>7. eff'[c] # None /\ reply'[c] = result_snapshot[eff'[c]]
  BY <1>3, RetryAssumption, Zenon
<1> QED BY <1>1, <1>2, <1>3, <1>4, <1>5, <1>6, <1>7, SilentStep, Zenon

\* The lookup finds no row of a logged call.
LEMMA RouteLoggedStep ==
    ASSUME IndInv, NEW c \in Calls, RouteLogged(c)
    PROVE  IndInv'
<1>1. EngineTypeOK'
  BY Zenon DEF IndInv, RouteLogged, Go, Silent, EngineTypeOK, PCs, InterceptPC
<1>2. /\ pc'[c] = "insert"
      /\ \A d \in Calls \ {c} : pc'[d] = pc[d]
      /\ UNCHANGED <<sig, eff, sent, reply, result_snapshot>>
      /\ Silent /\ pc[c] = "lookup" /\ TierOf[sig[c]] # "safe"
  BY Zenon DEF IndInv, RouteLogged, Go, EngineTypeOK, Silent, storeVars, dbVars,
               effectVars
<1>3. RequestShape'
  BY <1>2, Zenon DEF IndInv, RequestShape, InterceptPC, ProxyPC
<1>4. eff[c] = None
  BY <1>2, Zenon DEF IndInv, RequestShape
<1> QED BY <1>1, <1>2, <1>3, <1>4, SilentStep, Zenon
        DEF IndInv, ResultIsGenuine, Quiet

\* A SAFE call goes straight to the proxy, without a row.
LEMMA RouteSafeStep ==
    ASSUME IndInv, NEW c \in Calls, RouteSafe(c)
    PROVE  IndInv'
<1>1. EngineTypeOK'
  BY Zenon DEF IndInv, RouteSafe, Go, Silent, EngineTypeOK, PCs, ProxyPC
<1>2. /\ pc'[c] = "exec"
      /\ \A d \in Calls \ {c} : pc'[d] = pc[d]
      /\ UNCHANGED <<sig, eff, sent, reply, result_snapshot>>
      /\ Silent /\ pc[c] = "lookup"
  BY Zenon DEF IndInv, RouteSafe, Go, EngineTypeOK, Silent, storeVars, dbVars, effectVars
<1>3. RequestShape'
  BY <1>2, Zenon DEF IndInv, RequestShape, InterceptPC, ProxyPC
<1>4. eff[c] = None
  BY <1>2, Zenon DEF IndInv, RequestShape
<1> QED BY <1>1, <1>2, <1>3, <1>4, SilentStep, Zenon
        DEF IndInv, ResultIsGenuine, Quiet

\* A decision that cannot be applied changes nothing.
LEMMA DecisionRefusedStep ==
    ASSUME IndInv, NEW c \in Calls, NEW e \in Effects, DecisionRefused(c, e)
    PROVE  IndInv'
<1>1. EngineTypeOK'
  BY Zenon DEF IndInv, DecisionRefused, Decide, Silent, EngineTypeOK, PCs, Results,
               Answers, Args
<1>2. /\ pc'[c] = "idle" /\ eff'[c] = e /\ sent'[c] = "proposed" /\ reply'[c] = "null"
      /\ \A d \in Calls \ {c} : /\ pc'[d] = pc[d] /\ eff'[d] = eff[d]
                               /\ sent'[d] = sent[d] /\ reply'[d] = reply[d]
      /\ UNCHANGED sig /\ Silent
  BY Zenon DEF IndInv, DecisionRefused, Decide, EngineTypeOK
<1>3. RequestShape'
  BY <1>2, ShapeKept, Zenon DEF IndInv
<1> QED BY <1>1, <1>2, <1>3, SilentStep, Zenon DEF Quiet

-----------------------------------------------------------------------------
\* The effect row e is inserted.
Opened(c, e) ==
    /\ pc[c] = "insert" /\ eff[c] = None
    /\ e \in Effects /\ e # None
    /\ state[e] = "none"
    /\ UNCHANGED <<month, session, result_snapshot, args_snapshot, undo, approval,
                   expired, audit, sig, sent, reply, tries, answer, due, runs>>
    /\ state'[e] = "pending"
    /\ sig[c] \in Sigs
    /\ eff'[c] = e
    /\ \A d \in Calls : d # c => pc'[d] = pc[d] /\ eff'[d] = eff[d]
    /\ \A f \in Effects : f # e => state'[f] = state[f]
    /\ \/ TierOfEffect(e) = "compensable" /\ pc'[c] = "push"
       \/ TierOfEffect(e) = "irreversible" /\ pc'[c] = "request"

\* Insert does that and keeps the types.
LEMMA InsertDoes ==
    ASSUME IndInv, NEW c \in Calls, Insert(c)
    PROVE  StoreTypeOK' /\ EngineTypeOK' /\ \E e \in Effects : Opened(c, e)
<1>1. /\ pc' = [pc EXCEPT ![c] = IF TierOf[sig[c]] = "compensable" THEN "push" ELSE
            "request"]
      /\ eff' = [eff EXCEPT ![c] = <<sig[c], month>>]
      /\ state' = [state EXCEPT ![<<sig[c], month>>] = "pending"]
  BY Zenon DEF Insert, InsertEffect, SignatureTaken, RowExists, IndInv, StoreTypeOK,
               RequestShape, InterceptPC, Effects, Stored, clockVars, approvalVars
<1>2. /\ pc[c] = "insert"
      /\ <<sig[c], month>> \in Effects
      /\ state[<<sig[c], month>>] = "none"
      /\ UNCHANGED <<month, session, result_snapshot, args_snapshot,
            undo, approval, expired, audit, sig, sent, reply, tries, answer, due,
            runs>>
  BY Zenon DEF Insert, InsertEffect, SignatureTaken, RowExists, IndInv, StoreTypeOK,
               RequestShape, InterceptPC, Effects, Stored, clockVars, approvalVars
<1>3. StoreTypeOK'
  BY <1>1, <1>2, Zenon DEF IndInv, StoreTypeOK, EffectStates
<1>4. EngineTypeOK'
  BY <1>1, <1>2, Zenon DEF IndInv, EngineTypeOK, PCs, InterceptPC
<1>5. PICK e \in Effects : e = <<sig[c], month>>
  BY <1>2, Zenon
<1>6. eff[c] = None /\ e # None /\ sig[c] \in Sigs /\ TierOf[sig[c]] # "safe"
  BY <1>2, <1>5, RetryAssumption, Zenon DEF IndInv, RequestShape, InterceptPC
<1>7. TierOfEffect(e) = TierOf[sig[c]] /\ TierOf[sig[c]] \in Tiers
  BY <1>5, <1>6, SigAssumption, Zenon DEF TierOfEffect
<1>8. \/ TierOfEffect(e) = "compensable" /\ pc'[c] = "push"
      \/ TierOfEffect(e) = "irreversible" /\ pc'[c] = "request"
  BY <1>1, <1>6, <1>7, Zenon DEF Tiers, IndInv, EngineTypeOK
<1>9. /\ eff'[c] = e
      /\ state'[e] = "pending"
      /\ \A d \in Calls : d # c => pc'[d] = pc[d] /\ eff'[d] = eff[d]
      /\ \A f \in Effects : f # e => state'[f] = state[f]
  BY <1>1, <1>5, Zenon DEF IndInv, EngineTypeOK, StoreTypeOK
<1>10. Opened(c, e)
  BY <1>2, <1>5, <1>6, <1>8, <1>9, Zenon DEF Opened
<1> QED BY <1>3, <1>4, <1>10, Zenon

\* Insert preserves IndInv.
LEMMA InsertStep ==
    ASSUME IndInv, NEW c \in Calls, Insert(c)
    PROVE  IndInv'
<1>0. /\ RequestShape /\ NoRowNoTrace /\ OneOpener /\ UndoBeforeBegin /\ ApprovalShape
      /\ GateShut /\ DueExist /\ ReportedAfterRun /\ CommittedAtRest /\ AtMostOneRun
      /\ UndoRegisteredFirst /\ HumanGate /\ ResultIsGenuine /\ OneHumanDecision
      /\ RejectionHalts /\ ArgsAudited
  BY Zenon DEF IndInv
<1>1. PICK e \in Effects : Opened(c, e)
  BY InsertDoes, Zenon
<1>2. StoreTypeOK' /\ EngineTypeOK'
  BY InsertDoes, Zenon
<1>3. DueExist' /\ OneHumanDecision' /\ RejectionHalts'
  BY <1>0, <1>1, Zenon DEF Opened, DueExist, OneHumanDecision, RejectionHalts
<1>4. AtMostOneRun' /\ UndoBeforeBegin' /\ UndoRegisteredFirst' /\ HumanGate'
  BY <1>0, <1>1 DEF Opened, AtMostOneRun, Holds, UndoBeforeBegin, UndoRegisteredFirst,
                    Released, HumanGate
<1>5. ReportedAfterRun' /\ ArgsAudited'
  BY <1>0, <1>1, Zenon DEF Opened, ReportedAfterRun, ArgsAudited, ProxyPC
<1>6. RequestShape'
  BY <1>0, <1>1 DEF Opened, RequestShape, InterceptPC, ProxyPC
<1>7. NoRowNoTrace'
  BY <1>0, <1>1 DEF Opened, NoRowNoTrace, Released, Holds
<1>8. OneOpener'
  BY <1>0, <1>1 DEF Opened, OneOpener, Opening, Released, Holds, NoRowNoTrace
<1>9. ApprovalShape'
  <2>1. approval[e] = "none"
    BY <1>0, <1>1, Zenon DEF Opened, NoRowNoTrace
  <2> QED BY <1>0, <1>1, <2>1, Zenon DEF Opened, ApprovalShape
<1>10. GateShut'
  BY <1>0, <1>1 DEF Opened, GateShut, Undecided, ProxyPC, NoRowNoTrace
<1>11. ResultIsGenuine'
  BY <1>0, <1>1, Zenon DEF Opened, ResultIsGenuine
<1>12. CommittedAtRest'
  BY <1>0, <1>1 DEF Opened, CommittedAtRest, NoRowNoTrace, ResultIsGenuine, Released
<1> QED BY <1>2, <1>3, <1>4, <1>5, <1>6, <1>7, <1>8, <1>9, <1>10, <1>11, <1>12, Zenon
           DEF IndInv

\* The undo entry is pushed.
Pushed(c) ==
    /\ pc[c] = "push" /\ eff[c] \in Effects
    /\ UNCHANGED <<month, session, state, result_snapshot, args_snapshot, approval,
                   expired, audit, sig, eff, sent, reply, tries, answer, due, runs>>
    /\ pc'[c] = "begin" /\ undo'[eff[c]] = "pending"
    /\ \A d \in Calls : d # c => pc'[d] = pc[d]
    /\ \A f \in Effects : f # eff[c] => undo'[f] = undo[f]

\* Push does that and keeps the types.
LEMMA PushDoes ==
    ASSUME IndInv, NEW c \in Calls, Push(c)
    PROVE  StoreTypeOK' /\ EngineTypeOK' /\ Pushed(c)
<1>1. /\ pc' = [pc EXCEPT ![c] = "begin"]
      /\ undo' = [undo EXCEPT ![eff[c]] = "pending"]
  BY Zenon DEF Push, PushUndoEntry, Go, Stored, clockVars, effectVars, approvalVars,
               IndInv, RequestShape
<1>2. /\ pc[c] = "push" /\ eff[c] \in Effects
      /\ UNCHANGED <<month, session, state, result_snapshot,
            args_snapshot, approval, expired, audit, sig, eff, sent, reply, tries,
            answer, due, runs>>
  BY Zenon DEF Push, PushUndoEntry, Go, Stored, clockVars, effectVars, approvalVars,
               IndInv, RequestShape
<1>3. StoreTypeOK'
  BY <1>1, <1>2, Zenon DEF IndInv, StoreTypeOK, UndoStates, RequestShape
<1>4. EngineTypeOK'
  BY <1>1, <1>2, Zenon DEF IndInv, EngineTypeOK, PCs, InterceptPC
<1> QED BY <1>1, <1>2, <1>3, <1>4, Zenon DEF IndInv, EngineTypeOK, StoreTypeOK, Pushed

\* Push preserves IndInv.
LEMMA PushStep ==
    ASSUME IndInv, NEW c \in Calls, Push(c)
    PROVE  IndInv'
<1>1. Pushed(c)
  BY PushDoes, Zenon
<1>2. StoreTypeOK' /\ EngineTypeOK'
  BY PushDoes, Zenon
<1>3. DueExist' /\ OneHumanDecision' /\ RejectionHalts' /\ ResultIsGenuine'
      /\ CommittedAtRest'
  BY <1>1, Zenon DEF Pushed, IndInv, DueExist, OneHumanDecision, RejectionHalts,
                     ResultIsGenuine, CommittedAtRest
<1>4. RequestShape' /\ NoRowNoTrace' /\ OneOpener' /\ AtMostOneRun'
  <2>1. RequestShape /\ NoRowNoTrace /\ OneOpener /\ AtMostOneRun
    BY Zenon DEF IndInv
  <2>2. RequestShape'
    BY <1>1, <2>1 DEF Pushed, RequestShape, InterceptPC, ProxyPC
  <2>3. NoRowNoTrace'
    BY <1>1, <2>1 DEF Pushed, NoRowNoTrace, Released, Holds
  <2>4. OneOpener' /\ AtMostOneRun'
    BY <1>1, <2>1 DEF Pushed, OneOpener, Opening, AtMostOneRun, Released, Holds
  <2> QED BY <2>2, <2>3, <2>4, Zenon
<1>5. UndoRegisteredFirst' /\ ApprovalShape' /\ GateShut' /\ HumanGate'
  BY <1>1 DEF Pushed, IndInv, UndoRegisteredFirst, Released, Holds, ApprovalShape,
              GateShut, Undecided, ProxyPC, HumanGate
<1>6. ReportedAfterRun' /\ ArgsAudited'
  BY <1>1, Zenon DEF Pushed, IndInv, ReportedAfterRun, ArgsAudited, ProxyPC
<1>7. UndoBeforeBegin'
  BY <1>1 DEF Pushed, IndInv, UndoBeforeBegin, RequestShape
<1> QED BY <1>2, <1>3, <1>4, <1>5, <1>6, <1>7, Zenon DEF IndInv

-----------------------------------------------------------------------------
(* From the release of the tool to the report on it                        *)

\* set_executing releases the tool.
Begun(c) ==
    /\ pc[c] = "begin"
    /\ eff[c] \in Effects
    /\ state[eff[c]] = "pending"
    /\ UNCHANGED <<month, session, result_snapshot, args_snapshot, undo, approval,
                   expired, audit, sig, eff, sent, reply, tries, answer, due, runs>>
    /\ pc'[c] = "exec" /\ state'[eff[c]] = "executing"
    /\ \A d \in Calls : d # c => pc'[d] = pc[d]
    /\ \A f \in Effects : f # eff[c] => state'[f] = state[f]

\* Begin does that and keeps the types.
LEMMA BeginDoes ==
    ASSUME IndInv, NEW c \in Calls, Begin(c)
    PROVE  StoreTypeOK' /\ EngineTypeOK' /\ Begun(c)
<1>1. /\ pc' = [pc EXCEPT ![c] = "exec"]
      /\ state' = [state EXCEPT ![eff[c]] = "executing"]
  BY Zenon DEF Begin, SetExecuting, CanExecute, Go, Stored, clockVars, approvalVars,
               IndInv, RequestShape
<1>2. /\ pc[c] = "begin"
      /\ eff[c] \in Effects
      /\ state[eff[c]] = "pending"
      /\ UNCHANGED <<month, session, result_snapshot, args_snapshot,
            undo, approval, expired, audit, sig, eff, sent, reply, tries, answer, due,
            runs>>
  BY Zenon DEF Begin, SetExecuting, CanExecute, Go, Stored, clockVars, approvalVars,
               IndInv, RequestShape
<1>3. StoreTypeOK'
  BY <1>1, <1>2, Zenon DEF IndInv, StoreTypeOK, EffectStates
<1>4. EngineTypeOK'
  BY <1>1, <1>2, Zenon DEF IndInv, EngineTypeOK, PCs, ProxyPC
<1> QED BY <1>1, <1>2, <1>3, <1>4
        DEF IndInv, EngineTypeOK, StoreTypeOK, Begun

\* Begin preserves IndInv.
LEMMA BeginStep ==
    ASSUME IndInv, NEW c \in Calls, Begin(c)
    PROVE  IndInv'
<1>1. Begun(c)
  BY BeginDoes, Zenon
<1>2. StoreTypeOK' /\ EngineTypeOK'
  BY BeginDoes, Zenon
<1>3. DueExist' /\ OneHumanDecision' /\ RejectionHalts' /\ ResultIsGenuine'
  BY <1>1, Zenon DEF Begun, IndInv, DueExist, OneHumanDecision, RejectionHalts,
                     ResultIsGenuine
<1>4. RequestShape' /\ NoRowNoTrace' /\ OneOpener' /\ UndoBeforeBegin'
  BY <1>1 DEF Begun, IndInv, RequestShape, InterceptPC, ProxyPC, NoRowNoTrace, Released,
              Holds, OneOpener, Opening, UndoBeforeBegin
<1>5. ApprovalShape' /\ ReportedAfterRun' /\ CommittedAtRest'
  BY <1>1 DEF Begun, IndInv, ApprovalShape, ReportedAfterRun, CommittedAtRest
<1>6. AtMostOneRun'
  BY <1>1 DEF Begun, IndInv, AtMostOneRun, Holds, OneOpener, Opening, Released
<1>7. UndoRegisteredFirst'
  BY <1>1, Zenon DEF Begun, IndInv, UndoRegisteredFirst, Released, Holds, UndoBeforeBegin
<1>8. GateShut'
  BY <1>1 DEF Begun, IndInv, GateShut, Undecided, ProxyPC, RequestShape
<1>9. HumanGate'
  BY <1>1 DEF Begun, IndInv, HumanGate, Released, Holds, RequestShape
<1>10. ArgsAudited'
  BY <1>1 DEF Begun, IndInv, ArgsAudited, ProxyPC, RequestShape, GateShut,
              ApprovalShape, Undecided
<1> QED BY <1>2, <1>3, <1>4, <1>5, <1>6, <1>7, <1>8, <1>9, <1>10, Zenon DEF IndInv

\* The tool is run.
ToolRan(c) ==
    /\ pc[c] = "exec"
    /\ UNCHANGED <<month, session, state, result_snapshot, args_snapshot, undo,
                   approval, expired, audit, sig, eff, sent, reply, tries, answer,
                   due>>
    /\ pc'[c] \in {"commit", "fail"}
    /\ \A d \in Calls : d # c => pc'[d] = pc[d]
    /\ \A f \in Effects : runs[f] \in Nat
    /\ \A f \in Effects : f # eff[c] => runs'[f] = runs[f]
    /\ eff[c] \in Effects => runs'[eff[c]] = runs[eff[c]] + 1

\* RunTool does that and keeps the types.
LEMMA RunToolDoes ==
    ASSUME IndInv, NEW c \in Calls, RunTool(c)
    PROVE  StoreTypeOK' /\ EngineTypeOK' /\ ToolRan(c)
<1>1. PICK next \in {"commit", "fail"} :
      /\ pc' = [pc EXCEPT ![c] = next]
      /\ runs' = [e \in Effects |-> IF e = eff[c] THEN runs[e] + 1 ELSE runs[e]]
  BY Zenon DEF RunTool, Go
<1>2. /\ pc[c] = "exec"
      /\ UNCHANGED <<month, session, state, result_snapshot,
            args_snapshot, undo, approval, expired, audit, sig, eff, sent, reply,
            tries, answer, due>>
  BY Zenon DEF RunTool, Go, storeVars, dbVars, clockVars, effectVars, approvalVars
<1>3. StoreTypeOK'
  BY <1>2, Zenon DEF IndInv, StoreTypeOK
<1>4. EngineTypeOK'
  BY <1>1, <1>2 DEF IndInv, EngineTypeOK, PCs, ProxyPC
<1> QED BY <1>1, <1>2, <1>3, <1>4, Zenon DEF IndInv, EngineTypeOK, StoreTypeOK, ToolRan

\* RunTool preserves IndInv.
LEMMA RunToolStep ==
    ASSUME IndInv, NEW c \in Calls, RunTool(c)
    PROVE  IndInv'
<1>1. ToolRan(c)
  BY RunToolDoes, Zenon
<1>2. StoreTypeOK' /\ EngineTypeOK'
  BY RunToolDoes, Zenon
<1>3. DueExist' /\ OneHumanDecision' /\ RejectionHalts' /\ CommittedAtRest'
  BY <1>1, Zenon DEF ToolRan, IndInv, DueExist, OneHumanDecision, RejectionHalts,
                     CommittedAtRest
<1>4. RequestShape' /\ NoRowNoTrace' /\ UndoBeforeBegin'
  BY <1>1 DEF ToolRan, IndInv, RequestShape, InterceptPC, ProxyPC, NoRowNoTrace,
              Released, Holds, UndoBeforeBegin
<1>5. UndoRegisteredFirst' /\ ApprovalShape' /\ GateShut'
  BY <1>1 DEF ToolRan, IndInv, UndoRegisteredFirst, Released, Holds, ApprovalShape,
              GateShut, Undecided, ProxyPC
<1>6. HumanGate' /\ ArgsAudited'
  BY <1>1, Zenon DEF ToolRan, IndInv, HumanGate, Released, Holds, ArgsAudited, ProxyPC
<1>7. OneOpener'
  BY <1>1 DEF ToolRan, IndInv, OneOpener, Opening, Released, Holds, AtMostOneRun
<1>8. AtMostOneRun'
  BY <1>1 DEF ToolRan, IndInv, AtMostOneRun, Holds, EngineTypeOK
<1>9. ReportedAfterRun'
  <2>1. ReportedAfterRun /\ AtMostOneRun /\ EngineTypeOK
    BY Zenon DEF IndInv
  <2>2. \A d \in Calls : eff[d] # None => eff[d] \in Effects
    BY <2>1, Zenon DEF EngineTypeOK
  <2>3. UNCHANGED eff /\ \A d \in Calls : d # c => pc'[d] = pc[d]
    BY <1>1, Zenon DEF ToolRan
  <2>4. eff[c] \in Effects => runs'[eff[c]] = 1
    <3> SUFFICES ASSUME eff[c] \in Effects PROVE runs'[eff[c]] = 1
      OBVIOUS
    <3>1. /\ runs[eff[c]] <= 1 /\ runs[eff[c]] # 1 /\ runs[eff[c]] \in Nat
          /\ runs'[eff[c]] = runs[eff[c]] + 1
      BY <1>1, <2>1, Zenon DEF ToolRan, AtMostOneRun, Holds
    <3> QED BY <3>1
  <2>5. \A d \in Calls : eff[d] \in Effects /\ eff[d] # eff[c] => runs'[eff[d]] = runs[eff[d]]
    BY <1>1, Zenon DEF ToolRan
  <2> QED BY <2>1, <2>2, <2>3, <2>4, <2>5, Zenon DEF ReportedAfterRun
<1>10. ResultIsGenuine'
  BY <1>1, Zenon DEF ToolRan, IndInv, ResultIsGenuine, AtMostOneRun, Holds
<1> QED BY <1>2, <1>3, <1>4, <1>5, <1>6, <1>7, <1>8, <1>9, <1>10, Zenon DEF IndInv

\* The engine applies a Commit RPC.
Committed(c) ==
    /\ pc[c] = "commit"
    /\ eff[c] \in Effects
    /\ state[eff[c]] \in {"executing", "approved"}
    /\ UNCHANGED <<month, session, args_snapshot, undo, approval, expired, audit, eff,
                   reply, due, runs>>
    /\ state'[eff[c]] = "committed" /\ result_snapshot'[eff[c]] = "ok"
    /\ \A f \in Effects : f # eff[c] => /\ state'[f] = state[f]
                                        /\ result_snapshot'[f] = result_snapshot[f]
    /\ \A d \in Calls : d # c => /\ pc'[d] = pc[d] /\ sent'[d] = sent[d]
                                 /\ sig'[d] = sig[d]
    /\ \/ pc'[c] = "idle" /\ sent'[c] = "proposed"
       \/ pc'[c] = pc[c] /\ sent'[c] = sent[c] /\ sig'[c] = sig[c]

\* Commit does that and keeps the types.
LEMMA CommitDoes ==
    ASSUME IndInv, NEW c \in Calls, Commit(c)
    PROVE  StoreTypeOK' /\ EngineTypeOK' /\ Committed(c)
<1>1. /\ \/ /\ pc' = [pc EXCEPT ![c] = "idle"]
            /\ sent' = [sent EXCEPT ![c] = "proposed"]
            /\ sig' = [sig EXCEPT ![c] = None]
         \/ UNCHANGED <<pc, sent, sig>>
      /\ tries' \in [Calls -> Nat]
      /\ answer' \in [Calls -> Answers]
      /\ state' = [state EXCEPT ![eff[c]] = "committed"]
      /\ result_snapshot' = [result_snapshot EXCEPT ![eff[c]] = "ok"]
  BY DEF Commit, CommitEffect, CommitEnds, InFlight, Finish, RetryRpc, Retry, Stored,
         clockVars, approvalVars, IndInv, EngineTypeOK, Answers
<1>2. /\ pc[c] = "commit"
      /\ eff[c] \in Effects
      /\ state[eff[c]] \in {"executing", "approved"}
      /\ UNCHANGED <<month, session, args_snapshot, undo, approval,
            expired, audit, eff, reply, due, runs>>
  BY Zenon DEF Commit, CommitEffect, CommitEnds, InFlight, Finish, RetryRpc, Retry,
               Stored, clockVars, approvalVars, IndInv, EngineTypeOK, Answers
<1>3. StoreTypeOK'
  BY <1>1, <1>2, Zenon DEF IndInv, StoreTypeOK, EffectStates, Results
<1>4. EngineTypeOK'
  BY <1>1, <1>2, Zenon DEF IndInv, EngineTypeOK, PCs, Args
<1> QED BY <1>1, <1>2, <1>3, <1>4
        DEF IndInv, EngineTypeOK, StoreTypeOK, Committed

\* Commit preserves IndInv.
LEMMA CommitStep ==
    ASSUME IndInv, NEW c \in Calls, Commit(c)
    PROVE  IndInv'
<1>0. /\ EngineTypeOK /\ RequestShape /\ DueExist /\ ReportedAfterRun /\ CommittedAtRest
      /\ ResultIsGenuine /\ RejectionHalts
  BY Zenon DEF IndInv
<1>1. Committed(c)
  BY CommitDoes, Zenon
<1>2. StoreTypeOK' /\ EngineTypeOK'
  BY CommitDoes, Zenon
<1>3. RequestShape'
  BY <1>0, <1>1, ShapeKept, Zenon DEF Committed
<1>4. DueExist' /\ RejectionHalts' /\ CommittedAtRest'
  BY <1>0, <1>1, Zenon DEF Committed, DueExist, RejectionHalts, CommittedAtRest
<1>5. ResultIsGenuine'
  <2>1. eff[c] # None /\ \A d \in Calls : eff[d] # None => eff[d] \in Effects
    BY <1>0, <1>1, RetryAssumption, Zenon DEF Committed, EngineTypeOK
  <2>2. runs[eff[c]] = 1
    BY <1>0, <1>1, <2>1, Zenon DEF Committed, ReportedAfterRun
  <2>3. \A e \in Effects : result_snapshot[e] = "ok" => result_snapshot'[e] = "ok"
    BY <1>0, <1>1, Zenon DEF Committed, CommittedAtRest
  <2>4. \A e \in Effects : result_snapshot'[e] # "null" => runs'[e] = 1
    BY <1>0, <1>1, <2>2, Zenon DEF Committed, ResultIsGenuine
  <2>5. UNCHANGED <<eff, reply>>
    BY <1>1, Zenon DEF Committed
  <2> QED BY <1>0, <2>1, <2>3, <2>4, <2>5, Zenon DEF ResultIsGenuine
<1>6. \A d \in Calls : Quiet(d)
  BY <1>1, Zenon DEF Committed, Quiet
<1>7. \A e \in Effects : /\ state'[e] = "none" <=> state[e] = "none"
                         /\ undo'[e] = undo[e]
  BY <1>1, Zenon DEF Committed
<1>8. UNCHANGED <<args_snapshot, approval, audit, runs>>
  BY <1>1, Zenon DEF Committed
<1> QED BY <1>2, <1>3, <1>4, <1>5, <1>6, <1>7, <1>8, QuietStep, Zenon

\* The engine applies a Fail RPC.
Failed(c) ==
    /\ pc[c] = "fail"
    /\ eff[c] \in Effects
    /\ state[eff[c]] \in {"executing", "approved"}
    /\ UNCHANGED <<month, session, args_snapshot, undo, approval, expired, audit, eff,
                   reply, due, runs>>
    /\ state'[eff[c]] = "pending" /\ result_snapshot'[eff[c]] = "error"
    /\ \A f \in Effects : f # eff[c] => /\ state'[f] = state[f]
                                        /\ result_snapshot'[f] = result_snapshot[f]
    /\ \A d \in Calls : d # c => /\ pc'[d] = pc[d] /\ sent'[d] = sent[d]
                                 /\ sig'[d] = sig[d]
    /\ \/ pc'[c] = "idle" /\ sent'[c] = "proposed"
       \/ pc'[c] = pc[c] /\ sent'[c] = sent[c] /\ sig'[c] = sig[c]

\* Fail does that and keeps the types.
LEMMA FailDoes ==
    ASSUME IndInv, NEW c \in Calls, Fail(c)
    PROVE  StoreTypeOK' /\ EngineTypeOK' /\ Failed(c)
<1>1. /\ \/ /\ pc' = [pc EXCEPT ![c] = "idle"]
            /\ sent' = [sent EXCEPT ![c] = "proposed"]
            /\ sig' = [sig EXCEPT ![c] = None]
         \/ UNCHANGED <<pc, sent, sig>>
      /\ tries' \in [Calls -> Nat]
      /\ answer' \in [Calls -> Answers]
      /\ state' = [state EXCEPT ![eff[c]] = "pending"]
      /\ result_snapshot' = [result_snapshot EXCEPT ![eff[c]] = "error"]
  BY DEF Fail, FailEffect, CommitEnds, InFlight, Finish, RetryRpc, Retry, Stored,
         clockVars, approvalVars, IndInv, EngineTypeOK, Answers
<1>2. /\ pc[c] = "fail"
      /\ eff[c] \in Effects
      /\ state[eff[c]] \in {"executing", "approved"}
      /\ UNCHANGED <<month, session, args_snapshot, undo, approval,
            expired, audit, eff, reply, due, runs>>
  BY Zenon DEF Fail, FailEffect, CommitEnds, InFlight, Finish, RetryRpc, Retry, Stored,
               clockVars, approvalVars, IndInv, EngineTypeOK, Answers
<1>3. StoreTypeOK'
  BY <1>1, <1>2, Zenon DEF IndInv, StoreTypeOK, EffectStates, Results
<1>4. EngineTypeOK'
  BY <1>1, <1>2, Zenon DEF IndInv, EngineTypeOK, PCs, Args
<1> QED BY <1>1, <1>2, <1>3, <1>4
        DEF IndInv, EngineTypeOK, StoreTypeOK, Failed

\* Fail preserves IndInv.
LEMMA FailStep ==
    ASSUME IndInv, NEW c \in Calls, Fail(c)
    PROVE  IndInv'
<1>0. /\ EngineTypeOK /\ RequestShape /\ DueExist /\ ReportedAfterRun /\ CommittedAtRest
      /\ ResultIsGenuine /\ RejectionHalts
  BY Zenon DEF IndInv
<1>1. Failed(c)
  BY FailDoes, Zenon
<1>2. StoreTypeOK' /\ EngineTypeOK'
  BY FailDoes, Zenon
<1>3. RequestShape'
  BY <1>0, <1>1, ShapeKept, Zenon DEF Failed
<1>4. DueExist' /\ RejectionHalts' /\ CommittedAtRest'
  BY <1>0, <1>1, Zenon DEF Failed, DueExist, RejectionHalts, CommittedAtRest
<1>5. ResultIsGenuine'
  <2>1. eff[c] # None /\ \A d \in Calls : eff[d] # None => eff[d] \in Effects
    BY <1>0, <1>1, RetryAssumption, Zenon DEF Failed, EngineTypeOK
  <2>2. runs[eff[c]] = 1
    BY <1>0, <1>1, <2>1, Zenon DEF Failed, ReportedAfterRun
  <2>3. \A e \in Effects : result_snapshot[e] = "ok" => result_snapshot'[e] = "ok"
    BY <1>0, <1>1, Zenon DEF Failed, CommittedAtRest
  <2>4. \A e \in Effects : result_snapshot'[e] # "null" => runs'[e] = 1
    BY <1>0, <1>1, <2>2, Zenon DEF Failed, ResultIsGenuine
  <2>5. UNCHANGED <<eff, reply>>
    BY <1>1, Zenon DEF Failed
  <2> QED BY <1>0, <2>1, <2>3, <2>4, <2>5, Zenon DEF ResultIsGenuine
<1>6. \A d \in Calls : Quiet(d)
  BY <1>1, Zenon DEF Failed, Quiet
<1>7. \A e \in Effects : /\ state'[e] = "none" <=> state[e] = "none"
                         /\ undo'[e] = undo[e]
  BY <1>1, Zenon DEF Failed
<1>8. UNCHANGED <<args_snapshot, approval, audit, runs>>
  BY <1>1, Zenon DEF Failed
<1> QED BY <1>2, <1>3, <1>4, <1>5, <1>6, <1>7, <1>8, QuietStep, Zenon
=============================================================================
