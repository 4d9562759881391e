---------------------------- MODULE SdkCallProofs ----------------------------
(***************************************************************************)
(* Proofs about calls of decorated tools against the local development     *)
(* server, for any number of calls, signatures and decisions.              *)
(*                                                                         *)
(* DevInv is inductive: the index keeps one live row per signature, a call *)
(* creates its row at most once (so a decided request is never asked       *)
(* again), and an effect somebody may report is either undecided for no    *)
(* one or journalled by an auto-approving server.  One lemma per action    *)
(* shows that it preserves DevInv, with a step for every conjunct it can   *)
(* disturb.                                                                *)
(***************************************************************************)
EXTENDS SdkCall, TLAPS

\* What DevJournal assumes of its constants.
LEMMA Constants ==
    /\ SigOf \in [Calls -> Sigs]
    /\ None \notin Calls
    /\ Mock \notin Calls
    /\ None # Mock
BY JournalAssumption, Zenon DEF JournalAssumption

\* An empty journal satisfies the invariant.
LEMMA DevInitInv == Init => DevInv
<1> SUFFICES ASSUME Init PROVE DevInv
  OBVIOUS
<1> USE Constants DEF Init, JournalInit, ServerInit
<1>1. DevTypeOK
  BY Zenon DEF DevTypeOK, Statuses, Live, ApprovalStatuses, CallStates, HandlerSteps,
               DeciderSteps, NoDecision
<1>2. \A e \in Calls : RowShape(e)
  BY Zenon DEF RowShape
<1>3. \A c \in Calls : CallShape(c)
  BY Zenon DEF CallShape
<1>4. \A d \in Deciders : DeciderShape(d)
  BY Zenon DEF DeciderShape, NoDecision
<1>5. OneLiveRow /\ ReturnsGenuine /\ HeldUntilDecided /\ DecisionLands /\ OneDecision
  BY Zenon DEF OneLiveRow, Live, ReturnsGenuine, HeldUntilDecided, DecisionLands,
               OneDecision, NoDecision
<1> QED BY <1>1, <1>2, <1>3, <1>4, <1>5, Zenon DEF DevInv

\* What a step that leaves the journal, the flags, the decisions and the
\* history alone cannot disturb.
LEMMA QuietFrame ==
    ASSUME DevInv, UNCHANGED <<journal, server, decider, ran>>
    PROVE  /\ auto' => autoSeen'
           /\ \A e \in Calls : RowShape(e)'
           /\ \A d \in Deciders : DeciderShape(d)'
           /\ OneLiveRow' /\ DecisionLands' /\ OneDecision'
BY DEF DevInv, journal, server, RowShape, Genuine, DeciderShape, OneLiveRow, DecisionLands,
       OneDecision

\* The first lookup of a live effect.
LEMMA FindInv ==
    ASSUME DevInv, NEW c \in Calls, FindLiveEffect(c), UNCHANGED ran
    PROVE  DevInv'
<1> USE Constants DEF DevInv
<1>1. UNCHANGED <<status, result, approval, auto, gated, autoSeen, decider, ran>>
  BY Zenon DEF FindLiveEffect, journal, server
<1>2. DevTypeOK'
  BY <1>1 DEF FindLiveEffect, LiveEffects, RespondForLiveEffect, Execute, Replay, Answer,
              Goto, DevTypeOK, CallStates, HandlerSteps
<1>3. \A k \in Calls : CallShape(k)'
  <2> DEFINE live == LiveEffects(SigOf[c])
  <2>1. ASSUME NEW k \in Calls \ {c} PROVE CallShape(k)'
    BY <1>1 DEF FindLiveEffect, RespondForLiveEffect, Execute, Replay, Answer, Goto,
                CallShape, DevTypeOK, RequiresApproval
  <2>2. ASSUME NEW e \in live, RespondForLiveEffect(c, e) PROVE CallShape(c)'
    <3>1. e \in Calls /\ SigOf[e] = SigOf[c] /\ status[e] # "absent"
      BY Zenon DEF LiveEffects, Live
    <3>2. th[c] = "find" /\ CallShape(c) /\ RowShape(e)
      BY <3>1, Zenon DEF FindLiveEffect
    <3> QED BY <1>1, <2>2, <3>1, <3>2 DEF
           RespondForLiveEffect, Execute, Replay, Answer, Goto, CallShape, RowShape,
           DevTypeOK, RequiresApproval, Waiting
  <2>3. CASE live = {}
    BY <1>1, <2>3 DEF FindLiveEffect, Goto, Answer, Execute, CallShape, DevTypeOK,
                      RequiresApproval, Waiting
  <2> QED BY <2>1, <2>2, <2>3, Zenon DEF FindLiveEffect
<1>4. ReturnsGenuine'
  BY <1>1 DEF FindLiveEffect, LiveEffects, RespondForLiveEffect, Execute, Replay, Answer,
              Goto, DevTypeOK, RowShape, Waiting, ReturnsGenuine, Genuine
<1>5. HeldUntilDecided'
  BY <1>1 DEF FindLiveEffect, LiveEffects, RespondForLiveEffect, Execute, Replay, Answer,
              Goto, DevTypeOK, ApprovalStatuses, RowShape, CallShape, Waiting,
              HeldUntilDecided, Decided, RequiresApproval
<1> QED BY <1>1, <1>2, <1>3, <1>4, <1>5, QuietFrame, Zenon DEF journal, server

\* The lookup after a lost race.
LEMMA RefindInv ==
    ASSUME DevInv, NEW c \in Calls, FindAfterConflict(c), UNCHANGED ran
    PROVE  DevInv'
<1> USE Constants DEF DevInv
<1>1. UNCHANGED <<status, result, approval, auto, gated, autoSeen, decider, ran>>
  BY Zenon DEF FindAfterConflict, journal, server
<1>2. DevTypeOK'
  BY <1>1 DEF FindAfterConflict, LiveEffects, Await, RespondForLiveEffect, Execute, Replay,
              Answer, Goto, DevTypeOK, CallStates, HandlerSteps
<1>3. \A k \in Calls : CallShape(k)'
  <2> DEFINE live == LiveEffects(SigOf[c])
  <2>1. ASSUME NEW k \in Calls \ {c} PROVE CallShape(k)'
    BY <1>1 DEF FindAfterConflict, RespondForLiveEffect, Execute, Replay, Answer, Goto, Await,
                CallShape, DevTypeOK, RequiresApproval
  <2>2. ASSUME NEW e \in live, RespondForLiveEffect(c, e) PROVE CallShape(c)'
    <3>1. e \in Calls /\ SigOf[e] = SigOf[c] /\ status[e] # "absent"
      BY DEF LiveEffects, Live
    <3>2. th[c] = "refind" /\ CallShape(c) /\ RowShape(e)
      BY <3>1, Zenon DEF FindAfterConflict
    <3> QED BY <1>1, <2>2, <3>1, <3>2 DEF
           RespondForLiveEffect, Execute, Replay, Answer, Goto, CallShape, RowShape,
           DevTypeOK, RequiresApproval, Waiting
  <2>3. CASE live = {}
    BY <1>1, <2>3 DEF FindAfterConflict, Goto, Answer, Execute, Await, CallShape, DevTypeOK,
                      RequiresApproval, Waiting
  <2> QED BY <2>1, <2>2, <2>3, Zenon DEF FindAfterConflict
<1>4. ReturnsGenuine'
  BY <1>1 DEF FindAfterConflict, LiveEffects, Await, RespondForLiveEffect, Execute, Replay,
              Answer, Goto, DevTypeOK, RowShape, Waiting, ReturnsGenuine, Genuine
<1>5. HeldUntilDecided'
  BY <1>1 DEF FindAfterConflict, LiveEffects, Await, RespondForLiveEffect, Execute, Replay,
              Answer, Goto, DevTypeOK, ApprovalStatuses, RowShape, CallShape, Waiting,
              HeldUntilDecided, Decided, RequiresApproval
<1> QED BY <1>1, <1>2, <1>3, <1>4, <1>5, QuietFrame DEF journal, server

\* The look at the request of a held effect.
LEMMA PendingInv ==
    ASSUME DevInv, NEW c \in Calls, FindPendingApproval(c), UNCHANGED ran
    PROVE  DevInv'
<1> USE Constants DEF DevInv
<1>1. UNCHANGED <<status, result, approval, auto, gated, autoSeen, decider, ran>>
  BY Zenon DEF FindPendingApproval, journal, server
<1>2. DevTypeOK'
  BY <1>1 DEF FindPendingApproval, HasPendingApproval, Execute, Await, Answer, Goto,
              DevTypeOK, CallStates, HandlerSteps
<1>3. \A k \in Calls : CallShape(k)'
  BY <1>1 DEF FindPendingApproval, HasPendingApproval, Execute, Await, Answer, Goto,
              CallShape, DevTypeOK, RowShape, RequiresApproval, Waiting
<1>4. ReturnsGenuine'
  BY <1>1 DEF FindPendingApproval, HasPendingApproval, Execute, Await, Answer, Goto,
              DevTypeOK, RowShape, Waiting, ReturnsGenuine, Genuine
<1>5. HeldUntilDecided'
  BY <1>1 DEF FindPendingApproval, HasPendingApproval, Execute, Await, Answer, Goto,
              DevTypeOK, ApprovalStatuses, RowShape, CallShape, Waiting, HeldUntilDecided,
              Decided, RequiresApproval
<1> QED BY <1>1, <1>2, <1>3, <1>4, <1>5, QuietFrame DEF journal, server

\* A call is intercepted.
LEMMA InterceptInv ==
    ASSUME DevInv, NEW c \in Calls, Intercept(c)
    PROVE  DevInv'
<1> USE Constants DEF DevInv
<1>1. UNCHANGED <<status, result, approval, auto, gated, autoSeen, decider, ran>>
  BY Zenon DEF Intercept, SendRequest, journal, server
<1>2. DevTypeOK'
  BY <1>1, Zenon DEF Intercept, SendRequest, DevTypeOK, CallStates, HandlerSteps
<1>3. \A k \in Calls : CallShape(k)'
  BY <1>1 DEF Intercept, SendRequest, CallShape, DevTypeOK, RowShape, RequiresApproval, Waiting
<1>4. ReturnsGenuine'
  BY <1>1 DEF Intercept, SendRequest, DevTypeOK, RowShape, Waiting, ReturnsGenuine, Genuine
<1>5. HeldUntilDecided'
  BY <1>1 DEF Intercept, SendRequest, DevTypeOK, ApprovalStatuses, RowShape, CallShape,
              Waiting, HeldUntilDecided, Decided, RequiresApproval
<1> QED BY <1>1, <1>2, <1>3, <1>4, <1>5, QuietFrame, Zenon DEF journal, server

\* A tool raises.
LEMMA RaiseInv ==
    ASSUME DevInv, NEW c \in Calls, ToolRaises(c)
    PROVE  DevInv'
<1> USE Constants DEF DevInv
<1>1. UNCHANGED <<status, result, approval, auto, gated, autoSeen, decider, ran>>
  BY Zenon DEF ToolRaises, SendRequest, journal, server
<1>2. DevTypeOK'
  BY <1>1, Zenon DEF ToolRaises, SendRequest, DevTypeOK, CallStates, HandlerSteps
<1>3. \A k \in Calls : CallShape(k)'
  BY <1>1 DEF ToolRaises, SendRequest, CallShape, DevTypeOK, RowShape, RequiresApproval, Waiting
<1>4. ReturnsGenuine'
  BY <1>1 DEF ToolRaises, SendRequest, DevTypeOK, RowShape, Waiting, ReturnsGenuine, Genuine
<1>5. HeldUntilDecided'
  BY <1>1 DEF ToolRaises, SendRequest, DevTypeOK, ApprovalStatuses, RowShape, CallShape,
              Waiting, HeldUntilDecided, Decided, RequiresApproval
<1> QED BY <1>1, <1>2, <1>3, <1>4, <1>5, QuietFrame DEF journal, server

\* A client gives up.
LEMMA TimeoutInv ==
    ASSUME DevInv, NEW c \in Calls, RequestTimeout(c)
    PROVE  DevInv'
<1> USE Constants DEF DevInv
<1>1. UNCHANGED <<status, result, approval, auto, gated, autoSeen, decider, ran>>
  BY Zenon DEF RequestTimeout, journal, server
<1>2. DevTypeOK'
  BY <1>1, Zenon DEF RequestTimeout, DevTypeOK, CallStates, HandlerSteps
<1>3. \A k \in Calls : CallShape(k)'
  BY <1>1 DEF RequestTimeout, CallShape, DevTypeOK, RowShape, RequiresApproval, Waiting
<1>4. ReturnsGenuine'
  BY <1>1 DEF RequestTimeout, DevTypeOK, RowShape, Waiting, ReturnsGenuine, Genuine
<1>5. HeldUntilDecided'
  BY <1>1 DEF RequestTimeout, DevTypeOK, ApprovalStatuses, RowShape, CallShape, Waiting,
              HeldUntilDecided, Decided, RequiresApproval
<1> QED BY <1>1, <1>2, <1>3, <1>4, <1>5, QuietFrame DEF journal, server

\* An auto-approving server journals a gated call.
LEMMA AutoCreateInv ==
    ASSUME DevInv, NEW c \in Calls, CreateAutoApproved(c), UNCHANGED ran
    PROVE  DevInv'
<1> USE Constants DEF DevInv, journal, server
<1>1. DevTypeOK'
  BY DEF CreateAutoApproved, CreateEffect, Conflict, LiveEffects, Goto, DevTypeOK, Statuses,
         Live, ApprovalStatuses, CallStates, HandlerSteps, DeciderSteps
<1>2. auto' => autoSeen'
  BY Zenon DEF CreateAutoApproved, CreateEffect, Conflict, LiveEffects, Goto
<1>3. \A e \in Calls : RowShape(e)'
  BY DEF CreateAutoApproved, CreateEffect, Conflict, LiveEffects, Goto, RowShape, CallShape,
         DeciderShape, Genuine, RequiresApproval, DevTypeOK
<1>4. \A k \in Calls : CallShape(k)'
  BY DEF CreateAutoApproved, CreateEffect, Conflict, LiveEffects, Goto, CallShape,
         DeciderShape, DevTypeOK, RowShape, RequiresApproval, Waiting
<1>5. \A q \in Deciders : DeciderShape(q)'
  BY DEF CreateAutoApproved, CreateEffect, Conflict, LiveEffects, Goto, DeciderShape,
         CallShape, DevTypeOK, RowShape
<1>6. OneLiveRow'
  BY DEF CreateAutoApproved, CreateEffect, Conflict, LiveEffects, Goto, OneLiveRow, DevTypeOK,
         Live
<1>7. ReturnsGenuine'
  BY DEF CreateAutoApproved, CreateEffect, Conflict, LiveEffects, Goto, ReturnsGenuine,
         Genuine, DevTypeOK, RowShape, CallShape, Waiting
<1>8. HeldUntilDecided'
  BY Zenon DEF CreateAutoApproved, CreateEffect, Conflict, LiveEffects, Goto,
               HeldUntilDecided, Decided, DevTypeOK, RowShape, CallShape, DeciderShape,
               Waiting, RequiresApproval
<1>9. DecisionLands'
  BY Zenon DEF CreateAutoApproved, CreateEffect, Conflict, LiveEffects, Goto,
               DecisionLands, DevTypeOK, RowShape, CallShape, DeciderShape
<1>10. OneDecision'
  BY Zenon DEF CreateAutoApproved, OneDecision
<1> QED BY <1>1, <1>2, <1>3, <1>4, <1>5, <1>6, <1>7, <1>8, <1>9, <1>10, Zenon

\* It approves the request it just wrote.
LEMMA AutoResolveInv ==
    ASSUME DevInv, NEW c \in Calls, ResolveAutoApproved(c), UNCHANGED ran
    PROVE  DevInv'
<1> USE Constants DEF DevInv, journal, server
<1>1. DevTypeOK'
  BY Zenon DEF ResolveAutoApproved, ResolveApproval, Execute, Answer, DevTypeOK, Statuses,
               Live, ApprovalStatuses, CallStates, HandlerSteps, DeciderSteps
<1>2. auto' => autoSeen'
  BY Zenon DEF ResolveAutoApproved, ResolveApproval, Execute, Answer
<1>3. \A e \in Calls : RowShape(e)'
  BY DEF ResolveAutoApproved, ResolveApproval, Execute, Answer, RowShape, CallShape,
         DeciderShape, Genuine, RequiresApproval, DevTypeOK
<1>4. \A k \in Calls : CallShape(k)'
  BY SMTT(60) DEF ResolveAutoApproved, ResolveApproval, Execute, Answer, CallShape,
                  DeciderShape, DevTypeOK, RowShape, RequiresApproval, Waiting
<1>5. \A q \in Deciders : DeciderShape(q)'
  BY DEF ResolveAutoApproved, ResolveApproval, Execute, Answer, DeciderShape, CallShape,
         DevTypeOK, RowShape
<1>6. OneLiveRow'
  BY Zenon DEF ResolveAutoApproved, ResolveApproval, OneLiveRow
<1>7. ReturnsGenuine'
  BY DEF ResolveAutoApproved, ResolveApproval, Execute, Answer, ReturnsGenuine, Genuine,
         DevTypeOK, RowShape, CallShape, Waiting
<1>8. HeldUntilDecided'
  BY Zenon DEF ResolveAutoApproved, ResolveApproval, Execute, Answer, HeldUntilDecided,
               Decided, DevTypeOK, RowShape, CallShape, DeciderShape, Waiting,
               RequiresApproval
<1>9. DecisionLands'
  BY Zenon DEF ResolveAutoApproved, ResolveApproval, Execute, Answer, DecisionLands,
               DevTypeOK, RowShape, CallShape, DeciderShape
<1>10. OneDecision'
  BY Zenon DEF ResolveAutoApproved, OneDecision
<1> QED BY <1>1, <1>2, <1>3, <1>4, <1>5, <1>6, <1>7, <1>8, <1>9, <1>10

\* A new call is journalled.
LEMMA CreateInv ==
    ASSUME DevInv, NEW c \in Calls, CreateCall(c), UNCHANGED ran
    PROVE  DevInv'
<1> USE Constants DEF DevInv, journal, server
<1>1. DevTypeOK'
  BY DEF CreateCall, CreateEffect, Conflict, LiveEffects, Goto, Execute, Await, Answer,
         DevTypeOK, Statuses, Live, ApprovalStatuses, CallStates, HandlerSteps, DeciderSteps
<1>2. auto' => autoSeen'
  BY Zenon DEF CreateCall
<1>3. \A e \in Calls : RowShape(e)'
  BY DEF CreateCall, CreateEffect, Conflict, LiveEffects, Goto, Execute, Await, Answer,
         RowShape, CallShape, DeciderShape, Genuine, RequiresApproval, DevTypeOK
<1>4. \A k \in Calls : CallShape(k)'
  BY SMTT(60) DEF CreateCall, CreateEffect, Conflict, LiveEffects, Goto, Execute, Await,
                  Answer, CallShape, DeciderShape, DevTypeOK, RowShape, RequiresApproval,
                  Waiting
<1>5. \A q \in Deciders : DeciderShape(q)'
  BY DEF CreateCall, CreateEffect, Conflict, LiveEffects, Goto, Execute, Await, Answer,
         DeciderShape, CallShape, DevTypeOK, RowShape
<1>6. OneLiveRow'
  BY DEF CreateCall, CreateEffect, Conflict, LiveEffects, Goto, Execute, Await, Answer,
         OneLiveRow, DevTypeOK, Live
<1>7. ReturnsGenuine'
  BY SMTT(60) DEF CreateCall, CreateEffect, Conflict, LiveEffects, Goto, Execute, Await,
                  Answer, ReturnsGenuine, Genuine, DevTypeOK, RowShape, CallShape, Waiting
<1>8. HeldUntilDecided'
  BY SMTT(60) DEF CreateCall, CreateEffect, Conflict, LiveEffects, Goto, Execute, Await,
                  Answer, HeldUntilDecided, Decided, DevTypeOK, RowShape, CallShape,
                  DeciderShape, Waiting, RequiresApproval
<1>9. DecisionLands'
  BY SMTT(60) DEF CreateCall, CreateEffect, Conflict, LiveEffects, Goto, Execute, Await,
                  Answer, DecisionLands, DevTypeOK, RowShape, CallShape, DeciderShape
<1>10. OneDecision'
  BY Zenon DEF CreateCall, OneDecision
<1> QED BY <1>1, <1>2, <1>3, <1>4, <1>5, <1>6, <1>7, <1>8, <1>9, <1>10

\* An auto-approving server grants a request it finds pending.
LEMMA GrantInv ==
    ASSUME DevInv, NEW c \in Calls, GrantPendingApproval(c), UNCHANGED ran
    PROVE  DevInv'
<1> USE Constants DEF DevInv, journal, server
<1>1. DevTypeOK'
  BY Zenon DEF GrantPendingApproval, ResolveApproval, Execute, Answer, DevTypeOK,
               Statuses, Live, ApprovalStatuses, CallStates, HandlerSteps, DeciderSteps
<1>2. auto' => autoSeen'
  BY Zenon DEF GrantPendingApproval
<1>3. \A e \in Calls : RowShape(e)'
  BY SMTT(60) DEF GrantPendingApproval, ResolveApproval, Execute, Answer, RowShape, CallShape,
                  DeciderShape, Genuine, RequiresApproval, DevTypeOK
<1>4. \A k \in Calls : CallShape(k)'
  BY SMTT(60) DEF GrantPendingApproval, ResolveApproval, Execute, Answer, CallShape,
                  DeciderShape, DevTypeOK, RowShape, RequiresApproval, Waiting
<1>5. \A q \in Deciders : DeciderShape(q)'
  BY SMTT(60) DEF GrantPendingApproval, ResolveApproval, Execute, Answer, DeciderShape,
                  CallShape, DevTypeOK, RowShape
<1>6. OneLiveRow'
  BY Zenon DEF GrantPendingApproval, ResolveApproval, OneLiveRow
<1>7. ReturnsGenuine'
  BY DEF GrantPendingApproval, ResolveApproval, Execute, Answer, ReturnsGenuine, Genuine,
         DevTypeOK, RowShape, CallShape, Waiting
<1>8. HeldUntilDecided'
  BY Zenon DEF GrantPendingApproval, ResolveApproval, Execute, Answer, HeldUntilDecided,
               Decided, DevTypeOK, RowShape, CallShape, DeciderShape, Waiting,
               RequiresApproval
<1>9. DecisionLands'
  BY Zenon DEF GrantPendingApproval, ResolveApproval, Execute, Answer, DecisionLands,
               DevTypeOK, RowShape, CallShape, DeciderShape
<1>10. OneDecision'
  BY Zenon DEF GrantPendingApproval, OneDecision
<1> QED BY <1>1, <1>2, <1>3, <1>4, <1>5, <1>6, <1>7, <1>8, <1>9, <1>10

\* A result is committed, or refused by the index.
LEMMA CommitInv ==
    ASSUME DevInv, NEW c \in Calls, CommitEffect(c), UNCHANGED ran
    PROVE  DevInv'
<1> USE Constants DEF DevInv, journal, server
<1>1. DevTypeOK'
  BY DEF CommitEffect, Refused, Conflict, LiveEffects, Hangup, RecordCommit, UpdateEffect,
         Answer, DevTypeOK, Statuses, Live, ApprovalStatuses, CallStates, HandlerSteps,
         DeciderSteps
<1>2. auto' => autoSeen'
  BY Zenon DEF CommitEffect
<1>3. \A e \in Calls : RowShape(e)'
  BY SMTT(60) DEF CommitEffect, Refused, Conflict, LiveEffects, Hangup, RecordCommit,
                  UpdateEffect, Answer, RowShape, CallShape, DeciderShape, Genuine,
                  RequiresApproval, DevTypeOK
<1>4. \A k \in Calls : CallShape(k)'
  BY SMTT(60) DEF CommitEffect, Refused, Conflict, LiveEffects, Hangup, RecordCommit,
                  UpdateEffect, Answer, CallShape, DeciderShape, DevTypeOK, RowShape,
                  RequiresApproval, Waiting
<1>5. \A q \in Deciders : DeciderShape(q)'
  BY Zenon DEF CommitEffect, RecordCommit, UpdateEffect, DeciderShape
<1>6. OneLiveRow'
  BY DEF CommitEffect, Refused, Conflict, LiveEffects, Hangup, RecordCommit, UpdateEffect,
         Answer, OneLiveRow, DevTypeOK, Live
<1>7. ReturnsGenuine'
  BY DEF CommitEffect, Refused, Conflict, LiveEffects, Hangup, RecordCommit, UpdateEffect,
         Answer, ReturnsGenuine, Genuine, DevTypeOK, RowShape, CallShape, Waiting
<1>8. HeldUntilDecided'
  BY DEF CommitEffect, Refused, Conflict, LiveEffects, Hangup, RecordCommit, UpdateEffect,
         Answer, HeldUntilDecided, Decided, DevTypeOK, RowShape, CallShape, DeciderShape,
         Waiting, RequiresApproval
<1>9. DecisionLands'
  BY DEF CommitEffect, Refused, Conflict, LiveEffects, Hangup, RecordCommit, UpdateEffect,
         Answer, DecisionLands, DevTypeOK, RowShape, CallShape, DeciderShape
<1>10. OneDecision'
  BY Zenon DEF CommitEffect, OneDecision
<1> QED BY <1>1, <1>2, <1>3, <1>4, <1>5, <1>6, <1>7, <1>8, <1>9, <1>10

\* A failure is recorded.
LEMMA FailInv ==
    ASSUME DevInv, NEW c \in Calls, FailEffect(c), UNCHANGED ran
    PROVE  DevInv'
<1> USE Constants DEF DevInv, journal, server
<1>1. DevTypeOK'
  BY Zenon DEF FailEffect, RecordFail, UpdateEffect, Answer, DevTypeOK, Statuses, Live,
               ApprovalStatuses, CallStates, HandlerSteps, DeciderSteps
<1>2. auto' => autoSeen'
  BY Zenon DEF FailEffect
<1>3. \A e \in Calls : RowShape(e)'
  BY DEF FailEffect, RecordFail, UpdateEffect, Answer, RowShape, CallShape, DeciderShape,
         Genuine, RequiresApproval, DevTypeOK
<1>4. \A k \in Calls : CallShape(k)'
  BY DEF FailEffect, RecordFail, UpdateEffect, Answer, CallShape, DeciderShape, DevTypeOK,
         RowShape, RequiresApproval, Waiting
<1>5. \A q \in Deciders : DeciderShape(q)'
  BY Zenon DEF FailEffect, RecordFail, UpdateEffect, DeciderShape
<1>6. OneLiveRow'
  BY Zenon DEF FailEffect, RecordFail, UpdateEffect, Answer, OneLiveRow, DevTypeOK, Live
<1>7. ReturnsGenuine'
  BY DEF FailEffect, RecordFail, UpdateEffect, Answer, ReturnsGenuine, Genuine, DevTypeOK,
         RowShape, CallShape, Waiting
<1>8. HeldUntilDecided'
  BY DEF FailEffect, RecordFail, UpdateEffect, Answer, HeldUntilDecided, Decided, DevTypeOK,
         RowShape, CallShape, DeciderShape, Waiting, RequiresApproval
<1>9. DecisionLands'
  BY SMTT(60) DEF FailEffect, RecordFail, UpdateEffect, Answer, DecisionLands, DevTypeOK,
                  RowShape, CallShape, DeciderShape
<1>10. OneDecision'
  BY Zenon DEF FailEffect, OneDecision
<1> QED BY <1>1, <1>2, <1>3, <1>4, <1>5, <1>6, <1>7, <1>8, <1>9, <1>10

\* A decision finds its request pending.
LEMMA GetInv ==
    ASSUME DevInv, NEW d \in Deciders, GetApproval(d), UNCHANGED ran
    PROVE  DevInv'
<1> USE Constants DEF DevInv, journal, server
<1>1. DevTypeOK'
  BY DEF GetApproval, HasPendingApproval, DevTypeOK, Statuses, Live, ApprovalStatuses,
         CallStates, HandlerSteps, DeciderSteps
<1>2. auto' => autoSeen'
  BY Zenon DEF GetApproval
<1>3. \A e \in Calls : RowShape(e)'
  BY Zenon DEF GetApproval, RowShape, Genuine
<1>4. \A k \in Calls : CallShape(k)'
  BY DEF GetApproval, CallShape, RequiresApproval
<1>5. \A q \in Deciders : DeciderShape(q)'
  BY SMTT(60) DEF GetApproval, HasPendingApproval, DeciderShape, CallShape, DevTypeOK, RowShape
<1>6. OneLiveRow'
  BY Zenon DEF GetApproval, OneLiveRow
<1>7. ReturnsGenuine'
  BY Zenon DEF GetApproval, ReturnsGenuine
<1>8. HeldUntilDecided'
  BY Zenon DEF GetApproval, HeldUntilDecided, Decided, RequiresApproval
<1>9. DecisionLands'
  BY SMTT(60) DEF GetApproval, HasPendingApproval, DecisionLands, DevTypeOK, RowShape,
                  CallShape, DeciderShape
<1>10. OneDecision'
  BY DEF GetApproval, HasPendingApproval, OneDecision, DevTypeOK, DeciderShape
<1> QED BY <1>1, <1>2, <1>3, <1>4, <1>5, <1>6, <1>7, <1>8, <1>9, <1>10, Zenon

\* The conditional update of a request.
LEMMA DecideInv ==
    ASSUME DevInv, NEW d \in Deciders, DecideApproval(d), UNCHANGED ran
    PROVE  DevInv'
<1> USE Constants DEF DevInv, journal, server
<1>1. DevTypeOK'
  <2>1. approval' \in [Calls -> ApprovalStatuses]
    BY Zenon DEF DecideApproval, ResolveApproval, DevTypeOK, ApprovalStatuses,
                 DeciderShape
  <2>2. decider' \in [Deciders -> [at : DeciderSteps, effect : Calls \cup {None},
                                   decision : {"none", "approved", "rejected"}]]
    BY DEF DecideApproval, DeciderGoto, DeciderEnds, NoDecision, DevTypeOK, DeciderSteps
  <2> QED BY <2>1, <2>2, Zenon DEF DecideApproval, ResolveApproval, DeciderGoto,
                                   DeciderEnds, DevTypeOK
<1>2. auto' => autoSeen'
  BY Zenon DEF DecideApproval, DeciderGoto, DeciderEnds
<1>3. \A e \in Calls : RowShape(e)'
  BY DEF DecideApproval, HasPendingApproval, ResolveApproval, DeciderGoto, DeciderEnds,
         NoDecision, RowShape, CallShape, DeciderShape, Genuine, RequiresApproval, DevTypeOK
<1>4. \A k \in Calls : CallShape(k)'
  BY DEF DecideApproval, HasPendingApproval, ResolveApproval, DeciderGoto, DeciderEnds,
         NoDecision, CallShape, DeciderShape, DevTypeOK, RowShape, RequiresApproval, Waiting
<1>5. \A q \in Deciders : DeciderShape(q)'
  BY DEF DecideApproval, HasPendingApproval, ResolveApproval, DeciderGoto, DeciderEnds,
         NoDecision, DeciderShape, CallShape, DevTypeOK, RowShape
<1>6. OneLiveRow'
  BY Zenon DEF DecideApproval, ResolveApproval, OneLiveRow
<1>7. ReturnsGenuine'
  BY DEF DecideApproval, HasPendingApproval, ResolveApproval, DeciderGoto, DeciderEnds,
         NoDecision, ReturnsGenuine, Genuine, DevTypeOK, RowShape, CallShape, Waiting
<1>8. HeldUntilDecided'
  BY DEF DecideApproval, HasPendingApproval, ResolveApproval, DeciderGoto, DeciderEnds,
         NoDecision, HeldUntilDecided, Decided, DevTypeOK, RowShape, CallShape, DeciderShape,
         Waiting, RequiresApproval
<1>9. DecisionLands'
  <2> SUFFICES ASSUME ~autoSeen', NEW e \in Calls
               PROVE  /\ approval'[e] = "pending" => status'[e] = "awaiting_approval"
                      /\ status'[e] = "awaiting_approval" =>
                            \/ approval'[e] = "pending"
                            \/ \E q \in Deciders : /\ decider'[q].effect = e
                                                   /\ decider'[q].decision = approval'[e]
                                                   /\ decider'[q].at \in {"record", "lost"}
    BY Zenon DEF DecisionLands
  <2> DEFINE f == decider[d].effect
  <2>1. ~autoSeen /\ status' = status /\ decider[d].at = "resolve" /\ f \in Calls
    BY Zenon DEF DecideApproval, ResolveApproval, DeciderGoto, DeciderEnds, DeciderShape,
                 DevTypeOK
  <2>2. \A q \in Deciders \ {d} : decider'[q] = decider[q]
    BY Zenon DEF DecideApproval, DeciderGoto, DeciderEnds, DevTypeOK
  <2>3. ~HasPendingApproval(f) => approval' = approval
    BY <2>1, Zenon DEF DecideApproval, ResolveApproval, HasPendingApproval, DevTypeOK
  <2>4. HasPendingApproval(f) =>
           /\ decider'[d].effect = f /\ decider'[d].at = "record"
           /\ decider'[d].decision = approval'[f] /\ approval'[f] # "pending"
           /\ \A g \in Calls \ {f} : approval'[g] = approval[g]
    BY <2>1 DEF DecideApproval, ResolveApproval, HasPendingApproval, DeciderGoto,
                DeciderShape, DevTypeOK
  <2>5. approval'[e] = approval[e] \/ (HasPendingApproval(f) /\ e = f)
    BY <2>3, <2>4, Zenon
  <2> QED BY <2>1, <2>2, <2>4, <2>5, SMTT(60) DEF DecisionLands
<1>10. OneDecision'
  BY DEF DecideApproval, HasPendingApproval, ResolveApproval, DeciderGoto, DeciderEnds,
         NoDecision, OneDecision, DevTypeOK, DeciderShape
<1> QED BY <1>1, <1>2, <1>3, <1>4, <1>5, <1>6, <1>7, <1>8, <1>9, <1>10

\* The update of the decided effect, or its refusal by the index.
LEMMA RecordInv ==
    ASSUME DevInv, NEW d \in Deciders, RecordDecision(d), UNCHANGED ran
    PROVE  DevInv'
<1> USE Constants DEF DevInv, journal, server
<1>1. DevTypeOK'
  BY SMTT(60) DEF RecordDecision, DeciderGoto, MarkRejected, RecordCommit, UpdateEffect,
                  Refused, Conflict, LiveEffects, DevTypeOK, Statuses, Live, ApprovalStatuses,
                  CallStates, HandlerSteps, DeciderSteps
<1>2. auto' => autoSeen'
  BY Zenon DEF RecordDecision, DeciderGoto
<1>3. \A e \in Calls : RowShape(e)'
  BY DEF RecordDecision, DeciderGoto, MarkRejected, RecordCommit, UpdateEffect, Refused,
         Conflict, LiveEffects, RowShape, CallShape, DeciderShape, Genuine, RequiresApproval,
         DevTypeOK
<1>4. \A k \in Calls : CallShape(k)'
  BY DEF RecordDecision, DeciderGoto, MarkRejected, RecordCommit, UpdateEffect, Refused,
         Conflict, LiveEffects, CallShape, DeciderShape, DevTypeOK, RowShape,
         RequiresApproval, Waiting
<1>5. \A q \in Deciders : DeciderShape(q)'
  BY DEF RecordDecision, DeciderGoto, MarkRejected, RecordCommit, UpdateEffect, Refused,
         Conflict, LiveEffects, DeciderShape, CallShape, DevTypeOK, RowShape
<1>6. OneLiveRow'
  BY DEF RecordDecision, DeciderGoto, MarkRejected, RecordCommit, UpdateEffect, Refused,
         Conflict, LiveEffects, OneLiveRow, DevTypeOK, Live
<1>7. ReturnsGenuine'
  BY DEF RecordDecision, DeciderGoto, MarkRejected, RecordCommit, UpdateEffect, Refused,
         Conflict, LiveEffects, ReturnsGenuine, Genuine, DevTypeOK, RowShape, CallShape,
         Waiting
<1>8. HeldUntilDecided'
  BY DEF RecordDecision, DeciderGoto, MarkRejected, RecordCommit, UpdateEffect, Refused,
         Conflict, LiveEffects, HeldUntilDecided, Decided, DevTypeOK, RowShape, CallShape,
         DeciderShape, Waiting, RequiresApproval
<1>9. DecisionLands'
  <2> SUFFICES ASSUME ~autoSeen', NEW e \in Calls
               PROVE  /\ approval'[e] = "pending" => status'[e] = "awaiting_approval"
                      /\ status'[e] = "awaiting_approval" =>
                            \/ approval'[e] = "pending"
                            \/ \E q \in Deciders : /\ decider'[q].effect = e
                                                   /\ decider'[q].decision = approval'[e]
                                                   /\ decider'[q].at \in {"record", "lost"}
    BY DEF DecisionLands
  <2> DEFINE f == decider[d].effect
  <2>1. ~autoSeen /\ f \in Calls /\ decider[d].at = "record"
    BY Zenon DEF RecordDecision, DeciderGoto, DeciderShape, DevTypeOK
  <2>2. approval' = approval
    BY Zenon DEF RecordDecision, MarkRejected, RecordCommit, UpdateEffect
  <2>3. \A q \in Deciders \ {d} : decider'[q] = decider[q]
    BY Zenon DEF RecordDecision, DeciderGoto, DevTypeOK
  <2>4. decider'[d].effect = f /\ decider'[d].decision = decider[d].decision
    BY DEF RecordDecision, DeciderGoto, DevTypeOK
  <2>5. \A g \in Calls \ {f} : status'[g] = status[g]
    BY <2>1, Zenon DEF RecordDecision, MarkRejected, RecordCommit, UpdateEffect, DevTypeOK
  <2>6. \/ status'[f] \in {"rejected", "committed"}
        \/ status'[f] = status[f] /\ decider'[d].at = "lost"
    BY <2>1 DEF RecordDecision, MarkRejected, RecordCommit, UpdateEffect, DeciderGoto, DevTypeOK
  <2>7. approval[f] # "pending"
    BY <2>1, Zenon DEF DeciderShape, DevTypeOK
  <2> QED BY <2>1, <2>2, <2>3, <2>4, <2>5, <2>6, <2>7, SMTT(60) DEF DecisionLands
<1>10. OneDecision'
  BY DEF RecordDecision, DeciderGoto, MarkRejected, RecordCommit, UpdateEffect, Refused,
         Conflict, LiveEffects, OneDecision, DevTypeOK, DeciderShape
<1> QED BY <1>1, <1>2, <1>3, <1>4, <1>5, <1>6, <1>7, <1>8, <1>9, <1>10

\* The server is stopped and started.
LEMMA RestartInv ==
    ASSUME DevInv, Restart, UNCHANGED ran
    PROVE  DevInv'
<1> USE Constants DEF DevInv, journal, server
<1>1. DevTypeOK'
  BY DEF Restart, NoDecision, DevTypeOK, Statuses, Live, ApprovalStatuses, CallStates,
         HandlerSteps, DeciderSteps
<1>2. auto' => autoSeen'
  BY Zenon DEF Restart
<1>3. \A e \in Calls : RowShape(e)'
  BY Zenon DEF Restart, RowShape, Genuine, DevTypeOK
<1>4. \A k \in Calls : CallShape(k)'
  BY Zenon DEF Restart, NoDecision, CallShape, DeciderShape, DevTypeOK, RowShape,
               RequiresApproval, Waiting
<1>5. \A q \in Deciders : DeciderShape(q)'
  BY DEF Restart, NoDecision, DeciderShape, CallShape, DevTypeOK, RowShape
<1>6. OneLiveRow'
  BY Zenon DEF Restart, OneLiveRow
<1>7. ReturnsGenuine'
  BY DEF Restart, NoDecision, ReturnsGenuine, Genuine, DevTypeOK, RowShape, CallShape, Waiting
<1>8. HeldUntilDecided'
  BY Zenon DEF Restart, NoDecision, HeldUntilDecided, Decided, DevTypeOK, RowShape,
               CallShape, DeciderShape, Waiting, RequiresApproval
<1>9. DecisionLands'
  BY DEF Restart, NoDecision, DecisionLands, DevTypeOK, RowShape, CallShape, DeciderShape
<1>10. OneDecision'
  BY DEF Restart, NoDecision, OneDecision, DevTypeOK, DeciderShape
<1> QED BY <1>1, <1>2, <1>3, <1>4, <1>5, <1>6, <1>7, <1>8, <1>9, <1>10, Zenon

\* A tool completes.
LEMMA RunInv ==
    ASSUME DevInv, NEW c \in Calls, RunTool(c)
    PROVE  DevInv'
<1> USE Constants DEF DevInv, journal, server
<1>1. DevTypeOK'
  BY DEF RunTool, SendRequest, DevTypeOK, Statuses, Live, ApprovalStatuses, CallStates,
         HandlerSteps, DeciderSteps
<1>2. auto' => autoSeen'
  BY Zenon DEF RunTool, SendRequest
<1>3. \A e \in Calls : RowShape(e)'
  BY Zenon DEF RunTool, SendRequest, RowShape, Genuine
<1>4. \A k \in Calls : CallShape(k)'
  BY SMTT(60) DEF RunTool, SendRequest, CallShape, DeciderShape, DevTypeOK, RowShape,
                  RequiresApproval, Waiting
<1>5. \A q \in Deciders : DeciderShape(q)'
  BY Zenon DEF RunTool, SendRequest, DeciderShape
<1>6. OneLiveRow'
  BY Zenon DEF RunTool, SendRequest, OneLiveRow
<1>7. ReturnsGenuine'
  BY SMTT(60) DEF RunTool, SendRequest, ReturnsGenuine, Genuine, DevTypeOK, RowShape,
                  CallShape, Waiting
<1>8. HeldUntilDecided'
  BY SMTT(60) DEF RunTool, SendRequest, HeldUntilDecided, Decided, DevTypeOK, RowShape,
                  CallShape, DeciderShape, Waiting, RequiresApproval
<1>9. DecisionLands'
  BY SMTT(60) DEF RunTool, SendRequest, DecisionLands, DevTypeOK, RowShape, CallShape,
                  DeciderShape
<1>10. OneDecision'
  BY Zenon DEF RunTool, SendRequest, OneDecision
<1> QED BY <1>1, <1>2, <1>3, <1>4, <1>5, <1>6, <1>7, <1>8, <1>9, <1>10, Zenon

\* Every step preserves the invariant.
LEMMA DevNextInv == DevInv /\ [Next]_vars => DevInv'
<1> SUFFICES ASSUME DevInv, [Next]_vars PROVE DevInv'
  OBVIOUS
<1>1. ASSUME NEW c \in Calls, CallStep(c) PROVE DevInv'
  BY <1>1, FindInv, RefindInv, PendingInv, AutoCreateInv, AutoResolveInv, CreateInv,
     GrantInv, CommitInv, FailInv, Zenon
     DEF CallStep, HandlerStep
<1>2. ASSUME NEW c \in Calls, Intercept(c) \/ ToolStep(c) \/ RequestTimeout(c) PROVE DevInv'
  BY <1>2, InterceptInv, RunInv, RaiseInv, TimeoutInv, Zenon DEF ToolStep
<1>3. ASSUME NEW d \in Deciders, DecisionStep(d) PROVE DevInv'
  BY <1>3, GetInv, DecideInv, RecordInv, Zenon DEF DecisionStep, DeciderStep
<1>4. CASE Restart /\ UNCHANGED ran
  BY <1>4, RestartInv, Zenon
<1>5. CASE UNCHANGED vars
  <2>1. DevTypeOK' /\ (\A c \in Calls : CallShape(c)') /\ ReturnsGenuine' /\ HeldUntilDecided'
    BY <1>5, SMTT(60) DEF vars, journal, server, DevInv, DevTypeOK, CallShape,
                          RequiresApproval, ReturnsGenuine,
                HeldUntilDecided, Decided
  <2> QED BY <1>5, <2>1, QuietFrame DEF vars, DevInv
<1> QED BY <1>1, <1>2, <1>3, <1>4, <1>5, Zenon DEF Next

(***************************************************************************)
(* The inductive invariant holds throughout.                               *)
(***************************************************************************)
THEOREM DevInvariance == Spec => []DevInv
<1> QED BY DevInitInv, DevNextInv, PTL DEF Spec

(* However commits, failures, refusals and new calls interleave, the journal
   holds one live row per signature. *)
THEOREM DevOneRow == Spec => []OneLiveRow
<1>1. DevInv => OneLiveRow
  BY Zenon DEF DevInv
<1> QED BY <1>1, DevInvariance, PTL

(* A call returns the output of a completed run of its own step, or the mock
   of an approved request of that step. *)
THEOREM DevGenuine == Spec => []ReturnsGenuine
<1>1. DevInv => ReturnsGenuine
  BY Zenon DEF DevInv
<1> QED BY <1>1, DevInvariance, PTL

(* Without --auto-approve a tool named irreversible begins only after a
   request of its step was decided. *)
THEOREM DevHeld == Spec => []HeldUntilDecided
<1>1. DevInv => HeldUntilDecided
  BY Zenon DEF DevInv
<1> QED BY <1>1, DevInvariance, PTL

(* A decision reaches its effect, or its handler died on the way. *)
THEOREM DevLands == Spec => []DecisionLands
<1>1. DevInv => DecisionLands
  BY Zenon DEF DevInv
<1> QED BY <1>1, DevInvariance, PTL

(* Of two decisions of one request at most one is carried out. *)
THEOREM DevDecides == Spec => []OneDecision
<1>1. DevInv => OneDecision
  BY Zenon DEF DevInv
<1> QED BY <1>1, DevInvariance, PTL

\* A handler answers its own call only.
LEMMA OwnCall ==
    ASSUME DevTypeOK, NEW c \in Calls, HandlerStep(c), NEW k \in Calls, k # c
    PROVE  pc'[k] = pc[k]
<1>1. ASSUME NEW o, NEW e, NEW r, Answer(c, o, e, r) PROVE pc'[k] = pc[k]
  BY <1>1, Zenon DEF Answer, DevTypeOK
<1>2. ASSUME NEW s, NEW e, Goto(c, s, e) PROVE pc'[k] = pc[k]
  BY <1>2, Zenon DEF Goto
<1>3. ASSUME Hangup(c) PROVE pc'[k] = pc[k]
  BY <1>3, Zenon DEF Hangup, DevTypeOK
<1>4. CASE FindLiveEffect(c) \/ FindAfterConflict(c)
  BY <1>1, <1>2, <1>4, Zenon DEF FindLiveEffect, FindAfterConflict, RespondForLiveEffect,
                                 Execute, Replay, Await
<1>5. CASE CreateAutoApproved(c) \/ ResolveAutoApproved(c) \/ CreateCall(c)
  BY <1>1, <1>2, <1>5, Zenon DEF CreateAutoApproved, ResolveAutoApproved, CreateCall,
                                 Execute, Await
<1>6. CASE FindPendingApproval(c) \/ GrantPendingApproval(c)
  BY <1>1, <1>2, <1>6, Zenon DEF FindPendingApproval, GrantPendingApproval, Execute, Await
<1>7. CASE CommitEffect(c) \/ FailEffect(c)
  BY <1>1, <1>3, <1>7, Zenon DEF CommitEffect, FailEffect
<1> QED BY <1>4, <1>5, <1>6, <1>7, Zenon DEF HandlerStep

(* A journalled step is not run again: an ungated call is told to run only
   while no committed row holds its signature. *)
THEOREM DevNotRerun == Spec => RecordedNotRerun
<1> DEFINE NotRerun ==
      \A c \in Calls :
          pc[c] = "wait" /\ pc'[c] = "run" /\ ~RequiresApproval(c)
          => \A e \in LiveEffects(SigOf[c]) : status[e] # "committed"
<1>1. DevInv /\ [Next]_vars => [NotRerun]_vars
  <2> SUFFICES ASSUME DevInv, Next, NEW k \in Calls,
                      pc[k] = "wait", pc'[k] = "run", ~RequiresApproval(k)
               PROVE  \A e \in LiveEffects(SigOf[k]) : status[e] # "committed"
    OBVIOUS
  <2> USE Constants DEF DevInv, DevTypeOK, LiveEffects
  <2>1. ASSUME NEW c \in Calls, CallStep(c)
        PROVE  FindLiveEffect(k) \/ FindAfterConflict(k) \/ CreateCall(k)
    <3>1. c = k
      BY <2>1, OwnCall, Zenon DEF CallStep
    <3>2. ~CreateAutoApproved(k) /\ ~ResolveAutoApproved(k)
      BY Zenon DEF CreateAutoApproved, ResolveAutoApproved, CallShape
    <3>3. ~FindPendingApproval(k) /\ ~GrantPendingApproval(k)
      <4> SUFFICES ASSUME th[k] \in {"pending", "grant"} PROVE FALSE
        BY Zenon DEF FindPendingApproval, GrantPendingApproval
      <4>0. CallShape(k) /\ eff[k] \in Calls \cup {None}
        BY Zenon
      <4>1. eff[k] \in Calls /\ SigOf[eff[k]] = SigOf[k] /\ approval[eff[k]] # "none"
        BY <4>0, Zenon DEF CallShape
      <4> QED BY <4>1, Zenon DEF RowShape, RequiresApproval
    <3>4. ~CommitEffect(k) /\ ~FailEffect(k)
      BY Zenon DEF CommitEffect, FailEffect, Answer, Hangup
    <3> QED BY <2>1, <3>1, <3>2, <3>3, <3>4, Zenon DEF CallStep, HandlerStep
  <2>2. CASE FindLiveEffect(k) \/ FindAfterConflict(k)
    <3>1. CASE LiveEffects(SigOf[k]) = {}
      BY <3>1, Zenon
    <3>2. ASSUME NEW e \in LiveEffects(SigOf[k]), RespondForLiveEffect(k, e)
          PROVE  status[e] # "committed"
      BY <3>2 DEF RespondForLiveEffect, Execute, Replay, Answer, Goto
    <3>3. ASSUME NEW e \in LiveEffects(SigOf[k]), NEW f \in LiveEffects(SigOf[k])
          PROVE  e = f
      BY Zenon DEF OneLiveRow
    <3> QED BY <2>2, <3>1, <3>2, <3>3, Zenon DEF FindLiveEffect, FindAfterConflict
  <2>3. CASE CreateCall(k)
    BY <2>3, Zenon DEF CreateCall, Conflict, CallShape, Goto
  <2>4. ASSUME NEW c \in Calls, Intercept(c) \/ ToolStep(c) \/ RequestTimeout(c) PROVE FALSE
    BY <2>4, Zenon DEF Intercept, ToolStep, RunTool, ToolRaises, RequestTimeout,
                       SendRequest
  <2>5. ASSUME NEW d \in Deciders, DecisionStep(d) PROVE FALSE
    BY <2>5, Zenon DEF DecisionStep, DeciderStep, GetApproval, DecideApproval,
                       RecordDecision, DeciderGoto, DeciderEnds
  <2>6. ~Restart /\ pc' # pc
    BY DEF Restart
  <2> QED BY <2>1, <2>2, <2>3, <2>4, <2>5, <2>6, Zenon DEF Next, vars
<1> QED BY <1>1, DevInvariance, PTL DEF Spec, RecordedNotRerun
=============================================================================
