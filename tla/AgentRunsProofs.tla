-------------------------- MODULE AgentRunsProofs --------------------------
(***************************************************************************)
(* Proofs about the agent runs: no tool runs outside the journal, a        *)
(* suspended caller reads its own session, and the retry recipe of the     *)
(* guides replays what completed, for any number of turns, any plans and   *)
(* any tools.                                                              *)
(***************************************************************************)
EXTENDS AgentRuns, FiniteSetTheorems, TLAPS

-----------------------------------------------------------------------------
(* Steps                                                                   *)

LEMMA PlanTypes ==
    ASSUME NEW t \in Turns
    PROVE  /\ Len(Plan[t]) \in Nat /\ DOMAIN Plan[t] = 1..Len(Plan[t])
           /\ \A i \in DOMAIN Plan[t] : Plan[t][i] \in Tools
<1>1. Plan[t] \in Seq(Tools)
  BY AgentAssumption
<1> QED BY <1>1

LEMMA FiniteSteps ==
    ASSUME NEW t \in Turns, NEW n \in Nat
    PROVE  IsFiniteSet(Journalled(t, n)) /\ Cardinality(Journalled(t, n)) \in Nat
<1>1. IsFiniteSet(1..n)
  BY FS_Interval
<1>2. Journalled(t, n) \subseteq 1..n
  BY Zenon DEF Journalled
<1> QED BY <1>1, <1>2, FS_Subset, FS_CardinalityType, Zenon

\* Before its first call a turn is at the step it started from.
LEMMA NoSteps ==
    ASSUME AgentTypeOK, NEW t \in Turns
    PROVE  StepAfter(t, 0) = origin[t]
<1>1. Journalled(t, 0) = {}
  BY DEF Journalled
<1>2. Cardinality(Journalled(t, 0)) = 0
  BY <1>1, FS_EmptySet, Zenon
<1>3. origin[t] \in Nat
  BY Zenon DEF AgentTypeOK
<1> QED BY <1>2, <1>3 DEF StepAfter

\* A safe call takes no step, any other takes one.
LEMMA SafeStep ==
    ASSUME AgentTypeOK, NEW t \in Turns, NEW p \in Nat \ {0}, held[Plan[t][p]] = "safe"
    PROVE  StepAfter(t, p) = StepAfter(t, p - 1)
<1>1. \A i : i \in 1..p <=> i \in 1..(p - 1) \/ i = p
  OBVIOUS
<1>2. Journalled(t, p) = Journalled(t, p - 1)
  BY <1>1, Zenon DEF Journalled
<1> QED BY <1>2, Zenon DEF StepAfter

LEMMA CountedCall ==
    ASSUME AgentTypeOK, NEW t \in Turns, NEW p \in Nat \ {0}, held[Plan[t][p]] # "safe"
    PROVE  StepAfter(t, p) = StepAfter(t, p - 1) + 1
<1>1. /\ \A i : i \in 1..p <=> i \in 1..(p - 1) \/ i = p
      /\ p \notin 1..(p - 1) /\ p - 1 \in Nat
  OBVIOUS
<1>2. Journalled(t, p) = Journalled(t, p - 1) \cup {p} /\ p \notin Journalled(t, p - 1)
  BY <1>1, Zenon DEF Journalled
<1>3. IsFiniteSet(Journalled(t, p - 1)) /\ Cardinality(Journalled(t, p - 1)) \in Nat
  BY <1>1, FiniteSteps, Zenon
<1>4. Cardinality(Journalled(t, p)) = Cardinality(Journalled(t, p - 1)) + 1
  BY <1>2, <1>3, FS_AddElement, Zenon
<1>5. origin[t] \in Nat
  BY Zenon DEF AgentTypeOK
<1> QED BY <1>3, <1>4, <1>5 DEF StepAfter

\* Once a turn's tools are wrapped the count does not change.
LEMMA SameCount ==
    ASSUME NEW t \in Turns, NEW n \in Nat, n <= Len(Plan[t]), origin'[t] = origin[t],
           \A i \in DOMAIN Plan[t] : held'[Plan[t][i]] = held[Plan[t][i]]
    PROVE  StepAfter(t, n)' = StepAfter(t, n)
<1>1. 1..n \subseteq DOMAIN Plan[t]
  BY PlanTypes
<1>2. Journalled(t, n)' = Journalled(t, n)
  BY <1>1, Zenon DEF Journalled
<1> QED BY <1>2, Zenon DEF StepAfter

-----------------------------------------------------------------------------
(* What a step may do to the turns it is not about                         *)

\* Instrumented tools stay as they are, no tool of a plan is lost.
HeldKept ==
    /\ held' \in [Tools -> Tiers \cup {"out", "raw"}]
    /\ \A k \in Tools : held[k] \in Tiers => held'[k] = held[k]
    /\ \A t \in Turns : \A i \in DOMAIN Plan[t] : held'[Plan[t][i]] # "out"

TurnKept(t) ==
    /\ run'[t] = run[t] /\ resume'[t] = resume[t]
    /\ count'[t] = count[t] /\ origin'[t] = origin[t]
    /\ \A i \in DOMAIN Plan[t] : <<t, i>> \in completed' <=> <<t, i>> \in completed

Onward ==
    kind' = kind /\ overlapped \subseteq overlapped' /\ recorded \subseteq recorded' /\ HeldKept

LEMMA KeptTurn ==
    ASSUME AgentInv, Onward, NEW t \in Turns, TurnKept(t)
    PROVE  Invoked(t)' /\ SameSteps(t)' /\ Remembered(t)'
<1>0. AgentTypeOK /\ Invoked(t) /\ SameSteps(t) /\ Remembered(t)
  BY Zenon DEF AgentInv
<1>1. \A i \in DOMAIN Plan[t] : Plan[t][i] \in Tools
  BY PlanTypes, Zenon
<1>2. /\ run'[t] = run[t] /\ resume'[t] = resume[t]
      /\ count'[t] = count[t] /\ origin'[t] = origin[t] /\ kind' = kind
      /\ \A i \in DOMAIN Plan[t] : <<t, i>> \in completed' <=> <<t, i>> \in completed
  BY Zenon DEF TurnKept, Onward
<1>3. \A i \in DOMAIN Plan[t] :
        /\ held'[Plan[t][i]] # "out"
        /\ held[Plan[t][i]] \in Tiers => held'[Plan[t][i]] = held[Plan[t][i]]
  BY <1>1, Zenon DEF Onward, HeldKept
<1>4. Invoked(t)'
  BY <1>0, <1>2, <1>3, Zenon DEF Invoked, CallsLeft
<1>5. Follows(t)' => Follows(t)
  BY <1>2, Zenon DEF Follows, Onward
<1>6. CASE count[t] = 0
  <2>1. run'[t].at = "idle" /\ \A i \in DOMAIN Plan[t] : <<t, i>> \notin completed'
    BY <1>0, <1>2, <1>6, Zenon DEF Invoked
  <2>2. ~(count'[t] > 0)
    BY <1>2, <1>6
  <2> QED BY <1>4, <2>1, <2>2, Zenon DEF SameSteps, Remembered
<1>7. CASE count[t] > 0
  <2>1. \A i \in DOMAIN Plan[t] : held'[Plan[t][i]] = held[Plan[t][i]]
    BY <1>0, <1>3, <1>7, Zenon DEF Invoked
  <2>2. /\ run[t].pos \in Nat /\ run[t].pos - 1 \in Nat /\ run[t].pos - 1 <= Len(Plan[t])
        /\ run[t].at = "tool" => run[t].pos <= Len(Plan[t])
    <3>1. run[t].pos \in Nat \ {0}
      BY <1>0 DEF AgentTypeOK, Invocations
    <3>2. /\ run[t].pos <= Len(Plan[t]) + 1
          /\ run[t].at = "tool" => run[t].pos <= Len(Plan[t])
      BY <1>0, Zenon DEF Invoked, CallsLeft
    <3> QED BY <3>1, <3>2, PlanTypes
  <2>3. StepAfter(t, run[t].pos - 1)' = StepAfter(t, run[t].pos - 1)
    BY <1>2, <2>1, <2>2, SameCount, Zenon DEF StepAfter, Journalled
  <2>4. run[t].at = "tool" => StepAfter(t, run[t].pos)' = StepAfter(t, run[t].pos)
    BY <1>2, <2>1, <2>2, SameCount, Zenon DEF StepAfter, Journalled
  <2>5. \A i \in DOMAIN Plan[t] : StepAfter(t, i)' = StepAfter(t, i)
    <3>1. \A i \in DOMAIN Plan[t] : i \in Nat /\ i <= Len(Plan[t])
      BY PlanTypes
    <3> QED BY <1>2, <2>1, <3>1, SameCount, Zenon
  <2>6. SameSteps(t)'
    BY <1>0, <1>2, <1>5, <2>3, <2>4, Zenon DEF SameSteps
  <2>7. Remembered(t)'
    <3>1. \A i \in DOMAIN Plan[t] : Follows(t)' /\ <<t, i>> \in completed' =>
             <<run'[t].session, StepAfter(t, i)', Plan[t][i]>> \in recorded'
      BY <1>0, <1>2, <1>5, <2>5, Zenon DEF Remembered, Onward
    <3>2. run[t].at = "tool" => run[t].pos \in DOMAIN Plan[t]
      BY <1>0, <2>2, PlanTypes DEF AgentTypeOK, Invocations
    <3> QED BY <1>0, <1>2, <1>5, <3>1, <3>2, Zenon DEF Remembered
  <2> QED BY <1>4, <2>6, <2>7, Zenon
<1>8. count[t] \in Nat
  BY <1>0, Zenon DEF AgentTypeOK
<1>9. count[t] = 0 \/ count[t] > 0
  BY <1>8
<1> QED BY <1>6, <1>7, <1>9, Zenon

\* A call that was run again stays explained.
LEMMA StillExplained ==
    ASSUME AgentInv, kind' = kind, overlapped \subseteq overlapped',
           \A t \in Turns : count[t] > 0 => origin'[t] = origin[t],
           \A call \in again' : call \in again \/ (call[1] \in Turns /\ ~Follows(call[1])
                                                    /\ count[call[1]] > 0)
    PROVE  RetryReplays'
<1> SUFFICES ASSUME NEW call \in again'
             PROVE  kind' # "graph" /\ (origin'[call[1]] # 0 \/ call[1] \in overlapped')
  BY Zenon DEF RetryReplays
<1>1. CASE call \in again
  <2>1. call[1] \in Turns
    BY <1>1 DEF AgentInv, AgentTypeOK
  <2>2. count[call[1]] \in Nat /\ (count[call[1]] = 0 => origin[call[1]] = 0)
    BY <2>1, Zenon DEF AgentInv, AgentTypeOK, Invoked
  <2>3. count[call[1]] = 0 \/ count[call[1]] > 0
    BY <2>2
  <2> QED BY <1>1, <2>1, <2>2, <2>3, Zenon DEF AgentInv, RetryReplays
<1>2. CASE call[1] \in Turns /\ ~Follows(call[1]) /\ count[call[1]] > 0
  BY <1>2, Zenon DEF Follows
<1> QED BY <1>1, <1>2, Zenon

-----------------------------------------------------------------------------
(* Instrumentation                                                         *)

LEMMA PlansHeld ==
    ASSUME AgentInv
    PROVE  \A t \in Turns : \A i \in DOMAIN Plan[t] : held[Plan[t][i]] # "out"
BY Zenon DEF AgentInv, Invoked

LEMMA UnchangedHeld ==
    ASSUME AgentInv, UNCHANGED held
    PROVE  HeldKept /\ \A k \in Tools : held'[k] = held[k]
<1>1. held \in [Tools -> Tiers \cup {"out", "raw"}]
  BY Zenon DEF AgentInv, AgentTypeOK
<1> QED BY <1>1, PlansHeld, Zenon DEF HeldKept

LEMMA BindKeeps ==
    ASSUME AgentInv, NEW ks, NEW tiers \in [Tools -> Tiers], Bind(ks, tiers)
    PROVE  /\ HeldKept
           /\ \A k \in Tools : /\ held'[k] = "raw" => held[k] = "raw"
                               /\ k \in ks => held'[k] \in Tiers
<1>1. held \in [Tools -> Tiers \cup {"out", "raw"}]
  BY Zenon DEF AgentInv, AgentTypeOK
<1>2. held' = [k \in Tools |-> IF k \in ks /\ held[k] \notin Tiers THEN tiers[k] ELSE held[k]]
  BY Zenon DEF Bind, IsInstrumented
<1>3. \A k \in Tools :
        /\ held'[k] = IF k \in ks /\ held[k] \notin Tiers THEN tiers[k] ELSE held[k]
        /\ tiers[k] \in Tiers
  BY <1>2, Zenon
<1>4. "raw" \notin Tiers /\ "out" \notin Tiers
  BY DEF Tiers
<1>5. \A k \in Tools : held'[k] \in Tiers \/ held'[k] = held[k]
  BY <1>3, Zenon
<1>6. held' \in [Tools -> Tiers \cup {"out", "raw"}]
  <2>1. \A k \in Tools : held'[k] \in Tiers \cup {"out", "raw"}
    BY <1>1, <1>5, Zenon
  <2> QED BY <1>2, <2>1
<1>7. \A t \in Turns : \A i \in DOMAIN Plan[t] : held'[Plan[t][i]] # "out"
  BY <1>4, <1>5, PlansHeld, PlanTypes, Zenon
<1>8. \A k \in Tools : held[k] \in Tiers => held'[k] = held[k]
  BY <1>3, Zenon
<1>9. \A k \in Tools : k \in ks => held'[k] \in Tiers
  BY <1>3, Zenon
<1> QED BY <1>4, <1>5, <1>6, <1>7, <1>8, <1>9, Zenon DEF HeldKept

LEMMA TiersOfTools ==
    /\ [k \in Tools |-> GraphTier(k)] \in [Tools -> Tiers]
    /\ [k \in Tools |-> GraphClassifyTool(k)] \in [Tools -> Tiers]
    /\ [k \in Tools |-> CrewTier(k)] \in [Tools -> Tiers]
    /\ [k \in Tools |-> IndexTier(k)] \in [Tools -> Tiers]
    /\ [k \in Tools |-> KernelTier(k)] \in [Tools -> Tiers]
<1>1. \A k \in Tools : /\ Override[k] \in Tiers \cup {"unset"}
                       /\ NameClass[k] \in {"safe", "irreversible", "other"}
  BY AgentAssumption, Zenon
<1>2. \A k \in Tools : GraphTier(k) \in Tiers /\ GraphClassifyTool(k) \in Tiers
  BY <1>1 DEF GraphTier, GraphClassifyTool, Tiers
<1>3. \A k \in Tools : CrewTier(k) \in Tiers
  BY <1>1 DEF CrewTier, CrewClassifyTool, Tiers
<1>4. \A k \in Tools : IndexTier(k) \in Tiers
  BY <1>1 DEF IndexTier, IndexClassifyTool, Tiers
<1>5. \A k \in Tools : KernelTier(k) \in Tiers
  BY <1>1 DEF KernelTier, KernelClassifyTool, Tiers
<1> QED BY <1>2, <1>3, <1>4, <1>5, Zenon

\* All tools instrumented: nothing the framework holds is raw.
Covered == HeldKept /\ \A k \in Tools : held'[k] # "raw"

NoNewRaw == HeldKept /\ \A k \in Tools : held'[k] = "raw" => held[k] = "raw"

LEMMA BindCovers ==
    ASSUME AgentInv, NEW tiers \in [Tools -> Tiers], Bind(HeldTools, tiers)
    PROVE  Covered
<1>1. \A k \in Tools : k \notin HeldTools => held[k] = "out"
  BY Zenon DEF HeldTools
<1>2. "raw" \notin Tiers /\ "raw" # "out"
  BY DEF Tiers
<1> QED BY <1>1, <1>2, BindKeeps, Zenon DEF Covered

\* The crew and the index wrap every tool or none; so does the kernel when
\* every plugin is accepted, and no tool is unwrapped when one is not.
LEMMA CrewPrepares ==
    ASSUME AgentInv, PrepareAgents
    PROVE  /\ CrewAccepts => Covered
           /\ ~CrewAccepts => UNCHANGED held
BY TiersOfTools, BindCovers, Zenon DEF PrepareAgents

LEMMA IndexPrepares ==
    ASSUME AgentInv, PrepareIndex
    PROVE  /\ IndexAccepts => Covered
           /\ ~IndexAccepts => UNCHANGED held
BY TiersOfTools, BindCovers, Zenon DEF PrepareIndex

LEMMA KernelPrepares ==
    ASSUME AgentInv, PreparePlugins
    PROVE  NoNewRaw /\ (KernelAccepts => Covered)
<1> DEFINE bound == UNION {FunctionsOf(p) : p \in {q \in Plugins : \A r \in 1..q : Binds(r)}}
<1>1. Bind(bound, [k \in Tools |-> KernelTier(k)])
  BY Zenon DEF PreparePlugins
<1>2. ASSUME KernelAccepts PROVE HeldTools \subseteq bound
  <2> SUFFICES ASSUME NEW k \in HeldTools PROVE k \in bound
    OBVIOUS
  <2>1. k \in Tools /\ PluginOf[k] \in Plugins
    BY KernelAssumption, Zenon DEF HeldTools
  <2>2. \A r \in 1..PluginOf[k] : Binds(r)
    BY <1>2, <2>1, KernelAssumption, Zenon DEF KernelAccepts
  <2>3. k \in FunctionsOf(PluginOf[k])
    BY Zenon DEF FunctionsOf
  <2> QED BY <2>1, <2>2, <2>3, Zenon
<1> HIDE DEF bound
<1>3. /\ HeldKept
      /\ \A k \in Tools : /\ held'[k] = "raw" => held[k] = "raw"
                          /\ k \in bound => held'[k] \in Tiers
  BY <1>1, TiersOfTools, BindKeeps, Zenon
<1>4. "raw" \notin Tiers /\ "raw" # "out"
  BY DEF Tiers
<1>5. \A k \in Tools : k \notin HeldTools => held[k] = "out"
  BY Zenon DEF HeldTools
<1> QED BY <1>2, <1>3, <1>4, <1>5, Zenon DEF Covered, NoNewRaw

-----------------------------------------------------------------------------
(* Steps that only change the tools                                        *)

LEMMA HeldStep ==
    ASSUME AgentInv, HeldKept, UNCHANGED <<kind, runs, log>>,
           \A t \in Turns : Active(t) => \A k \in Tools : held'[k] = "raw" => held[k] = "raw"
    PROVE  AgentInv'
<1>0. /\ AgentTypeOK /\ Sealed /\ NothingBypassed /\ FacadeIsMine /\ HandlerReads
  BY Zenon DEF AgentInv
<1>1. /\ UNCHANGED <<facade, run, resume, count, origin, overlapped>>
      /\ UNCHANGED <<kind, recorded, completed, again, bypassed>>
  BY Zenon DEF runs, log
<1>2. AgentTypeOK'
  BY <1>0, <1>1, Zenon DEF AgentTypeOK, HeldKept
<1>3. Sealed'
  BY <1>0, <1>1, Zenon DEF Sealed, Active
<1>4. NothingBypassed' /\ FacadeIsMine' /\ HandlerReads'
  BY <1>0, <1>1, Zenon DEF NothingBypassed, FacadeIsMine, HandlerReads, Active
<1>5. \A t \in Turns : Invoked(t)' /\ SameSteps(t)' /\ Remembered(t)'
  <2>1. Onward /\ \A t \in Turns : TurnKept(t)
    BY <1>1, Zenon DEF Onward, TurnKept
  <2> QED BY <2>1, KeptTurn, Zenon
<1>6. RetryReplays'
  BY <1>1, StillExplained, Zenon
<1> QED BY <1>2, <1>3, <1>4, <1>5, <1>6, Zenon DEF AgentInv

LEMMA GraphWrapStep ==
    ASSUME AgentInv, GraphWrapTools
    PROVE  AgentInv'
<1>1. HeldKept /\ \A k \in Tools : held'[k] = "raw" => held[k] = "raw"
  BY BindKeeps, TiersOfTools, Zenon DEF GraphWrapTools
<1>2. UNCHANGED <<kind, runs, log>>
  BY Zenon DEF GraphWrapTools
<1> QED BY <1>1, <1>2, HeldStep, Zenon

LEMMA WrapKernelStep ==
    ASSUME AgentInv, WrapKernel
    PROVE  AgentInv'
<1>1. PreparePlugins /\ UNCHANGED <<kind, runs, log>>
  BY Zenon DEF WrapKernel
<1> QED BY <1>1, KernelPrepares, HeldStep, Zenon DEF NoNewRaw

LEMMA AddFunctionsStep ==
    ASSUME AgentInv, NEW ks \in SUBSET (Tools \ HeldTools), AddFunctions(ks)
    PROVE  AgentInv'
<1>0. held \in [Tools -> Tiers \cup {"out", "raw"}]
  BY Zenon DEF AgentInv, AgentTypeOK
<1>1. /\ held' = [k \in Tools |-> IF k \in ks THEN KernelTier(k) ELSE held[k]]
      /\ \A k \in ks : held[k] = "out"
      /\ UNCHANGED <<kind, runs, log>>
  BY Zenon DEF AddFunctions
<1>2. "raw" \notin Tiers /\ "out" \notin Tiers
  BY DEF Tiers
<1>3. \A k \in Tools : KernelTier(k) \in Tiers
  BY TiersOfTools
<1>4. \A k \in Tools : held'[k] = IF k \in ks THEN KernelTier(k) ELSE held[k]
  BY <1>1, Zenon
<1>5. \A k \in Tools : \/ k \in ks /\ held[k] = "out" /\ held'[k] \in Tiers
                       \/ k \notin ks /\ held'[k] = held[k]
  BY <1>1, <1>3, <1>4, Zenon
<1>6. held' \in [Tools -> Tiers \cup {"out", "raw"}]
  <2>1. \A k \in Tools : held'[k] \in Tiers \cup {"out", "raw"}
    BY <1>0, <1>5, Zenon
  <2> QED BY <1>1, <2>1
<1>7. \A t \in Turns : \A i \in DOMAIN Plan[t] : held'[Plan[t][i]] # "out"
  BY <1>2, <1>5, PlansHeld, PlanTypes, Zenon
<1>8. HeldKept /\ \A k \in Tools : held'[k] = "raw" => held[k] = "raw"
  BY <1>2, <1>5, <1>6, <1>7, Zenon DEF HeldKept
<1> QED BY <1>1, <1>8, HeldStep, Zenon

\* The developer takes out only what no plan calls.
LEMMA ChangeToolsStep ==
    ASSUME AgentInv, ChangeTools
    PROVE  AgentInv'
<1>0. held \in [Tools -> Tiers \cup {"out", "raw"}]
  BY Zenon DEF AgentInv, AgentTypeOK
<1>1. (\A t \in Turns : ~Active(t)) /\ UNCHANGED <<kind, runs, log>>
  BY Zenon DEF ChangeTools
<1>2. PICK k \in Tools :
        \/ held[k] = "out" /\ held' = [held EXCEPT ![k] = "raw"]
        \/ held[k] = "raw" /\ InitiallyHeld(k) = "out" /\ held' = [held EXCEPT ![k] = "out"]
  BY Zenon DEF ChangeTools
<1>3. "raw" \notin Tiers /\ "out" \notin Tiers
  BY DEF Tiers
<1>4. held' \in [Tools -> Tiers \cup {"out", "raw"}]
  BY <1>0, <1>2
<1>5. \A j \in Tools : held[j] \in Tiers => held'[j] = held[j]
  BY <1>0, <1>2, <1>3, Zenon
<1>6. \A t \in Turns : \A i \in DOMAIN Plan[t] : held'[Plan[t][i]] # "out"
  <2> SUFFICES ASSUME NEW t \in Turns, NEW i \in DOMAIN Plan[t]
               PROVE  held'[Plan[t][i]] # "out"
    OBVIOUS
  <2>1. Plan[t][i] \in Tools /\ held[Plan[t][i]] # "out"
    BY PlanTypes, PlansHeld, Zenon
  <2>2. CASE Plan[t][i] # k
    BY <1>0, <1>2, <2>1, <2>2, Zenon
  <2>3. CASE Plan[t][i] = k
    <3>1. InitiallyHeld(k) # "out"
      <4>1. Override[k] \in Tiers \cup {"unset"}
        BY AgentAssumption, Zenon
      <4> QED BY <1>3, <2>3, <4>1 DEF InitiallyHeld
    <3> QED BY <2>1, <2>3, <3>1, <1>2, Zenon
  <2> QED BY <2>2, <2>3, Zenon
<1>7. HeldKept
  BY <1>4, <1>5, <1>6, Zenon DEF HeldKept
<1> QED BY <1>1, <1>7, HeldStep, Zenon

-----------------------------------------------------------------------------
(* A run begins                                                            *)

\* All tools are covered when it does, and a turn that is invoked again finds
\* its session and the step it began with.
LEMMA OpenStep ==
    ASSUME AgentInv, NEW t \in Turns, NEW s \in Sessions, NEW start \in Nat,
           OpenSession(t, s, start), Covered, UNCHANGED <<kind, resume, log>>,
           facade' \in Properties,
           kind # "graph" => facade'.session = s,
           count[t] > 0 /\ Follows(t) => s = run[t].session /\ start = origin[t]
    PROVE  AgentInv'
<1>0. /\ AgentTypeOK /\ Sealed /\ NothingBypassed /\ FacadeIsMine /\ HandlerReads
      /\ Invoked(t) /\ SameSteps(t) /\ Remembered(t)
  BY Zenon DEF AgentInv
<1>1. /\ UNCHANGED <<kind, resume, recorded, completed, again, bypassed>>
      /\ run' = [run EXCEPT ![t] = [at |-> "running", session |-> s, start |-> start,
                                    step |-> start, pos |-> 1]]
      /\ count' = [count EXCEPT ![t] = @ + 1]
      /\ origin' = [origin EXCEPT ![t] = IF count[t] = 0 THEN start ELSE @]
  BY Zenon DEF OpenSession, log
<1>1a. /\ overlapped \subseteq overlapped'
       /\ \A u \in Turns : Active(u) /\ u # t => u \in overlapped'
  <2>1. \E more : overlapped' = overlapped \cup {u \in Turns : Active(u) /\ u # t} \cup more
    BY Zenon DEF OpenSession
  <2> QED BY <2>1, Zenon
<1>2. /\ count[t] \in Nat /\ count'[t] = count[t] + 1
      /\ origin'[t] = (IF count[t] = 0 THEN start ELSE origin[t])
      /\ run'[t] = [at |-> "running", session |-> s, start |-> start, step |-> start, pos |-> 1]
      /\ \A u \in Turns : u # t =>
            run'[u] = run[u] /\ count'[u] = count[u] /\ origin'[u] = origin[u]
  BY <1>0, <1>1, Zenon DEF AgentTypeOK
<1>3. /\ run'[t].at = "running" /\ run'[t].session = s /\ run'[t].start = start
      /\ run'[t].step = start /\ run'[t].pos = 1
  BY <1>2
<1>4. s # NoSession /\ count'[t] \in Nat /\ count'[t] > 0 /\ count'[t] # 0
  BY <1>2, AgentAssumption
<1>5. AgentTypeOK'
  <2>1. count' \in [Turns -> Nat]
    BY <1>0, <1>1, <1>2, <1>4, Zenon DEF AgentTypeOK
  <2>2. origin' \in [Turns -> Nat]
    <3>1. (IF count[t] = 0 THEN start ELSE origin[t]) \in Nat
      BY <1>0, Zenon DEF AgentTypeOK
    <3> QED BY <1>0, <1>1, <3>1, Zenon DEF AgentTypeOK
  <2>3. run' \in [Turns -> Invocations]
    <3>1. [at |-> "running", session |-> s, start |-> start, step |-> start, pos |-> 1]
             \in Invocations
      BY DEF Invocations
    <3> QED BY <1>0, <1>1, <3>1, Zenon DEF AgentTypeOK
  <2> QED BY <1>0, <1>1, <2>1, <2>2, <2>3, Zenon DEF AgentTypeOK, Covered, HeldKept
<1>6. Sealed' /\ NothingBypassed'
  BY <1>0, <1>1, Zenon DEF Covered, Sealed, NothingBypassed
<1>7. FacadeIsMine'
  BY <1>1, <1>1a, <1>2, <1>3, Zenon DEF FacadeIsMine, Active
<1>8. HandlerReads'
  <2>1. /\ resume' = resume /\ run'[t].at # "parked"
        /\ \A u \in Turns : u # t => run'[u] = run[u]
    BY <1>1, <1>2, <1>3, Zenon
  <2> QED BY <1>0, <1>1a, <2>1, Zenon DEF HandlerReads
<1>9. \A u \in Turns : u # t => Invoked(u)' /\ SameSteps(u)' /\ Remembered(u)'
  <2>1. Onward /\ \A u \in Turns : u # t => TurnKept(u)
    BY <1>1, <1>1a, <1>2, Zenon DEF Onward, TurnKept, Covered
  <2> QED BY <2>1, KeptTurn, Zenon
<1>10. \A i \in DOMAIN Plan[t] : /\ held'[Plan[t][i]] \in Tiers
                                 /\ held[Plan[t][i]] \in Tiers => held'[Plan[t][i]] = held[Plan[t][i]]
  <2>1. \A i \in DOMAIN Plan[t] : Plan[t][i] \in Tools
    BY PlanTypes, Zenon
  <2>2. \A k \in Tools : held'[k] \in Tiers \cup {"out", "raw"} /\ held'[k] # "raw"
    BY Zenon DEF Covered, HeldKept
  <2>3. \A i \in DOMAIN Plan[t] :
           /\ held'[Plan[t][i]] # "out"
           /\ held[Plan[t][i]] \in Tiers => held'[Plan[t][i]] = held[Plan[t][i]]
    BY <2>1, Zenon DEF Covered, HeldKept
  <2> QED BY <2>1, <2>2, <2>3, Zenon
<1>11. Invoked(t)'
  <2>1. 1 <= Len(Plan[t]) + 1
    BY PlanTypes
  <2> QED BY <1>3, <1>4, <1>10, <2>1, Zenon DEF Invoked, Tiers
<1>12. count[t] > 0 /\ Follows(t)' => Follows(t)
  <2>1. count[t] > 0 => count[t] # 0
    BY <1>2
  <2> QED BY <1>1, <1>1a, <1>2, <2>1, Zenon DEF Follows
<1>13. SameSteps(t)'
  <2>1. Follows(t)' => start = origin'[t]
    <3>1. count[t] = 0 \/ (count[t] > 0 /\ count[t] # 0)
      BY <1>2
    <3> QED BY <1>2, <1>12, <3>1, Zenon
  <2>2. StepAfter(t, 0)' = origin'[t]
    <3>1. Journalled(t, 0)' = {}
      BY DEF Journalled
    <3>2. Cardinality(Journalled(t, 0)') = 0
      BY <3>1, FS_EmptySet, Zenon
    <3>3. origin'[t] \in Nat
      BY <1>5, Zenon DEF AgentTypeOK
    <3>4. origin'[t] + 0 = origin'[t]
      BY <3>3
    <3> QED BY <3>2, <3>4, Zenon DEF StepAfter
  <2>3. 1 - 1 = 0
    OBVIOUS
  <2> QED BY <1>3, <2>1, <2>2, <2>3, Zenon DEF SameSteps
<1>14. Remembered(t)'
  <2>1. CASE count[t] = 0
    <3>1. \A i \in DOMAIN Plan[t] : <<t, i>> \notin completed'
      BY <1>0, <1>1, <2>1, Zenon DEF Invoked
    <3> QED BY <1>3, <3>1, Zenon DEF Remembered
  <2>2. CASE count[t] > 0
    <3>1. \A i \in DOMAIN Plan[t] : held'[Plan[t][i]] = held[Plan[t][i]]
      BY <1>0, <1>10, <2>2, Zenon DEF Invoked
    <3>2. \A i \in DOMAIN Plan[t] : i \in Nat /\ i <= Len(Plan[t])
      BY PlanTypes
    <3>3. origin'[t] = origin[t]
      BY <1>2, <2>2
    <3>4. \A i \in DOMAIN Plan[t] : StepAfter(t, i)' = StepAfter(t, i)
      BY <3>1, <3>2, <3>3, SameCount, Zenon
    <3>5. Follows(t)' => Follows(t) /\ run'[t].session = run[t].session
      BY <1>3, <1>12, <2>2, Zenon
    <3>6. ASSUME Follows(t)', NEW i \in DOMAIN Plan[t], <<t, i>> \in completed'
          PROVE  <<run'[t].session, StepAfter(t, i)', Plan[t][i]>> \in recorded'
      <4>1. <<run[t].session, StepAfter(t, i), Plan[t][i]>> \in recorded
        BY <1>0, <1>1, <3>5, <3>6, Zenon DEF Remembered
      <4>2. StepAfter(t, i)' = StepAfter(t, i) /\ run'[t].session = run[t].session
        BY <3>4, <3>5, <3>6, Zenon
      <4>3. recorded' = recorded
        BY <1>1, Zenon
      <4> QED BY <4>1, <4>2, <4>3, Zenon
    <3> QED BY <1>3, <3>6, Zenon DEF Remembered
  <2>3. count[t] = 0 \/ count[t] > 0
    BY <1>2
  <2> QED BY <2>1, <2>2, <2>3, Zenon
<1>15. RetryReplays'
  <2>1. \A u \in Turns : count[u] > 0 => origin'[u] = origin[u]
    BY <1>2
  <2> QED BY <1>1, <1>1a, <2>1, StillExplained, Zenon
<1>16. \A u \in Turns : Invoked(u)' /\ SameSteps(u)' /\ Remembered(u)'
  BY <1>9, <1>11, <1>13, <1>14, Zenon
<1> QED BY <1>5, <1>6, <1>7, <1>8, <1>15, <1>16, Zenon DEF AgentInv

\* What the two kinds of keys give a turn that is invoked.
LEMMA SessionTypes ==
    ASSUME AgentInv, NEW t \in Turns, count[t] < MaxInvocations,
           NEW given \in Sessions \cup {NoSession}
    PROVE  SessionFor(t, given) \in Sessions
<1>1. count[t] \in Nat
  BY Zenon DEF AgentInv, AgentTypeOK
<1>2. count[t] + 1 \in 1..MaxInvocations
  BY <1>1, AgentAssumption
<1> QED BY <1>2, Zenon DEF SessionFor, Sessions

\* A retry finds in its keys the session and the step the turn began with.
LEMMA RetryKeys ==
    ASSUME AgentInv, NEW t \in Turns, count[t] > 0, Follows(t),
           run[t].at = "parked" \/ (run[t].at = "raised" /\ kind # "graph")
    PROVE  /\ resume[t].session = run[t].session /\ resume[t].step = origin[t]
           /\ SessionFor(t, resume[t].session) = run[t].session
<1>1. resume[t] = [session |-> run[t].session, step |-> origin[t]]
  BY Zenon DEF AgentInv, SameSteps
<1>2. run[t].session # NoSession
  BY Zenon DEF AgentInv, Invoked
<1>3. resume[t].session = run[t].session /\ resume[t].step = origin[t]
  BY <1>1
<1> QED BY <1>2, <1>3, Zenon DEF SessionFor

LEMMA KeyTypes ==
    ASSUME AgentInv, NEW t \in Turns
    PROVE  /\ \A u \in Turns : resume[u].session \in Sessions \cup {NoSession} /\ resume[u].step \in Nat
           /\ facade.session \in Sessions \cup {NoSession} /\ facade.step \in Nat
           /\ \A keys \in Keys(t) :
                 keys.session \in Sessions \cup {NoSession} /\ keys.step \in Nat
<1>1. \A u \in Turns : resume[u].session \in Sessions \cup {NoSession} /\ resume[u].step \in Nat
  <2>1. \A u \in Turns : resume[u] \in Keyrings
    BY Zenon DEF AgentInv, AgentTypeOK
  <2> QED BY <2>1 DEF Keyrings
<1>2. facade.session \in Sessions \cup {NoSession} /\ facade.step \in Nat
  <2>1. facade \in Properties
    BY Zenon DEF AgentInv, AgentTypeOK
  <2> QED BY <2>1 DEF Properties
<1>3. \A keys \in Keys(t) : \/ keys = resume[t] \/ keys = NoKeys
                            \/ keys = [session |-> facade.session, step |-> facade.step]
  BY Zenon DEF Keys
<1>4. \A keys \in Keys(t) : keys.session \in Sessions \cup {NoSession} /\ keys.step \in Nat
  BY <1>1, <1>2, <1>3 DEF NoKeys
<1> QED BY <1>1, <1>2, <1>4, Zenon

\* An invocation with keys, of any facade that keeps the run on itself.
LEMMA FacadeOpens ==
    ASSUME AgentInv, NEW t \in Turns, NEW s \in Sessions, NEW start \in Nat,
           OpenSession(t, s, start), Covered, UNCHANGED <<kind, resume, log>>,
           facade' = [session |-> s, step |-> start, request |-> FALSE],
           count[t] > 0 /\ Follows(t) => s = run[t].session /\ start = origin[t]
    PROVE  AgentInv'
<1>1. facade' \in Properties /\ facade'.session = s
  BY DEF Properties
<1> QED BY <1>1, OpenStep, Zenon

\* What a refused preparation leaves: no run, and no tool unwrapped.
LEMMA RefusedStep ==
    ASSUME AgentInv, NoNewRaw, UNCHANGED <<facade, run, count, origin, overlapped>>,
           UNCHANGED <<kind, resume, log>>
    PROVE  AgentInv'
<1>1. UNCHANGED <<kind, runs, log>>
  BY Zenon DEF runs
<1> QED BY <1>1, HeldStep, Zenon DEF NoNewRaw

LEMMA KeptIsNoNewRaw ==
    ASSUME AgentInv, UNCHANGED held
    PROVE  NoNewRaw
BY UnchangedHeld, Zenon DEF NoNewRaw

\* The keys of a turn that was invoked before are the ones its caller has.
LEMMA KeysAgain ==
    ASSUME AgentInv, NEW t \in Turns, run[t].at \in {"idle", "parked", "raised"}, count[t] > 0,
           kind # "graph", Follows(t), NEW keys \in Keys(t)
    PROVE  /\ SessionFor(t, keys.session) = run[t].session /\ keys.step = origin[t]
           /\ keys.session # NoSession
<1>1. keys = resume[t]
  BY Zenon DEF Keys
<1>2. run[t].at # "idle" /\ run[t].session # NoSession
  BY Zenon DEF AgentInv, Invoked
<1> QED BY <1>1, <1>2, RetryKeys, Zenon

LEMMA GraphInvokeStep ==
    ASSUME AgentInv, NEW t \in Turns, count[t] < MaxInvocations, kind = "graph",
           run[t].at \in {"idle", "parked"}, GraphAinvoke(t)
    PROVE  AgentInv'
<1>1. /\ \A k \in HeldTools : IsInstrumented(k)
      /\ UNCHANGED <<kind, held, facade, resume, log>>
  BY Zenon DEF GraphAinvoke
<1>2. PICK keys \in {resume[t]} \cup {resume[u] : u \in {v \in Turns : count[t] = 0}} :
         OpenSession(t, SessionFor(t, keys.session), keys.step)
  BY Zenon DEF GraphAinvoke
<1>3. Covered
  <2>1. "raw" \notin Tiers /\ "raw" # "out"
    BY DEF Tiers
  <2>2. \A k \in Tools : held[k] # "raw"
    BY <1>1, <2>1, Zenon DEF HeldTools, IsInstrumented
  <2> QED BY <1>1, <2>2, UnchangedHeld, Zenon DEF Covered
<1>4. /\ \E u \in Turns : keys = resume[u]
      /\ count[t] # 0 => keys = resume[t]
  BY <1>2, Zenon
<1>5. keys.session \in Sessions \cup {NoSession} /\ keys.step \in Nat
  BY <1>4, KeyTypes, Zenon
<1>6. SessionFor(t, keys.session) \in Sessions
  BY <1>5, SessionTypes, Zenon
<1>7. ASSUME count[t] > 0, Follows(t)
      PROVE  SessionFor(t, keys.session) = run[t].session /\ keys.step = origin[t]
  <2>1. count[t] # 0
    BY <1>7 DEF AgentInv, AgentTypeOK
  <2>2. run[t].at = "parked"
    BY <1>7, Zenon DEF AgentInv, Invoked
  <2> QED BY <1>4, <1>7, <2>1, <2>2, RetryKeys, Zenon
<1>8. facade' \in Properties
  BY <1>1, Zenon DEF AgentInv, AgentTypeOK
<1> QED BY <1>1, <1>2, <1>3, <1>5, <1>6, <1>7, <1>8, OpenStep, Zenon

LEMMA CrewInvokeStep ==
    ASSUME AgentInv, NEW t \in Turns, count[t] < MaxInvocations, kind = "crew",
           run[t].at \in {"idle", "parked", "raised"},
           NEW keys \in Keys(t), CrewKickoff(t, keys)
    PROVE  AgentInv'
<1>0. PrepareAgents /\ UNCHANGED <<kind, resume, log>>
  BY Zenon DEF CrewKickoff
<1>1. CASE CrewAccepts
  <2>1. /\ OpenSession(t, SessionFor(t, keys.session), keys.step)
        /\ facade' = [session |-> SessionFor(t, keys.session), step |-> keys.step,
                      request |-> FALSE]
    BY <1>1, Zenon DEF CrewKickoff
  <2>2. keys.step \in Nat /\ SessionFor(t, keys.session) \in Sessions
    BY KeyTypes, SessionTypes, Zenon
  <2>3. count[t] > 0 /\ Follows(t) =>
           SessionFor(t, keys.session) = run[t].session /\ keys.step = origin[t]
    BY KeysAgain, Zenon
  <2>4. Covered
    BY <1>0, <1>1, CrewPrepares, Zenon
  <2> QED BY <1>0, <2>1, <2>2, <2>3, <2>4, FacadeOpens, Zenon
<1>2. CASE ~CrewAccepts
  <2>1. UNCHANGED <<facade, run, count, origin, overlapped>>
    BY <1>2, Zenon DEF CrewKickoff
  <2> QED BY <1>0, <1>2, <2>1, CrewPrepares, KeptIsNoNewRaw, RefusedStep, Zenon
<1> QED BY <1>1, <1>2, Zenon

LEMMA IndexInvokeStep ==
    ASSUME AgentInv, NEW t \in Turns, count[t] < MaxInvocations, kind \in {"query", "chat"},
           run[t].at \in {"idle", "parked", "raised"},
           NEW keys \in Keys(t), IndexRun(t, keys)
    PROVE  AgentInv'
<1> DEFINE from == IndexOrigin(keys)
           s == SessionFor(t, from.session)
<1>0. PrepareIndex /\ UNCHANGED <<kind, resume, log>>
  BY Zenon DEF IndexRun
<1>1. CASE IndexAccepts
  <2>1. /\ OpenSession(t, s, from.step)
        /\ facade' = [session |-> s, step |-> from.step, request |-> FALSE]
    BY <1>1, Zenon DEF IndexRun
  <2>2. from = keys \/ from = [session |-> facade.session, step |-> facade.step]
    BY Zenon DEF IndexOrigin
  <2>3. from.session \in Sessions \cup {NoSession} /\ from.step \in Nat
    <3>1. /\ keys.session \in Sessions \cup {NoSession} /\ keys.step \in Nat
          /\ facade.session \in Sessions \cup {NoSession} /\ facade.step \in Nat
      BY KeyTypes, Zenon
    <3> HIDE DEF from
    <3> QED BY <2>2, <3>1
  <2>4. s \in Sessions
    BY <2>3, SessionTypes, Zenon
  <2>5. ASSUME count[t] > 0, Follows(t)
        PROVE  s = run[t].session /\ from.step = origin[t]
    <3>1. kind # "graph"
      OBVIOUS
    <3>2. /\ SessionFor(t, keys.session) = run[t].session /\ keys.step = origin[t]
          /\ keys.session # NoSession
      BY <2>5, <3>1, KeysAgain, Zenon
    <3>3. from = keys
      BY <3>2, Zenon DEF IndexOrigin
    <3> HIDE DEF from
    <3> QED BY <3>2, <3>3, Zenon
  <2>6. Covered
    BY <1>0, <1>1, IndexPrepares, Zenon
  <2> HIDE DEF from, s
  <2> QED BY <1>0, <2>1, <2>3, <2>4, <2>5, <2>6, FacadeOpens, Zenon
<1>2. CASE ~IndexAccepts
  <2>1. UNCHANGED <<facade, run, count, origin, overlapped>>
    BY <1>2, Zenon DEF IndexRun
  <2> QED BY <1>0, <1>2, <2>1, IndexPrepares, KeptIsNoNewRaw, RefusedStep, Zenon
<1> QED BY <1>1, <1>2, Zenon

LEMMA KernelInvokeStep ==
    ASSUME AgentInv, NEW t \in Turns, count[t] < MaxInvocations, kind = "kernel",
           run[t].at \in {"idle", "parked", "raised"},
           NEW keys \in Keys(t), KernelInvoke(t, keys)
    PROVE  AgentInv'
<1>0. PreparePlugins /\ UNCHANGED <<kind, resume, log>>
  BY Zenon DEF KernelInvoke
<1>1. CASE KernelAccepts
  <2>1. /\ OpenSession(t, SessionFor(t, keys.session), keys.step)
        /\ facade' = [session |-> SessionFor(t, keys.session), step |-> keys.step,
                      request |-> FALSE]
    BY <1>1, Zenon DEF KernelInvoke, KernelSession, ResetRun
  <2>2. keys.step \in Nat /\ SessionFor(t, keys.session) \in Sessions
    BY KeyTypes, SessionTypes, Zenon
  <2>3. count[t] > 0 /\ Follows(t) =>
           SessionFor(t, keys.session) = run[t].session /\ keys.step = origin[t]
    BY KeysAgain, Zenon
  <2>4. Covered
    BY <1>0, <1>1, KernelPrepares, Zenon
  <2> QED BY <1>0, <2>1, <2>2, <2>3, <2>4, FacadeOpens, Zenon
<1>2. CASE ~KernelAccepts
  <2>1. UNCHANGED <<facade, run, count, origin, overlapped>>
    BY <1>2, Zenon DEF KernelInvoke
  <2> QED BY <1>0, <2>1, KernelPrepares, RefusedStep, Zenon
<1> QED BY <1>1, <1>2, Zenon

LEMMA InvokeStep ==
    ASSUME AgentInv, NEW t \in Turns, Invoke(t)
    PROVE  AgentInv'
<1>1. /\ count[t] < MaxInvocations /\ run[t].at \in {"idle", "parked", "raised"}
      /\ \/ kind = "graph" /\ run[t].at # "raised" /\ GraphAinvoke(t)
         \/ kind = "crew" /\ \E keys \in Keys(t) : CrewKickoff(t, keys)
         \/ kind \in {"query", "chat"} /\ \E keys \in Keys(t) : IndexRun(t, keys)
         \/ kind = "kernel" /\ \E keys \in Keys(t) : KernelInvoke(t, keys)
  BY Zenon DEF Invoke
<1>2. run[t].at # "raised" => run[t].at \in {"idle", "parked"}
  BY <1>1, Zenon
<1> QED BY <1>1, <1>2, GraphInvokeStep, CrewInvokeStep, IndexInvokeStep, KernelInvokeStep, Zenon

-----------------------------------------------------------------------------
(* A run makes its calls                                                   *)

LEMMA RunTypes ==
    ASSUME AgentTypeOK, NEW t \in Turns
    PROVE  /\ run[t].pos \in Nat \ {0} /\ run[t].step \in Nat /\ run[t].start \in Nat
           /\ run[t].session \in Sessions \cup {NoSession}
           /\ count[t] \in Nat /\ origin[t] \in Nat
<1>1. run[t] \in Invocations
  BY Zenon DEF AgentTypeOK
<1>2. count[t] \in Nat /\ origin[t] \in Nat
  BY Zenon DEF AgentTypeOK
<1> QED BY <1>1, <1>2 DEF Invocations

LEMMA ActiveInvoked ==
    ASSUME AgentInv, NEW t \in Turns, Active(t)
    PROVE  count[t] > 0
<1>1. run[t].at # "idle"
  BY DEF Active
<1>2. count[t] # 0 /\ count[t] \in Nat
  BY <1>1, RunTypes, Zenon DEF AgentInv, Invoked
<1> QED BY <1>2

LEMMA AdvanceFacts ==
    ASSUME AgentTypeOK, NEW t \in Turns, NEW at \in {"running", "tool"}, NEW step \in Nat,
           NEW moves \in Nat, Advance(t, at, step, moves)
    PROVE  /\ run'[t].at = at /\ run'[t].step = step /\ run'[t].pos = run[t].pos + moves
           /\ run'[t].session = run[t].session /\ run'[t].start = run[t].start
           /\ \A u \in Turns : u # t => run'[u] = run[u]
           /\ run' \in [Turns -> Invocations]
<1>1. run \in [Turns -> Invocations] /\ run[t] \in Invocations
  BY Zenon DEF AgentTypeOK
<1>2. run' = [run EXCEPT ![t].at = at, ![t].step = step, ![t].pos = @ + moves]
  BY Zenon DEF Advance
<1>3. DOMAIN run' = Turns /\ \A u \in Turns : u # t => run'[u] = run[u]
  BY <1>1, <1>2
<1>4. run'[t] = [at |-> at, session |-> run[t].session, start |-> run[t].start,
                 step |-> step, pos |-> run[t].pos + moves]
  BY <1>1, <1>2, ZenonT(30) DEF Invocations
<1>5. /\ run'[t].at = at /\ run'[t].step = step /\ run'[t].pos = run[t].pos + moves
      /\ run'[t].session = run[t].session /\ run'[t].start = run[t].start
  BY <1>4
<1>6. run'[t] \in Invocations
  <2>1. /\ run[t].session \in Sessions \cup {NoSession} /\ run[t].start \in Nat
        /\ run[t].pos + moves \in Nat \ {0}
    BY <1>1 DEF Invocations
  <2> QED BY <1>4, <2>1 DEF Invocations
<1>7. run' \in [Turns -> Invocations]
  BY <1>1, <1>2, <1>3, <1>6, Zenon
<1> QED BY <1>3, <1>5, <1>7, Zenon

\* A call that leaves the run at the step its position stands for.
LEMMA CallStep ==
    ASSUME AgentInv, NEW t \in Turns, Active(t), CallsLeft(t),
           NEW at \in {"running", "tool"}, NEW step \in Nat, NEW moves \in {0, 1},
           moves = (IF at = "tool" THEN 0 ELSE 1), Advance(t, at, step, moves),
           UNCHANGED <<kind, held, facade, resume, count, origin, overlapped, bypassed>>,
           recorded \subseteq recorded',
           \A u \in Turns : u # t =>
              \A i \in DOMAIN Plan[u] : <<u, i>> \in completed' <=> <<u, i>> \in completed,
           Follows(t) => step = StepAfter(t, run[t].pos),
           Remembered(t)', RetryReplays', again' \subseteq Turns \X Nat
    PROVE  AgentInv'
<1>0. /\ AgentTypeOK /\ Sealed /\ NothingBypassed /\ FacadeIsMine /\ HandlerReads
      /\ Invoked(t) /\ SameSteps(t)
  BY Zenon DEF AgentInv
<1>1. moves \in Nat
  OBVIOUS
<1>2. /\ run'[t].at = at /\ run'[t].step = step /\ run'[t].pos = run[t].pos + moves
      /\ run'[t].session = run[t].session /\ run'[t].start = run[t].start
      /\ \A u \in Turns : u # t => run'[u] = run[u]
  BY <1>0, <1>1, AdvanceFacts
<1>3. AgentTypeOK'
  <2>1. run' \in [Turns -> Invocations]
    BY <1>0, <1>1, AdvanceFacts, Zenon
  <2> QED BY <1>0, <2>1, Zenon DEF AgentTypeOK
<1>4. \A u \in Turns : Active(u)' => Active(u)
  BY <1>2, Zenon DEF Active
<1>5. Sealed' /\ NothingBypassed'
  BY <1>0, <1>4, Zenon DEF Sealed, NothingBypassed
<1>6. FacadeIsMine' /\ HandlerReads'
  <2>1. \A u \in Turns : run'[u].session = run[u].session
    BY <1>2, Zenon
  <2>2. \A u \in Turns : run'[u].at = "parked" => run[u].at = "parked"
    BY <1>2, Zenon
  <2> QED BY <1>0, <1>4, <2>1, <2>2, Zenon DEF FacadeIsMine, HandlerReads
<1>7. \A u \in Turns : u # t => Invoked(u)' /\ SameSteps(u)' /\ Remembered(u)'
  <2>1. Onward /\ \A u \in Turns : u # t => TurnKept(u)
    BY <1>2, UnchangedHeld, Zenon DEF Onward, TurnKept
  <2> QED BY <2>1, KeptTurn, Zenon
<1>8. /\ run[t].pos <= Len(Plan[t]) /\ run[t].pos \in Nat \ {0} /\ Len(Plan[t]) \in Nat
      /\ count[t] > 0 /\ count[t] # 0
  <2>1. count[t] > 0 /\ count[t] \in Nat
    BY <1>0, ActiveInvoked, RunTypes, Zenon
  <2> QED BY <1>0, <2>1, RunTypes, PlanTypes DEF CallsLeft
<1>9. Invoked(t)'
  <2>1. /\ run[t].pos + moves <= Len(Plan[t]) + 1
        /\ at = "tool" => run[t].pos + moves <= Len(Plan[t])
    BY <1>8
  <2> QED BY <1>0, <1>2, <1>8, <2>1, Zenon DEF Invoked, CallsLeft
<1>10. SameSteps(t)'
  <2>2. /\ at = "tool" => StepAfter(t, run[t].pos)' = StepAfter(t, run[t].pos)
        /\ at = "running" => StepAfter(t, run[t].pos - 1)' = StepAfter(t, run[t].pos)
    <3>1. /\ at = "tool" => run'[t].pos = run[t].pos
          /\ at = "running" => run'[t].pos - 1 = run[t].pos
      <4>1. run'[t].pos = run[t].pos + moves
        BY <1>2, Zenon
      <4> QED BY <1>8, <4>1
    <3> QED BY <3>1, Zenon DEF StepAfter, Journalled
  <2>3. Follows(t)' => Follows(t)
    BY Zenon DEF Follows
  <2>4. run'[t].at # "parked" /\ run'[t].at # "raised"
    BY <1>2
  <2>5. Follows(t) => run[t].start = origin[t]
    BY <1>0, <1>8, Zenon DEF SameSteps
  <2> QED BY <1>2, <2>2, <2>3, <2>4, <2>5, Zenon DEF SameSteps
<1>11. \A u \in Turns : Invoked(u)' /\ SameSteps(u)' /\ Remembered(u)'
  BY <1>7, <1>9, <1>10, Zenon
<1> QED BY <1>3, <1>5, <1>6, <1>11, Zenon DEF AgentInv

\* Its completed calls are found as before, at the same steps.
LEMMA StillRemembered ==
    ASSUME AgentInv, NEW t \in Turns, UNCHANGED <<kind, held, origin, overlapped, completed>>,
           recorded \subseteq recorded', run'[t].session = run[t].session,
           run'[t].at = "tool" => <<t, run'[t].pos>> \notin completed
    PROVE  Remembered(t)'
<1>1. Remembered(t)
  BY Zenon DEF AgentInv
<1>2. (\A i : StepAfter(t, i)' = StepAfter(t, i)) /\ (Follows(t)' <=> Follows(t))
  BY Zenon DEF StepAfter, Journalled, Follows
<1>3. ASSUME Follows(t)', NEW i \in DOMAIN Plan[t], <<t, i>> \in completed'
      PROVE  <<run'[t].session, StepAfter(t, i)', Plan[t][i]>> \in recorded'
  <2>1. <<run[t].session, StepAfter(t, i), Plan[t][i]>> \in recorded
    BY <1>1, <1>2, <1>3, Zenon DEF Remembered
  <2>2. StepAfter(t, i)' = StepAfter(t, i)
    BY <1>2, Zenon
  <2> QED BY <2>1, <2>2, Zenon
<1> QED BY <1>3, Zenon DEF Remembered

LEMMA CallThroughStep ==
    ASSUME AgentInv, NEW t \in Turns, CallThrough(t)
    PROVE  AgentInv'
<1>0. AgentTypeOK /\ Sealed /\ SameSteps(t)
  BY Zenon DEF AgentInv
<1>1. /\ run[t].at = "running" /\ CallsLeft(t) /\ held[CurrentTool(t)] \in {"safe", "raw"}
      /\ Advance(t, "running", run[t].step, 1)
      /\ bypassed' = IF held[CurrentTool(t)] = "raw" THEN bypassed \cup {CurrentTool(t)} ELSE bypassed
      /\ UNCHANGED <<kind, held, facade, resume, count, origin, overlapped, recorded, completed, again>>
  BY Zenon DEF CallThrough
<1>2. Active(t) /\ count[t] > 0
  BY <1>1, ActiveInvoked, Zenon DEF Active
<1>3. run[t].pos \in Nat \ {0} /\ run[t].pos \in DOMAIN Plan[t] /\ run[t].step \in Nat
  BY <1>0, <1>1, RunTypes, PlanTypes DEF CallsLeft
<1>4. held[Plan[t][run[t].pos]] = "safe"
  BY <1>0, <1>1, <1>2, <1>3, PlanTypes, Zenon DEF Sealed, CurrentTool
<1>5. bypassed' = bypassed
  BY <1>1, <1>4, Zenon DEF CurrentTool
<1>6. Follows(t) => run[t].step = StepAfter(t, run[t].pos)
  BY <1>0, <1>1, <1>2, <1>3, <1>4, SafeStep, Zenon DEF SameSteps
<1>7. run'[t].at = "running" /\ run'[t].session = run[t].session
  BY <1>0, <1>1, <1>3, AdvanceFacts
<1>8. Remembered(t)'
  BY <1>1, <1>7, StillRemembered, Zenon
<1>9. RetryReplays' /\ again' \subseteq Turns \X Nat
  BY <1>1, Zenon DEF AgentInv, RetryReplays, AgentTypeOK
<1>10. "running" # "tool" /\ 1 = (IF "running" = "tool" THEN 0 ELSE 1)
  OBVIOUS
<1> QED BY <1>1, <1>2, <1>3, <1>5, <1>6, <1>8, <1>9, <1>10, CallStep

\* A call that is not answered with a replay has not completed.
LEMMA InterceptStep ==
    ASSUME AgentInv, NEW t \in Turns, InterceptCall(t)
    PROVE  AgentInv'
<1>0. AgentTypeOK /\ SameSteps(t) /\ Remembered(t)
  BY Zenon DEF AgentInv
<1>1. /\ run[t].at = "running" /\ CallsLeft(t)
      /\ held[CurrentTool(t)] \in {"compensable", "irreversible"}
      /\ UNCHANGED <<kind, held, facade, resume, count, origin, overlapped>>
      /\ UNCHANGED <<recorded, completed, again, bypassed>>
  BY Zenon DEF InterceptCall, log
<1>2. \/ Key(t, NextStep(t)) \in recorded /\ Advance(t, "running", NextStep(t), 1)
      \/ Key(t, NextStep(t)) \notin recorded /\ Advance(t, "tool", NextStep(t), 0)
  BY Zenon DEF InterceptCall
<1>3. Active(t) /\ count[t] > 0
  BY <1>1, ActiveInvoked, Zenon DEF Active
<1>4. /\ run[t].pos \in Nat \ {0} /\ run[t].pos \in DOMAIN Plan[t] /\ run[t].step \in Nat
      /\ NextStep(t) = run[t].step + 1 /\ NextStep(t) \in Nat
  BY <1>0, <1>1, RunTypes, PlanTypes DEF CallsLeft, NextStep
<1>5. held[Plan[t][run[t].pos]] # "safe"
  BY <1>1, Zenon DEF CurrentTool
<1>6. Follows(t) => NextStep(t) = StepAfter(t, run[t].pos)
  BY <1>0, <1>1, <1>3, <1>4, <1>5, CountedCall, Zenon DEF SameSteps
<1>7. RetryReplays' /\ again' \subseteq Turns \X Nat
  BY <1>1, Zenon DEF AgentInv, RetryReplays, AgentTypeOK
<1>8. CASE Advance(t, "running", NextStep(t), 1)
  <2>1. run'[t].at = "running" /\ run'[t].session = run[t].session
    BY <1>0, <1>4, <1>8, AdvanceFacts
  <2>2. Remembered(t)'
    BY <1>1, <2>1, StillRemembered, Zenon
  <2>3. "running" # "tool" /\ 1 = (IF "running" = "tool" THEN 0 ELSE 1)
    OBVIOUS
  <2> QED BY <1>1, <1>3, <1>4, <1>6, <1>7, <1>8, <2>2, <2>3, CallStep
<1>9. CASE Key(t, NextStep(t)) \notin recorded /\ Advance(t, "tool", NextStep(t), 0)
  <2>1. run'[t].at = "tool" /\ run'[t].session = run[t].session /\ run'[t].pos = run[t].pos
    BY <1>0, <1>4, <1>9, AdvanceFacts
  <2>2. Follows(t) => <<t, run[t].pos>> \notin completed
    BY <1>0, <1>4, <1>6, <1>9, Zenon DEF Remembered, Key, CurrentTool
  <2>3. Remembered(t)'
    <3>1. CASE Follows(t)
      BY <1>1, <2>1, <2>2, <3>1, StillRemembered, Zenon
    <3>2. CASE ~Follows(t)
      BY <1>1, <3>2, Zenon DEF Remembered, Follows
    <3> QED BY <3>1, <3>2, Zenon
  <2> QED BY <1>1, <1>3, <1>4, <1>6, <1>7, <1>9, <2>3, CallStep
<1> QED BY <1>2, <1>8, <1>9, Zenon

\* The tool's result is recorded under the key its position stands for.
LEMMA RunToolStep ==
    ASSUME AgentInv, NEW t \in Turns, RunTool(t)
    PROVE  AgentInv'
<1>0. AgentTypeOK /\ Invoked(t) /\ SameSteps(t) /\ Remembered(t)
  BY Zenon DEF AgentInv
<1>1. /\ run[t].at = "tool" /\ Advance(t, "running", run[t].step, 1)
      /\ again' = again \cup ({<<t, run[t].pos>>} \cap completed)
      /\ recorded' = recorded \cup {Key(t, run[t].step)}
      /\ completed' = completed \cup {<<t, run[t].pos>>}
      /\ UNCHANGED <<kind, held, facade, resume, count, origin, overlapped, bypassed>>
  BY Zenon DEF RunTool, Ran
<1>2. Active(t) /\ count[t] > 0 /\ CallsLeft(t)
  BY <1>0, <1>1, ActiveInvoked, Zenon DEF Active, Invoked
<1>3. run[t].pos \in Nat \ {0} /\ run[t].pos \in DOMAIN Plan[t] /\ run[t].step \in Nat
  BY <1>0, <1>2, RunTypes, PlanTypes DEF CallsLeft
<1>4. Follows(t) => run[t].step = StepAfter(t, run[t].pos)
  BY <1>0, <1>1, <1>2, Zenon DEF SameSteps
<1>5. run'[t].at = "running" /\ run'[t].session = run[t].session
  BY <1>0, <1>1, <1>3, AdvanceFacts
<1>6. Remembered(t)'
  <2>1. (\A i : StepAfter(t, i)' = StepAfter(t, i)) /\ (Follows(t)' <=> Follows(t))
    BY <1>1, Zenon DEF StepAfter, Journalled, Follows
  <2>2. ASSUME Follows(t)', NEW i \in DOMAIN Plan[t], <<t, i>> \in completed'
        PROVE  <<run'[t].session, StepAfter(t, i)', Plan[t][i]>> \in recorded'
    <3>1. StepAfter(t, i)' = StepAfter(t, i)
      BY <2>1, Zenon
    <3>2. CASE <<t, i>> \in completed
      <4>1. <<run[t].session, StepAfter(t, i), Plan[t][i]>> \in recorded
        BY <1>0, <2>1, <2>2, <3>2, Zenon DEF Remembered
      <4> QED BY <1>1, <1>5, <3>1, <4>1, Zenon
    <3>3. CASE <<t, i>> = <<t, run[t].pos>>
      <4>1. i = run[t].pos
        BY <3>3, Zenon
      <4>2. <<run[t].session, StepAfter(t, i), Plan[t][i]>> = Key(t, run[t].step)
        BY <1>4, <2>1, <2>2, <4>1, Zenon DEF Key, CurrentTool
      <4> QED BY <1>1, <1>5, <3>1, <4>2, Zenon
    <3> QED BY <1>1, <2>2, <3>2, <3>3, Zenon
  <2> QED BY <1>5, <2>2, Zenon DEF Remembered
<1>7. \A call \in again' : call \in again \/ (call = <<t, run[t].pos>> /\ call \in completed)
  BY <1>1, Zenon
<1>8. RetryReplays'
  <2>1. ASSUME NEW call \in again', call \notin again
        PROVE  call[1] \in Turns /\ ~Follows(call[1]) /\ count[call[1]] > 0
    <3>1. call = <<t, run[t].pos>> /\ <<t, run[t].pos>> \in completed /\ call[1] = t
      BY <1>7, <2>1
    <3> QED BY <1>0, <1>1, <1>2, <3>1, Zenon DEF Remembered
  <2> QED BY <1>1, <2>1, StillExplained, Zenon
<1>9. again' \subseteq Turns \X Nat
  <2>1. again \subseteq Turns \X Nat /\ <<t, run[t].pos>> \in Turns \X Nat
    BY <1>0, <1>3 DEF AgentTypeOK
  <2> QED BY <1>7, <2>1, Zenon
<1>10. /\ recorded \subseteq recorded'
       /\ \A u \in Turns : u # t =>
             \A i \in DOMAIN Plan[u] : <<u, i>> \in completed' <=> <<u, i>> \in completed
  BY <1>1
<1>11. "running" # "tool" /\ 1 = (IF "running" = "tool" THEN 0 ELSE 1)
  OBVIOUS
<1> QED BY <1>1, <1>2, <1>3, <1>4, <1>6, <1>8, <1>9, <1>10, <1>11, CallStep

-----------------------------------------------------------------------------
(* A run ends                                                              *)

\* What its caller is left with: a graph's returned state holds the run's own
\* session and start, the others read the facade and start from step zero.
LEMMA LeaveFacts ==
    ASSUME AgentInv, NEW t \in Turns, NEW at \in {"parked", "raised", "done"}, NEW step \in Nat,
           Leave(t, at, step)
    PROVE  /\ facade' \in Properties /\ facade'.session = facade.session
           /\ \E keys \in Keyrings :
                 /\ resume' = [resume EXCEPT ![t] = keys]
                 /\ kind = "graph" /\ at # "raised" =>
                       keys = [session |-> run[t].session, step |-> run[t].start]
                 /\ kind # "graph" => keys = [session |-> facade.session, step |-> 0]
<1>0. AgentTypeOK
  BY Zenon DEF AgentInv
<1>1. CASE kind = "graph" /\ GraphLeave(t, at, step)
  <2> DEFINE keys == IF at = "raised" THEN resume[t]
                     ELSE [session |-> run[t].session, step |-> run[t].start]
  <2>1. resume' = [resume EXCEPT ![t] = keys] /\ facade' = facade
    BY <1>1, Zenon DEF GraphLeave
  <2>2. keys \in Keyrings
    <3>1. [session |-> run[t].session, step |-> run[t].start] \in Keyrings
      BY <1>0, RunTypes DEF Keyrings
    <3> QED BY <1>0, <3>1, Zenon DEF AgentTypeOK
  <2>3. facade' \in Properties
    BY <1>0, <2>1, Zenon DEF AgentTypeOK
  <2> QED BY <1>1, <2>1, <2>2, <2>3, Zenon
<1>2. CASE /\ kind # "graph"
           /\ facade' = [facade EXCEPT !.step = step, !.request = (at = "parked") \/ @]
           /\ resume' = [resume EXCEPT ![t] = [session |-> facade.session, step |-> 0]]
  <2>1. facade \in Properties /\ facade.session \in Sessions \cup {NoSession}
    BY <1>0, KeyTypes, Zenon DEF AgentTypeOK
  <2>2. [session |-> facade.session, step |-> 0] \in Keyrings
    BY <2>1 DEF Keyrings
  <2>3. ((at = "parked") \/ facade.request) \in BOOLEAN
    BY Zenon
  <2>4. PICK asked \in BOOLEAN : facade' = [facade EXCEPT !.step = step, !.request = asked]
    BY <1>2, <2>3, Zenon
  <2>5. facade' \in Properties /\ facade'.session = facade.session
    BY <2>1, <2>4, Zenon DEF Properties
  <2> QED BY <1>2, <2>2, <2>5, Zenon
<1> QED BY <1>1, <1>2, Zenon DEF Leave, CrewLeave, IndexLeave, KernelLeave

LEMMA EndStep ==
    ASSUME AgentInv, NEW t \in Turns, Active(t), NEW at \in {"parked", "raised", "done"},
           NEW step \in Nat, Leave(t, at, step),
           UNCHANGED <<kind, held, count, origin, overlapped, recorded, completed, bypassed>>,
           RetryReplays', again' \subseteq Turns \X Nat
    PROVE  AgentInv'
<1>0. /\ AgentTypeOK /\ Sealed /\ NothingBypassed /\ FacadeIsMine /\ HandlerReads
      /\ Invoked(t) /\ SameSteps(t)
  BY Zenon DEF AgentInv
<1>1. PICK keys \in Keyrings :
         /\ resume' = [resume EXCEPT ![t] = keys]
         /\ kind = "graph" /\ at # "raised" =>
               keys = [session |-> run[t].session, step |-> run[t].start]
         /\ kind # "graph" => keys = [session |-> facade.session, step |-> 0]
  BY LeaveFacts, Zenon
<1>2. facade' \in Properties /\ facade'.session = facade.session
  BY LeaveFacts
<1>2a. run' = [run EXCEPT ![t].at = at, ![t].step = step]
  BY Zenon DEF Leave, GraphLeave, CrewLeave, IndexLeave, KernelLeave
<1>3. run \in [Turns -> Invocations] /\ run[t] \in Invocations
  BY <1>0, Zenon DEF AgentTypeOK
<1>4. DOMAIN run' = Turns /\ \A u \in Turns : u # t => run'[u] = run[u]
  BY <1>2a, <1>3
<1>5. run'[t] = [at |-> at, session |-> run[t].session, start |-> run[t].start,
                 step |-> step, pos |-> run[t].pos]
  BY <1>2a, <1>3, ZenonT(30) DEF Invocations
<1>6. /\ run'[t].at = at /\ run'[t].pos = run[t].pos
      /\ run'[t].session = run[t].session /\ run'[t].start = run[t].start
  BY <1>5
<1>7. resume'[t] = keys /\ \A u \in Turns : u # t => resume'[u] = resume[u]
  BY <1>0, <1>1, Zenon DEF AgentTypeOK
<1>8. AgentTypeOK'
  <2>1. run'[t] \in Invocations
    BY <1>0, <1>5, RunTypes DEF Invocations
  <2>2. run' \in [Turns -> Invocations]
    BY <1>2a, <1>3, <1>4, <2>1, Zenon
  <2>3. resume' \in [Turns -> Keyrings]
    BY <1>0, <1>1, Zenon DEF AgentTypeOK
  <2> QED BY <1>0, <1>2, <2>2, <2>3, Zenon DEF AgentTypeOK
<1>9. \A u \in Turns : Active(u)' => u # t /\ Active(u)
  BY <1>4, <1>6, Zenon DEF Active
<1>10. Sealed' /\ NothingBypassed'
  BY <1>0, <1>9, Zenon DEF Sealed, NothingBypassed
<1>11. FacadeIsMine'
  BY <1>0, <1>2, <1>4, <1>9, Zenon DEF FacadeIsMine
<1>12. t \notin overlapped /\ kind # "graph" => facade.session = run[t].session
  BY <1>0, Zenon DEF FacadeIsMine
<1>13. HandlerReads'
  <2>1. ASSUME t \notin overlapped, at = "parked" PROVE keys.session = run[t].session
    BY <1>1, <1>12, <2>1
  <2> QED BY <1>0, <1>4, <1>6, <1>7, <2>1, Zenon DEF HandlerReads
<1>14. \A u \in Turns : u # t => Invoked(u)' /\ SameSteps(u)' /\ Remembered(u)'
  <2>1. Onward /\ \A u \in Turns : u # t => TurnKept(u)
    BY <1>4, <1>7, UnchangedHeld, Zenon DEF Onward, TurnKept
  <2> QED BY <2>1, KeptTurn, Zenon
<1>15. count[t] > 0 /\ count[t] # 0
  <2>1. count[t] > 0 /\ count[t] \in Nat
    BY <1>0, ActiveInvoked, RunTypes, Zenon
  <2> QED BY <2>1
<1>16. Invoked(t)'
  BY <1>0, <1>6, <1>15, Zenon DEF Invoked, CallsLeft
<1>17. SameSteps(t)'
  <2>1. (Follows(t)' <=> Follows(t)) /\ (Follows(t) => run[t].start = origin[t])
    BY <1>0, <1>15, Zenon DEF Follows, SameSteps
  <2>2. ASSUME Follows(t), at = "parked" \/ (at = "raised" /\ kind # "graph")
        PROVE  keys = [session |-> run[t].session, step |-> origin[t]]
    <3>1. CASE kind = "graph"
      BY <1>1, <2>1, <2>2, <3>1, Zenon
    <3>2. CASE kind # "graph"
      BY <1>1, <1>12, <2>2, <3>2, Zenon DEF Follows
    <3> QED BY <3>1, <3>2, Zenon
  <2>3. run'[t].at # "running" /\ run'[t].at # "tool"
    BY <1>6, Zenon
  <2> QED BY <1>6, <1>7, <2>1, <2>2, <2>3, Zenon DEF SameSteps
<1>18. Remembered(t)'
  <2>1. run'[t].at # "tool"
    BY <1>6, Zenon
  <2> QED BY <1>6, <2>1, StillRemembered, Zenon
<1>19. \A u \in Turns : Invoked(u)' /\ SameSteps(u)' /\ Remembered(u)'
  BY <1>14, <1>16, <1>17, <1>18, Zenon
<1> QED BY <1>8, <1>10, <1>11, <1>13, <1>19, Zenon DEF AgentInv

LEMMA ParkStep ==
    ASSUME AgentInv, NEW t \in Turns, Park(t)
    PROVE  AgentInv'
<1>1. /\ MustWait(t)
      /\ UNCHANGED <<kind, held, count, origin, overlapped, recorded, completed, again, bypassed>>
  BY Zenon DEF Park
<1>2. \E at \in {"parked", "raised", "done"} : Leave(t, at, NextStep(t))
  BY Zenon DEF Park
<1>3. Active(t)
  BY <1>1, Zenon DEF MustWait, Active
<1>4. NextStep(t) \in Nat
  BY RunTypes DEF AgentInv, NextStep
<1>5. RetryReplays' /\ again' \subseteq Turns \X Nat
  BY <1>1, Zenon DEF AgentInv, RetryReplays, AgentTypeOK
<1> QED BY <1>1, <1>2, <1>3, <1>4, <1>5, EndStep, Zenon

\* Even a tool that had its effect before it raised had not completed before.
LEMMA RaiseStep ==
    ASSUME AgentInv, NEW t \in Turns, Raise(t)
    PROVE  AgentInv'
<1>1. /\ Active(t) /\ Leave(t, "raised", run[t].step)
      /\ UNCHANGED <<kind, held, count, origin, overlapped, recorded, completed, bypassed>>
  BY Zenon DEF Raise
<1>2. \/ again' = again
      \/ run[t].at = "tool" /\ again' = again \cup ({<<t, run[t].pos>>} \cap completed)
  BY Zenon DEF Raise, Ran
<1>3. run[t].step \in Nat /\ run[t].pos \in Nat \ {0} /\ again \subseteq Turns \X Nat
  BY RunTypes, Zenon DEF AgentInv, AgentTypeOK
<1>4. \A call \in again' :
         call \in again \/ (call = <<t, run[t].pos>> /\ call \in completed /\ run[t].at = "tool")
  BY <1>2, Zenon
<1>5. count[t] > 0 /\ Remembered(t)
  BY <1>1, ActiveInvoked, Zenon DEF AgentInv
<1>6. RetryReplays'
  <2>1. ASSUME NEW call \in again', call \notin again
        PROVE  call[1] \in Turns /\ ~Follows(call[1]) /\ count[call[1]] > 0
    <3>1. /\ call = <<t, run[t].pos>> /\ <<t, run[t].pos>> \in completed /\ call[1] = t
          /\ run[t].at = "tool"
      BY <1>4, <2>1
    <3> QED BY <1>5, <3>1, Zenon DEF Remembered
  <2> QED BY <1>1, <2>1, StillExplained, Zenon
<1>7. again' \subseteq Turns \X Nat
  <2>1. <<t, run[t].pos>> \in Turns \X Nat
    BY <1>3
  <2> QED BY <1>3, <1>4, <2>1, Zenon
<1> QED BY <1>1, <1>3, <1>6, <1>7, EndStep, Zenon

LEMMA FinishStep ==
    ASSUME AgentInv, NEW t \in Turns, Finish(t)
    PROVE  AgentInv'
<1>1. /\ Active(t) /\ Leave(t, "done", run[t].step)
      /\ UNCHANGED <<kind, held, count, origin, overlapped, recorded, completed, again, bypassed>>
  BY Zenon DEF Finish, Active, log
<1>2. run[t].step \in Nat
  BY RunTypes, Zenon DEF AgentInv
<1>3. RetryReplays' /\ again' \subseteq Turns \X Nat
  BY <1>1, Zenon DEF AgentInv, RetryReplays, AgentTypeOK
<1> QED BY <1>1, <1>2, <1>3, EndStep, Zenon

-----------------------------------------------------------------------------
(* The invariant, and what it says                                         *)

LEMMA DecideStep ==
    ASSUME AgentInv, DecideRequest
    PROVE  AgentInv'
<1>0. /\ AgentTypeOK /\ Sealed /\ NothingBypassed /\ FacadeIsMine /\ HandlerReads
  BY Zenon DEF AgentInv
<1>1. /\ recorded \subseteq recorded'
      /\ UNCHANGED <<kind, held, completed, again, bypassed>>
      /\ UNCHANGED <<facade, run, resume, count, origin, overlapped>>
  BY Zenon DEF DecideRequest, runs
<1>2. AgentTypeOK' /\ Sealed' /\ NothingBypassed' /\ FacadeIsMine' /\ HandlerReads'
  BY <1>0, <1>1, Zenon
     DEF AgentTypeOK, Sealed, NothingBypassed, FacadeIsMine, HandlerReads, Active
<1>3. \A t \in Turns : Invoked(t)' /\ SameSteps(t)' /\ Remembered(t)'
  <2>1. Onward /\ \A t \in Turns : TurnKept(t)
    BY <1>1, UnchangedHeld, Zenon DEF Onward, TurnKept
  <2> QED BY <2>1, KeptTurn, Zenon
<1>4. RetryReplays'
  BY <1>1, StillExplained, Zenon
<1> QED BY <1>2, <1>3, <1>4, Zenon DEF AgentInv

LEMMA StutterStep ==
    ASSUME AgentInv, UNCHANGED vars
    PROVE  AgentInv'
<1>1. UNCHANGED <<kind, runs, log>> /\ UNCHANGED held
  BY Zenon DEF vars
<1> QED BY <1>1, UnchangedHeld, HeldStep, Zenon

LEMMA InitAgentInv == Init => AgentInv
<1> SUFFICES ASSUME Init PROVE AgentInv
  OBVIOUS
<1>1. /\ kind \in Kinds /\ held = [k \in Tools |-> InitiallyHeld(k)]
      /\ facade = [session |-> NoSession, step |-> 0, request |-> FALSE]
      /\ run = [t \in Turns |-> NoRun] /\ resume = [t \in Turns |-> NoKeys]
      /\ count = [t \in Turns |-> 0] /\ origin = [t \in Turns |-> 0]
      /\ completed = {} /\ again = {} /\ bypassed = {}
  BY Zenon DEF Init, SessionInit
<1>2. NoRun.at = "idle" /\ NoRun.pos = 1 /\ NoRun \in Invocations
  BY DEF NoRun, Invocations
<1>3. /\ NoKeys \in Keyrings
      /\ [session |-> NoSession, step |-> 0, request |-> FALSE] \in Properties
  BY DEF NoKeys, Keyrings, Properties
<1>4. \A k \in Tools : InitiallyHeld(k) \in Tiers \cup {"out", "raw"}
  <2>1. \A k \in Tools : /\ Override[k] \in Tiers \cup {"unset"}
                         /\ Shape[k] = "decorated" => Override[k] # "unset"
    BY AgentAssumption, Zenon
  <2> QED BY <2>1 DEF InitiallyHeld
<1>5. AgentTypeOK
  <2>1. held \in [Tools -> Tiers \cup {"out", "raw"}]
    BY <1>1, <1>4, Zenon
  <2>2. 0 \in Nat
    OBVIOUS
  <2> QED BY <1>1, <1>2, <1>3, <2>1, <2>2, Zenon DEF AgentTypeOK
<1>6. \A t \in Turns : run[t].at = "idle" /\ run[t].pos = 1 /\ count[t] = 0 /\ origin[t] = 0
  BY <1>1, <1>2, Zenon
<1>7. Sealed /\ NothingBypassed /\ FacadeIsMine /\ HandlerReads /\ RetryReplays
  BY <1>1, <1>6, Zenon
     DEF Sealed, NothingBypassed, FacadeIsMine, HandlerReads, RetryReplays, Active
<1>8. ASSUME NEW t \in Turns PROVE Invoked(t) /\ SameSteps(t) /\ Remembered(t)
  <2>1. \A i \in DOMAIN Plan[t] : held[Plan[t][i]] # "out"
    <3> SUFFICES ASSUME NEW i \in DOMAIN Plan[t] PROVE InitiallyHeld(Plan[t][i]) # "out"
      BY <1>1, PlanTypes, Zenon
    <3>1. Plan[t][i] \in Tools /\ Override[Plan[t][i]] \in Tiers \cup {"unset"}
      BY PlanTypes, AgentAssumption, Zenon
    <3> QED BY <3>1 DEF InitiallyHeld, Tiers
  <2>2. 1 <= Len(Plan[t]) + 1 /\ ~(0 > 0)
    BY PlanTypes
  <2>3. Invoked(t)
    BY <1>1, <1>6, <2>1, <2>2, Zenon DEF Invoked
  <2>4. SameSteps(t) /\ Remembered(t)
    BY <1>1, <1>6, <2>2, Zenon DEF SameSteps, Remembered
  <2> QED BY <2>3, <2>4, Zenon
<1> QED BY <1>5, <1>7, <1>8, Zenon DEF AgentInv

LEMMA NextAgentInv ==
    ASSUME AgentInv, [Next]_vars
    PROVE  AgentInv'
<1>1. CASE UNCHANGED vars
  BY <1>1, StutterStep, Zenon
<1>2. CASE Next
  <2>1. ASSUME NEW t \in Turns,
               \/ Invoke(t) \/ CallThrough(t) \/ InterceptCall(t) \/ RunTool(t)
               \/ Park(t) \/ Raise(t) \/ Finish(t)
        PROVE  AgentInv'
    BY <2>1, InvokeStep, CallThroughStep, InterceptStep, RunToolStep, ParkStep, RaiseStep,
       FinishStep, Zenon
  <2>2. ASSUME \/ DecideRequest \/ GraphWrapTools \/ WrapKernel \/ ChangeTools
        PROVE  AgentInv'
    BY <2>2, DecideStep, GraphWrapStep, WrapKernelStep, ChangeToolsStep, Zenon
  <2>3. ASSUME NEW ks \in SUBSET (Tools \ HeldTools) \ {{}}, AddFunctions(ks)
        PROVE  AgentInv'
    BY <2>3, AddFunctionsStep, Zenon
  <2> QED BY <1>2, <2>1, <2>2, <2>3, Zenon DEF Next
<1> QED BY <1>1, <1>2, Zenon

\* Turns, tools and facades of whatever integration keep the invariant, for
\* any plans, tiers and plugins.
THEOREM AgentInvariance == Spec => []AgentInv
BY InitAgentInv, NextAgentInv, PTL DEF Spec

\* wrap_tool, _prepare_agents, _prepare_index and _prepare_plugins leave no way
\* around the journal: a run only starts once all it could call is wrapped.
THEOREM NoBypass == Spec => []NothingBypassed
<1>1. AgentInv => NothingBypassed
  BY Zenon DEF AgentInv
<1> QED BY <1>1, AgentInvariance, PTL

\* The session id that is read from the facade when AwaitingApprovalError is
\* caught belongs to the run that was suspended, if no other run shared it.
THEOREM HandlerKnows == Spec => []HandlerReads
<1>1. AgentInv => HandlerReads
  BY Zenon DEF AgentInv
<1> QED BY <1>1, AgentInvariance, PTL

\* The guides' retry recipe: invoked again with what ainvoke returned, or with
\* the facade's session id, a turn's completed calls are replayed.
THEOREM RecipeReplays == Spec => []RetryReplays
<1>1. AgentInv => RetryReplays
  BY Zenon DEF AgentInv
<1> QED BY <1>1, AgentInvariance, PTL

\* A crew or an index with a refused tool is left as it was: a raw tool is
\* wrapped only together with all the others, by a run that starts.
THEOREM AllOrNothing == Spec => PreparedWhole
<1>0. "raw" \notin Tiers
  BY DEF Tiers
<1>1. ASSUME AgentInv, NEW t \in Turns, Invoke(t), kind \in {"crew", "query", "chat"}
      PROVE  UNCHANGED held \/ (count' # count /\ \A k \in Tools : held'[k] # "raw")
  <2>1. CASE \E s, start : OpenSession(t, s, start)
    <3>1. count' = [count EXCEPT ![t] = @ + 1]
      BY <2>1, Zenon DEF OpenSession
    <3>2. count \in [Turns -> Nat]
      BY <1>1, Zenon DEF AgentInv, AgentTypeOK
    <3>3. count'[t] = count[t] + 1 /\ count[t] \in Nat
      BY <1>1, <3>1, <3>2, Zenon
    <3>4. count'[t] # count[t]
      BY <3>3
    <3>5. UNCHANGED held \/ Covered
      BY <1>1, CrewPrepares, IndexPrepares, Zenon DEF Invoke, CrewKickoff, IndexRun
    <3> QED BY <3>4, <3>5, Zenon DEF Covered
  <2>2. CASE ~\E s, start : OpenSession(t, s, start)
    <3>1. \/ kind = "crew" /\ \E keys \in Keys(t) : CrewKickoff(t, keys)
          \/ kind \in {"query", "chat"} /\ \E keys \in Keys(t) : IndexRun(t, keys)
      BY <1>1, Zenon DEF Invoke
    <3>2. UNCHANGED held
      BY <1>1, <2>2, <3>1, CrewPrepares, IndexPrepares, Zenon DEF CrewKickoff, IndexRun
    <3> QED BY <3>2, Zenon
  <2> QED BY <2>1, <2>2, Zenon
<1>2. ASSUME AgentInv, [Next]_vars, kind \in {"crew", "query", "chat"},
             NEW k \in Tools, held[k] = "raw", held'[k] \in Tiers
      PROVE  count' # count /\ \A j \in Tools : held'[j] # "raw"
  <2>1. held' # held
    BY <1>0, <1>2, Zenon
  <2>2. Next /\ kind # "graph" /\ kind # "kernel"
    BY <1>2, <2>1, Zenon DEF vars
  <2>3. ~ChangeTools
    <3>1. ASSUME ChangeTools PROVE held'[k] \notin Tiers
      <4>1. held \in [Tools -> Tiers \cup {"out", "raw"}] /\ "out" \notin Tiers
        BY <1>2 DEF AgentInv, AgentTypeOK, Tiers
      <4> QED BY <1>0, <1>2, <3>1, <4>1, Zenon DEF ChangeTools
    <3> QED BY <1>2, <3>1, Zenon
  <2>4. \E t \in Turns : Invoke(t)
    BY <2>1, <2>2, <2>3, Zenon DEF Next, CallThrough, InterceptCall, RunTool, Park, Raise, Finish,
       DecideRequest, GraphWrapTools, WrapKernel, AddFunctions
  <2> QED BY <1>1, <1>2, <2>1, <2>4, Zenon
<1>3. ASSUME AgentInv, [Next]_vars
      PROVE  [(/\ kind \in {"crew", "query", "chat"}
               /\ \E k \in Tools : held[k] = "raw" /\ held'[k] \in Tiers)
              => (count' # count /\ \A k \in Tools : held'[k] # "raw")]_vars
  <2>1. (/\ kind \in {"crew", "query", "chat"}
         /\ \E k \in Tools : held[k] = "raw" /\ held'[k] \in Tiers)
        => (count' # count /\ \A k \in Tools : held'[k] # "raw")
    BY <1>2, <1>3, Zenon
  <2> QED BY ONLY <2>1, Zenon
<1> QED BY <1>3, AgentInvariance, PTL DEF Spec, PreparedWhole
=============================================================================
