----------------------------- MODULE EngineGuard -----------------------------
(***************************************************************************)
(* The guard the proxy's engine client puts around every client-facing RPC *)
(* (services/undolog-proxy/internal/engine): the circuit breaker admits a  *)
(* call first, then the queue and the gate; after the RPC the slot is      *)
(* given back and the breaker is told the outcome.                         *)
(*                                                                         *)
(* A process of Calls is one RPC at a time.  Every critical section of the *)
(* gate's, the queue's and the breaker's mutex is a step of its own, so    *)
(* calls interleave between them as goroutines do.  Time is abstracted to  *)
(* what the code compares it with: the reset interval has passed (cooled), *)
(* and a wait ends by its budget or the caller's context (Expire).         *)
(***************************************************************************)
EXTENDS Integers, FiniteSets

CONSTANTS
    Calls,          \* goroutines that call the engine
    MaxInFlight,    \* BackpressureConfig.MaxInFlight
    QueueMax,       \* BackpressureConfig.QueueMax; 0 is a gate without a queue
    Threshold       \* BackpressureConfig.BreakerThreshold

ASSUME GuardAssumption ==
    /\ IsFiniteSet(Calls)
    /\ MaxInFlight \in Nat \ {0}
    /\ QueueMax \in Nat
    /\ Threshold \in Nat \ {0}

VARIABLES
    pc,         \* where each call is
    freed,      \* the release channel it holds: none, open or closed
    err,        \* the outcome of its RPC, as record classifies it
    inFlight,   \* gate.inFlight
    waiting,    \* queue.waiting
    breaker,    \* breaker.state
    failures,   \* breaker.failures
    probing,    \* breaker.probing
    cooled,     \* the breaker is open and resetAfter has passed since openedAt
    probes,     \* the calls this half-open period admitted as its probes
    up          \* the engine answers within the callers' deadlines

gateVars    == <<inFlight, freed>>
breakerVars == <<breaker, failures, probing, cooled, probes>>
vars        == <<pc, err, waiting, up, gateVars, breakerVars>>

Queued  == {"fetch", "retry", "sleep", "admitted", "leave"}
Holding == {"admitted", "rpc", "release"}
PCs     == {"idle", "try", "enqueue", "give_up", "record"} \cup Queued \cup Holding

GuardTypeOK ==
    /\ pc \in [Calls -> PCs]
    /\ freed \in [Calls -> {"none", "open", "closed"}]
    /\ err \in [Calls -> {"healthy", "lost"}]
    /\ inFlight \in Nat
    /\ waiting \in Nat
    /\ breaker \in {"closed", "half_open", "open"}
    /\ failures \in 0..Threshold
    /\ probing \in BOOLEAN
    /\ cooled \in BOOLEAN
    /\ probes \in SUBSET Calls
    /\ up \in BOOLEAN

Init ==
    /\ pc = [c \in Calls |-> "idle"]
    /\ freed = [c \in Calls |-> "none"]
    /\ err = [c \in Calls |-> "healthy"]
    /\ inFlight = 0
    /\ waiting = 0
    /\ breaker = "closed"
    /\ failures = 0
    /\ probing = FALSE
    /\ cooled = FALSE
    /\ probes = {}
    /\ up \in BOOLEAN

Goto(c, next) == pc' = [pc EXCEPT ![c] = next]

-----------------------------------------------------------------------------
(* breaker.allow.  A call it refuses changes nothing.                      *)

AllowClosed(c) ==
    /\ pc[c] = "idle"
    /\ breaker = "closed"
    /\ Goto(c, "try")
    /\ UNCHANGED <<err, waiting, up, gateVars, breakerVars>>

AllowProbe(c) ==
    /\ pc[c] = "idle"
    /\ breaker = "half_open" /\ ~probing
    /\ probing' = TRUE
    /\ probes' = probes \cup {c}
    /\ Goto(c, "try")
    /\ UNCHANGED <<err, waiting, up, gateVars, breaker, failures, cooled>>

\* The lazy transition of an open breaker.
AllowReset(c) ==
    /\ pc[c] = "idle"
    /\ breaker = "open" /\ cooled
    /\ breaker' = "half_open"
    /\ cooled' = FALSE
    /\ probing' = TRUE
    /\ probes' = {c}
    /\ Goto(c, "try")
    /\ UNCHANGED <<err, waiting, up, gateVars, failures>>

-----------------------------------------------------------------------------
(* queue.admit and gate.tryAcquire                                         *)

\* Faulty variant: inFlight > max refuses.
TryAcquireOver(c, taken, full) ==
    IF inFlight > MaxInFlight
    THEN Goto(c, full) /\ UNCHANGED inFlight
    ELSE Goto(c, taken) /\ inFlight' = inFlight + 1

TryAcquire(c, taken, full) ==
    IF inFlight >= MaxInFlight
    THEN Goto(c, full) /\ UNCHANGED inFlight
    ELSE Goto(c, taken) /\ inFlight' = inFlight + 1

TakeSlot(c) ==
    /\ pc[c] = "try"
    /\ TryAcquire(c, "rpc", "enqueue")
    /\ UNCHANGED <<freed, err, waiting, up, breakerVars>>

Enqueue(c) ==
    /\ pc[c] = "enqueue"
    /\ IF waiting >= QueueMax
       THEN Goto(c, "give_up") /\ UNCHANGED waiting
       ELSE Goto(c, "fetch") /\ waiting' = waiting + 1
    /\ UNCHANGED <<err, up, gateVars, breakerVars>>

\* waitForRelease, before the gate is tried again.
Fetch(c) ==
    /\ pc[c] = "fetch"
    /\ freed' = [freed EXCEPT ![c] = "open"]
    /\ Goto(c, "retry")
    /\ UNCHANGED <<inFlight, err, waiting, up, breakerVars>>

TrySlot(c) ==
    /\ pc[c] = "retry"
    /\ TryAcquire(c, "admitted", "sleep")
    /\ UNCHANGED <<freed, err, waiting, up, breakerVars>>

Wake(c) ==
    /\ pc[c] = "sleep"
    /\ freed[c] = "closed"
    /\ Goto(c, "fetch")
    /\ UNCHANGED <<err, waiting, up, gateVars, breakerVars>>

\* Faulty variant: no timer and a context that is not looked at.
ExpireNever(c) == pc[c] = "never" /\ UNCHANGED vars

\* The budget's timer fires, or the caller's context ends.
Expire(c) ==
    /\ pc[c] = "sleep"
    /\ Goto(c, "leave")
    /\ UNCHANGED <<err, waiting, up, gateVars, breakerVars>>

\* The deferred decrement, on the way to the RPC or out of the guard.
Dequeue(c) ==
    /\ pc[c] \in {"admitted", "leave"}
    /\ waiting' = waiting - 1
    /\ freed' = [freed EXCEPT ![c] = "none"]
    /\ Goto(c, IF pc[c] = "admitted" THEN "rpc" ELSE "give_up")
    /\ UNCHANGED <<inFlight, err, up, breakerVars>>

\* Faulty variant: without releaseProbe.
GiveUpKeepingProbe(c) ==
    /\ pc[c] = "give_up"
    /\ probes' = probes \ {c}
    /\ Goto(c, "idle")
    /\ UNCHANGED <<err, waiting, up, gateVars, breaker, failures, probing, cooled>>

\* enter returns the rejection; releaseProbe clears whatever permit is out.
GiveUp(c) ==
    /\ pc[c] = "give_up"
    /\ probing' = (probing /\ breaker # "half_open")
    /\ probes' = probes \ {c}
    /\ Goto(c, "idle")
    /\ UNCHANGED <<err, waiting, up, gateVars, breaker, failures, cooled>>

-----------------------------------------------------------------------------
(* The RPC and the release function                                        *)

\* A lost connection counts against the engine, an answer of any kind for it.
Rpc(c) ==
    /\ pc[c] = "rpc"
    /\ err' = [err EXCEPT ![c] = IF up THEN "healthy" ELSE "lost"]
    /\ Goto(c, "release")
    /\ UNCHANGED <<waiting, up, gateVars, breakerVars>>

\* Faulty variant: the channel is replaced and the old one never closed.
ReleaseSilently(c) ==
    /\ pc[c] = "release"
    /\ inFlight' = inFlight - 1
    /\ Goto(c, "record")
    /\ UNCHANGED <<freed, err, waiting, up, breakerVars>>

\* close(g.freed) reaches everyone who holds the current channel.
Release(c) ==
    /\ pc[c] = "release"
    /\ inFlight' = inFlight - 1
    /\ freed' = [d \in Calls |-> IF freed[d] = "open" THEN "closed" ELSE freed[d]]
    /\ Goto(c, "record")
    /\ UNCHANGED <<err, waiting, up, breakerVars>>

\* The call is over; what its error was no longer matters.
Return(c) == Goto(c, "idle") /\ err' = [err EXCEPT ![c] = "healthy"]

Open == breaker' = "open" /\ cooled' = FALSE

\* breaker.record while closed.
RecordClosed(c) ==
    /\ pc[c] = "record"
    /\ breaker = "closed"
    /\ failures' = IF err[c] = "healthy" THEN 0 ELSE failures + 1
    /\ IF failures' >= Threshold THEN Open ELSE UNCHANGED <<breaker, cooled>>
    /\ Return(c)
    /\ UNCHANGED <<waiting, up, gateVars, probing, probes>>

\* Faulty variant: a failed probe neither opens the breaker nor ends the probing.
RecordHalfOpenStuck(c) ==
    /\ pc[c] = "record"
    /\ breaker = "half_open"
    /\ IF err[c] = "healthy"
       THEN breaker' = "closed" /\ failures' = 0 /\ probing' = FALSE /\ probes' = {}
       ELSE UNCHANGED <<breaker, failures, probing, probes>>
    /\ Return(c)
    /\ UNCHANGED <<cooled, waiting, up, gateVars>>

\* ... while half-open, whoever the call is.
RecordHalfOpen(c) ==
    /\ pc[c] = "record"
    /\ breaker = "half_open"
    /\ probing' = FALSE
    /\ probes' = {}
    /\ IF err[c] = "healthy"
       THEN breaker' = "closed" /\ failures' = 0 /\ UNCHANGED cooled
       ELSE Open /\ UNCHANGED failures
    /\ Return(c)
    /\ UNCHANGED <<waiting, up, gateVars>>

\* ... while open: nothing.
RecordOpen(c) ==
    /\ pc[c] = "record"
    /\ breaker = "open"
    /\ Return(c)
    /\ UNCHANGED <<waiting, up, gateVars, breakerVars>>

-----------------------------------------------------------------------------
Cool ==
    /\ breaker = "open" /\ ~cooled
    /\ cooled' = TRUE
    /\ UNCHANGED <<pc, err, waiting, up, gateVars, breaker, failures, probing, probes>>

EngineComesOrGoes == up' = ~up /\ UNCHANGED <<pc, err, waiting, gateVars, breakerVars>>

Admit(c) == AllowClosed(c) \/ AllowProbe(c) \/ AllowReset(c)

Proceed(c) ==
    \/ TakeSlot(c) \/ Enqueue(c) \/ Fetch(c) \/ TrySlot(c) \/ Wake(c) \/ Dequeue(c)
    \/ GiveUp(c) \/ Rpc(c) \/ Release(c)
    \/ RecordClosed(c) \/ RecordHalfOpen(c) \/ RecordOpen(c)

Next ==
    \/ \E c \in Calls : Admit(c) \/ Proceed(c) \/ Expire(c)
    \/ Cool
    \/ EngineComesOrGoes

GuardSpec == Init /\ [][Next]_vars

\* Goroutines that can run do and calls keep arriving.  A timer that has fired
\* stays ready, and select picks among what is ready at random: a caller that
\* comes back to it again and again is not passed over for ever.
FairGuardSpec ==
    /\ GuardSpec
    /\ \A c \in Calls : WF_vars(Proceed(c)) /\ SF_vars(Expire(c))
    /\ SF_vars(\E c \in Calls : Admit(c))
    /\ WF_vars(Cool)
-----------------------------------------------------------------------------
\* How many calls are at one of these places.
Count(p, places) == Cardinality({c \in Calls : p[c] \in places})

(* The gate's counter is the number of calls that hold a slot and stays within
   the cap that keeps the engine's pool from exhausting: no rejection, timeout
   or wake-up between two critical sections leaks or duplicates a slot. *)
GateExact ==
    /\ inFlight = Count(pc, Holding)
    /\ inFlight <= MaxInFlight

(* So does the queue's: callers that are admitted, time out or find the queue
   full each leave it exactly once. *)
QueueExact ==
    /\ waiting = Count(pc, Queued)
    /\ waiting <= QueueMax

(* "the loop can never sleep through a freed slot" (queue.go): a caller asleep
   on a channel that is still open has no slot to miss. *)
NoLostWakeup ==
    \A c \in Calls : pc[c] = "sleep" /\ freed[c] = "open" => inFlight = MaxInFlight

(* The half-open permit is never leaked: while it is out, one of the probes of
   this half-open period is on its way to record or releaseProbe, also when
   calls admitted before the breaker opened finish or give up meanwhile. *)
NoLeakedProbe ==
    breaker = "half_open" /\ probing => \E c \in probes : pc[c] # "idle"

(* Every call that is let in comes out again. *)
CallsReturn == \A c \in Calls : pc[c] # "idle" ~> pc[c] = "idle"

(* Once the engine answers for good the breaker closes for good, whatever the
   calls of the outage still record and release. *)
Recovers == <>[]up => <>[](breaker = "closed")

(* What the steps of the guard preserve together: a closed breaker has not
   reached its threshold, and the counters, the wake-ups and the permit above. *)
GuardInv ==
    /\ GuardTypeOK
    /\ breaker = "closed" => failures < Threshold
    /\ GateExact
    /\ QueueExact
    /\ NoLostWakeup
    /\ NoLeakedProbe
=============================================================================
