------------------------------ MODULE DevEvents ------------------------------
(***************************************************************************)
(* The event stream of the local development server: _EventBroadcaster,    *)
(* _emit and _handle_events of undolog_sdk/dev.py, and the shutdown that   *)
(* releases the streams.  The lock covers the set of subscribers alone:    *)
(* puts happen outside it, from a copy of the set.                         *)
(***************************************************************************)
EXTENDS Integers, SequencesExt

CONSTANTS Emitters,   \* request handlers that publish events
          Streams,    \* GET /events requests
          QueueSize,  \* _SSE_QUEUE_SIZE
          MaxEvents,  \* bound: events published
          End         \* the None envelope

ASSUME EventsAssumption == QueueSize \in Nat \ {0} /\ MaxEvents \in Nat

\* An event: who published it, and its number among those of its publisher.
Events == Emitters \X Nat

\* What a queue holds: events, and the end marker.
Envelopes == Events \cup {End}

VARIABLES closed,       \* _closed
          subscribers,  \* _subscribers, each named after its stream
          queue,        \* the subscriptions' queues
          stream,       \* the threads of the streams
          present,      \* clients that still read their stream
          emitted,      \* emitted[h]: events emitter h has begun to publish
          putting,      \* putting[h]: queues its current event is still to reach
          releasing,    \* queues close() is still to put End in, in its order
          stopping,     \* stop() has called close()
          read,         \* history: the events each stream wrote
          dropped,      \* history: the events each full queue refused
          since         \* history: emitted when the stream subscribed

vars == <<closed, subscribers, queue, stream, present, emitted, putting, releasing,
          stopping, read, dropped, since>>

Init ==
    /\ closed = FALSE
    /\ subscribers = {}
    /\ queue = [r \in Streams |-> << >>]
    /\ stream = [r \in Streams |-> "idle"]
    /\ present = Streams
    /\ emitted = [h \in Emitters |-> 0]
    /\ putting = [h \in Emitters |-> {}]
    /\ releasing = << >>
    /\ stopping = FALSE
    /\ read = [r \in Streams |-> << >>]
    /\ dropped = [r \in Streams |-> {}]
    /\ since = [r \in Streams |-> emitted]

Published == FoldFunction(LAMBDA a, b : a + b, 0, emitted)
Full(r) == Len(queue[r]) >= QueueSize

\* subscribe: after close() the stream finds its end at once.
Subscribe(r) ==
    /\ stream[r] = "idle"
    /\ stream' = [stream EXCEPT ![r] = "open"]
    /\ since' = [since EXCEPT ![r] = emitted]
    /\ IF closed
       THEN queue' = [queue EXCEPT ![r] = <<End>>] /\ UNCHANGED subscribers
       ELSE subscribers' = subscribers \cup {r} /\ UNCHANGED queue
    /\ UNCHANGED <<closed, present, emitted, putting, releasing, stopping, read, dropped>>

\* Faulty variant: the subscribers are copied once per handler, not per event.
EmitOnce(h) ==
    /\ Published < MaxEvents /\ putting[h] = {}
    /\ emitted' = [emitted EXCEPT ![h] = @ + 1]
    /\ putting' = [putting EXCEPT ![h] = IF emitted[h] = 0 THEN subscribers ELSE {}]
    /\ UNCHANGED <<closed, subscribers, queue, stream, present, releasing, stopping, read, dropped, since>>

\* _emit, emit: the subscribers are copied under the lock ...
Emit(h) ==
    /\ Published < MaxEvents /\ putting[h] = {}
    /\ emitted' = [emitted EXCEPT ![h] = @ + 1]
    /\ putting' = [putting EXCEPT ![h] = subscribers]
    /\ UNCHANGED <<closed, subscribers, queue, stream, present, releasing, stopping, read, dropped, since>>

\* The history of a stream is kept while somebody reads it.
Watched(r) == stream[r] = "open" /\ r \in present

\* Faulty variant: an event goes in front of the ones that wait.
PutInFront(h) ==
    /\ \E r \in putting[h] :
          /\ putting' = [putting EXCEPT ![h] = @ \ {r}]
          /\ IF Full(r)
             THEN /\ dropped' = [dropped EXCEPT
                                    ![r] = @ \cup IF Watched(r) THEN {<<h, emitted[h]>>} ELSE {}]
                  /\ UNCHANGED queue
             ELSE queue' = [queue EXCEPT ![r] = <<<<h, emitted[h]>>>> \o @] /\ UNCHANGED dropped
    /\ UNCHANGED <<closed, subscribers, stream, present, emitted, releasing, stopping, read, since>>

\* ... and served one by one; a full queue drops the event.
Put(h) ==
    /\ \E r \in putting[h] :
          /\ putting' = [putting EXCEPT ![h] = @ \ {r}]
          /\ IF Full(r)
             THEN /\ dropped' = [dropped EXCEPT
                                    ![r] = @ \cup IF Watched(r) THEN {<<h, emitted[h]>>} ELSE {}]
                  /\ UNCHANGED queue
             ELSE queue' = [queue EXCEPT ![r] = Append(@, <<h, emitted[h]>>)] /\ UNCHANGED dropped
    /\ UNCHANGED <<closed, subscribers, stream, present, emitted, releasing, stopping, read, since>>

\* The loop of _handle_events: the end marker, or a write to a client that has
\* left, ends it; a heartbeat is such a write when the queue is empty.
StreamNext(r) ==
    /\ stream[r] = "open"
    /\ \/ /\ queue[r] # << >>
          /\ queue' = [queue EXCEPT ![r] = Tail(@)]
          /\ IF Head(queue[r]) # End /\ r \in present
             THEN read' = [read EXCEPT ![r] = Append(@, Head(queue[r]))] /\ UNCHANGED stream
             ELSE stream' = [stream EXCEPT ![r] = "leaving"] /\ UNCHANGED read
       \/ /\ queue[r] = << >> /\ r \notin present
          /\ stream' = [stream EXCEPT ![r] = "leaving"]
          /\ UNCHANGED <<queue, read>>
    /\ UNCHANGED <<closed, subscribers, present, emitted, putting, releasing, stopping, dropped, since>>

\* Nobody reads the stream any more: its history is of no further use.
Forget(r) ==
    /\ read' = [read EXCEPT ![r] = << >>]
    /\ dropped' = [dropped EXCEPT ![r] = {}]
    /\ since' = [since EXCEPT ![r] = [h \in Emitters |-> 0]]

\* The finally block: unsubscribe.
Unsubscribe(r) ==
    /\ stream[r] = "leaving"
    /\ stream' = [stream EXCEPT ![r] = "ended"]
    /\ subscribers' = subscribers \ {r}
    /\ Forget(r)
    /\ UNCHANGED <<closed, queue, present, emitted, putting, releasing, stopping>>

ClientLeaves(r) ==
    /\ stream[r] = "open" /\ r \in present
    /\ present' = present \ {r}
    /\ Forget(r)
    /\ UNCHANGED <<closed, subscribers, queue, stream, emitted, putting, releasing, stopping>>

\* Faulty variant: subscribing stays possible.
CloseStillOpen ==
    /\ ~stopping
    /\ stopping' = TRUE
    /\ releasing' \in SetToSeqs(subscribers)
    /\ subscribers' = {}
    /\ UNCHANGED <<closed, queue, stream, present, emitted, putting, read, dropped, since>>

\* stop, close: the flag is set and the set emptied under the lock ...
Close ==
    /\ ~stopping
    /\ stopping' = TRUE
    /\ closed' = TRUE
    /\ releasing' \in SetToSeqs(subscribers)
    /\ subscribers' = {}
    /\ UNCHANGED <<queue, stream, present, emitted, putting, read, dropped, since>>

\* ... and every queue gets the end marker, by a put that waits for room.
Release ==
    /\ releasing # << >>
    /\ ~Full(Head(releasing))
    /\ queue' = [queue EXCEPT ![Head(releasing)] = Append(@, End)]
    /\ releasing' = Tail(releasing)
    /\ UNCHANGED <<closed, subscribers, stream, present, emitted, putting, stopping, read, dropped, since>>

Next ==
    \/ \E r \in Streams : Subscribe(r) \/ StreamNext(r) \/ Unsubscribe(r) \/ ClientLeaves(r)
    \/ \E h \in Emitters : Emit(h) \/ Put(h)
    \/ Close \/ Release

Spec == Init /\ [][Next]_vars

(***************************************************************************)
(* Every stream and the stopping thread are threads the interpreter        *)
(* schedules; a waiting put and a waiting get return when they can.        *)
(***************************************************************************)
FairSpec ==
    /\ Spec
    /\ \A r \in Streams : WF_vars(StreamNext(r) \/ Unsubscribe(r))
    /\ \A h \in Emitters : WF_vars(Put(h))
    /\ WF_vars(Release)
-----------------------------------------------------------------------------
(***************************************************************************)
(* A stream shows the events of one request in the order the request       *)
(* published them, each at most once, though the queues are filled outside *)
(* the lock and events of other requests come in between.                  *)
(***************************************************************************)
EventOrder ==
    \A r \in Streams : \A i, j \in DOMAIN read[r] :
        i < j /\ read[r][i][1] = read[r][j][1] => read[r][i][2] < read[r][j][2]

(***************************************************************************)
(* While the server is up, an open stream has written, holds or was too    *)
(* full for every event that was published after it subscribed and whose   *)
(* emit is past its queue: nothing is lost between the copy of the         *)
(* subscribers and the put.                                                *)
(***************************************************************************)
NoMissedEvent ==
    \A r \in Streams, h \in Emitters : Watched(r) /\ ~closed =>
        \A n \in since[r][h] + 1 .. emitted[h] :
            \/ <<h, n>> \in ToSet(read[r]) \cup ToSet(queue[r]) \cup dropped[r]
            \/ n = emitted[h] /\ r \in putting[h]

\* close() waits for room in a queue that nobody reads any more.
Stuck == releasing # << >> /\ Full(Head(releasing)) /\ stream[Head(releasing)] = "ended"

(***************************************************************************)
(* "Closing the broadcaster releases every subscriber" (dev.py:762): once  *)
(* stop() is called every open stream ends, also one opened later and one  *)
(* with a full queue, unless close() is stuck at the full queue of a       *)
(* client that left after the set of subscribers was copied.               *)
(***************************************************************************)
StreamsEnd ==
    \A r \in Streams : (stopping /\ stream[r] = "open") ~> (stream[r] = "ended" \/ Stuck)
-----------------------------------------------------------------------------
(* The inductive invariant behind the first two                            *)

EventsTypeOK ==
    /\ queue \in [Streams -> Seq(Envelopes)]
    /\ read \in [Streams -> Seq(Events \ {End})]
    /\ dropped \in [Streams -> SUBSET Events]
    /\ subscribers \in SUBSET Streams
    /\ stream \in [Streams -> {"idle", "open", "leaving", "ended"}]
    /\ present \in SUBSET Streams
    /\ emitted \in [Emitters -> Nat]
    /\ putting \in [Emitters -> SUBSET Streams]
    /\ since \in [Streams -> [Emitters -> Nat]]

\* x goes before y when one emitter published both.
Before(x, y) == x # End /\ y # End /\ x[1] = y[1] => x[2] < y[2]

\* The events of a stream are in order on their way: in its queue q, from what
\* was read to what is queued, and in what was read, d.
Line(q, d) ==
    /\ \A i, j \in 1..Len(q) : i < j => Before(q[i], q[j])
    /\ \A i \in 1..Len(d), j \in 1..Len(q) : Before(d[i], q[j])
    /\ \A i, j \in 1..Len(d) : i < j => Before(d[i], d[j])

InOrder == \A r \in Streams : Line(queue[r], read[r])

\* x has been published, and before the event that is still on its way to r.
Old(x, r) ==
    x # End => /\ x[2] <= emitted[x[1]]
               /\ r \in putting[x[1]] => x[2] < emitted[x[1]]

NothingFromTheFuture ==
    \A r \in Streams : \A x \in ToSet(queue[r]) \cup ToSet(read[r]) : Old(x, r)

\* Until close() an open stream is subscribed, and nothing releases it.
SubscribedWhileOpen ==
    ~closed => /\ releasing = << >>
               /\ \A r \in Streams : Watched(r) => r \in subscribers

(* The conjunction that every step of the handlers, the streams and the
   stopping thread preserves. *)
EventsInv ==
    /\ EventsTypeOK
    /\ InOrder
    /\ NothingFromTheFuture
    /\ SubscribedWhileOpen
    /\ NoMissedEvent
=============================================================================
