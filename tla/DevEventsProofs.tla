--------------------------- MODULE DevEventsProofs ---------------------------
(***************************************************************************)
(* The event stream of the development server keeps the order and loses    *)
(* nothing, for any number of handlers, streams and events and any size of *)
(* the queues.                                                             *)
(***************************************************************************)
EXTENDS DevEvents, SequenceTheorems, TLAPS

-----------------------------------------------------------------------------
(* Sequences                                                               *)

\* An element is put at the end.
LEMMA Appended ==
    ASSUME NEW S, NEW q \in Seq(S), NEW x \in S
    PROVE  /\ Append(q, x) \in Seq(S) /\ Len(q) \in Nat /\ Len(Append(q, x)) = Len(q) + 1
           /\ \A i \in 1..Len(q) : Append(q, x)[i] = q[i]
           /\ Append(q, x)[Len(q) + 1] = x
           /\ ToSet(Append(q, x)) = ToSet(q) \cup {x}
<1>1. /\ Append(q, x) \in Seq(S) /\ Len(q) \in Nat /\ Len(Append(q, x)) = Len(q) + 1
      /\ \A i \in 1..Len(q) : Append(q, x)[i] = q[i]
      /\ Append(q, x)[Len(q) + 1] = x
  BY AppendProperties
<1>2. DOMAIN q = 1..Len(q) /\ DOMAIN Append(q, x) = 1..Len(q) + 1
  BY <1>1
<1>3. 1..Len(q) + 1 = 1..Len(q) \cup {Len(q) + 1}
  BY <1>1
<1>4. ToSet(Append(q, x)) = ToSet(q) \cup {x}
  <2>1. ASSUME NEW y \in ToSet(Append(q, x)) PROVE y \in ToSet(q) \cup {x}
    <3>1. PICK i \in 1..Len(q) + 1 : y = Append(q, x)[i]
      BY <1>2, Zenon DEF ToSet
    <3>2. i \in 1..Len(q) \/ i = Len(q) + 1
      BY <1>3, Zenon
    <3> QED BY <1>1, <1>2, <3>1, <3>2, Zenon DEF ToSet
  <2>2. ASSUME NEW y \in ToSet(q) PROVE y \in ToSet(Append(q, x))
    <3>1. PICK i \in 1..Len(q) : y = q[i]
      BY <1>2, Zenon DEF ToSet
    <3>2. i \in DOMAIN Append(q, x) /\ y = Append(q, x)[i]
      BY <1>1, <1>2, <1>3, <3>1, Zenon
    <3> QED BY <3>2, Zenon DEF ToSet
  <2>3. x \in ToSet(Append(q, x))
    <3>1. Len(q) + 1 \in DOMAIN Append(q, x)
      BY <1>2, <1>3, Zenon
    <3> QED BY <1>1, <3>1, Zenon DEF ToSet
  <2> QED BY <2>1, <2>2, <2>3, Zenon
<1> QED BY <1>1, <1>4, Zenon

\* The first element is taken.
LEMMA Shifted ==
    ASSUME NEW S, NEW q \in Seq(S), q # << >>
    PROVE  /\ Tail(q) \in Seq(S) /\ Head(q) \in S /\ Head(q) = q[1] /\ Len(q) \in Nat
           /\ 1 \in 1..Len(q) /\ Len(Tail(q)) = Len(q) - 1
           /\ \A i \in 1..Len(Tail(q)) : Tail(q)[i] = q[i + 1] /\ i + 1 \in 1..Len(q)
           /\ ToSet(q) = {Head(q)} \cup ToSet(Tail(q))
<1>1. /\ Tail(q) \in Seq(S) /\ Head(q) \in S /\ Head(q) = q[1] /\ Len(q) \in Nat
      /\ 1 \in 1..Len(q) /\ Len(Tail(q)) = Len(q) - 1
      /\ \A i \in 1..Len(Tail(q)) : Tail(q)[i] = q[i + 1] /\ i + 1 \in 1..Len(q)
  BY HeadTailProperties
<1>2. DOMAIN q = 1..Len(q) /\ DOMAIN Tail(q) = 1..Len(q) - 1
  BY <1>1
<1>3. \A j \in 1..Len(q) : j = 1 \/ \E i \in 1..Len(q) - 1 : j = i + 1
  <2> SUFFICES ASSUME NEW j \in 1..Len(q), j # 1 PROVE \E i \in 1..Len(q) - 1 : j = i + 1
    BY Zenon
  <2>1. j - 1 \in 1..Len(q) - 1 /\ j = (j - 1) + 1
    BY <1>1
  <2> QED BY <2>1, Zenon
<1>4. ToSet(q) = {Head(q)} \cup ToSet(Tail(q))
  <2>1. ASSUME NEW y \in ToSet(q) PROVE y \in {Head(q)} \cup ToSet(Tail(q))
    <3>1. PICK j \in 1..Len(q) : y = q[j]
      BY <1>2, <2>1, Zenon DEF ToSet
    <3>2. CASE j = 1
      BY <1>1, <3>1, <3>2, Zenon
    <3>3. CASE j # 1
      <4>1. PICK i \in 1..Len(q) - 1 : j = i + 1
        BY <1>3, <3>3, Zenon
      <4> QED BY <1>1, <1>2, <3>1, <4>1, Zenon DEF ToSet
    <3> QED BY <3>2, <3>3, Zenon
  <2>2. ASSUME NEW y \in {Head(q)} \cup ToSet(Tail(q)) PROVE y \in ToSet(q)
    <3>1. CASE y = Head(q)
      BY <1>1, <1>2, <3>1, Zenon DEF ToSet
    <3>2. CASE y \in ToSet(Tail(q))
      <4>1. PICK i \in 1..Len(Tail(q)) : y = Tail(q)[i]
        BY <1>1, <1>2, <3>2, Zenon DEF ToSet
      <4> QED BY <1>1, <1>2, <4>1, Zenon DEF ToSet
    <3> QED BY <2>2, <3>1, <3>2, Zenon
  <2> QED BY <2>1, <2>2, Zenon
<1> QED BY <1>1, <1>4, Zenon

-----------------------------------------------------------------------------
(* Order                                                                   *)

\* Something later than everything goes to the end of the queue.
LEMMA LineAppend ==
    ASSUME NEW S, NEW q \in Seq(S), NEW d, NEW x \in S, Line(q, d),
           \A i \in 1..Len(q) : Before(q[i], x), \A i \in 1..Len(d) : Before(d[i], x)
    PROVE  Line(Append(q, x), d)
<1> DEFINE p == Append(q, x)
<1>1. /\ Len(q) \in Nat /\ Len(p) = Len(q) + 1 /\ p[Len(q) + 1] = x
      /\ \A i \in 1..Len(q) : p[i] = q[i]
  BY Appended
<1> HIDE DEF p
<1>2. ASSUME NEW i \in 1..Len(p), NEW j \in 1..Len(p), i < j PROVE Before(p[i], p[j])
  <2>1. i \in 1..Len(q) /\ (j \in 1..Len(q) \/ j = Len(q) + 1)
    BY <1>1, <1>2
  <2> QED BY <1>1, <1>2, <2>1, Zenon DEF Line
<1>3. ASSUME NEW i \in 1..Len(d), NEW j \in 1..Len(p) PROVE Before(d[i], p[j])
  <2>1. j \in 1..Len(q) \/ j = Len(q) + 1
    BY <1>1, <1>3
  <2> QED BY <1>1, <2>1, Zenon DEF Line
<1>4. Line(p, d)
  BY <1>2, <1>3, Zenon DEF Line
<1> QED BY <1>4, Zenon DEF p

\* The first of the queue is dropped, or becomes the last that was read.
LEMMA LineShift ==
    ASSUME NEW S, NEW q \in Seq(S), q # << >>, NEW T, NEW d \in Seq(T), Line(q, d)
    PROVE  /\ Line(Tail(q), d)
           /\ Head(q) \in T => Line(Tail(q), Append(d, Head(q)))
<1> DEFINE p == Tail(q)
<1>1. /\ Len(q) \in Nat /\ Len(p) = Len(q) - 1 /\ Head(q) = q[1] /\ 1 \in 1..Len(q)
      /\ \A i \in 1..Len(p) : p[i] = q[i + 1] /\ i + 1 \in 1..Len(q)
  BY Shifted
<1> HIDE DEF p
<1>2. ASSUME NEW i \in 1..Len(p), NEW j \in 1..Len(p), i < j PROVE Before(p[i], p[j])
  <2>1. i + 1 < j + 1
    BY <1>2
  <2> QED BY <1>1, <2>1, Zenon DEF Line
<1>3. ASSUME NEW i \in 1..Len(d), NEW j \in 1..Len(p) PROVE Before(d[i], p[j])
  BY <1>1, Zenon DEF Line
<1>4. ASSUME NEW j \in 1..Len(p) PROVE Before(q[1], p[j])
  <2>1. 1 < j + 1
    BY <1>1
  <2> QED BY <1>1, <2>1, Zenon DEF Line
<1>5. Line(p, d)
  BY <1>2, <1>3, Zenon DEF Line
<1>6. ASSUME Head(q) \in T PROVE Line(p, Append(d, Head(q)))
  <2> DEFINE a == Append(d, Head(q))
  <2>1. /\ Len(d) \in Nat /\ Len(a) = Len(d) + 1 /\ a[Len(d) + 1] = q[1]
        /\ \A i \in 1..Len(d) : a[i] = d[i]
    BY <1>1, <1>6, Appended
  <2> HIDE DEF a
  <2>2. ASSUME NEW i \in 1..Len(a), NEW j \in 1..Len(p) PROVE Before(a[i], p[j])
    <3>1. i \in 1..Len(d) \/ i = Len(d) + 1
      BY <2>1, <2>2
    <3> QED BY <1>3, <1>4, <2>1, <3>1, Zenon
  <2>3. ASSUME NEW i \in 1..Len(a), NEW j \in 1..Len(a), i < j PROVE Before(a[i], a[j])
    <3>1. i \in 1..Len(d) /\ (j \in 1..Len(d) \/ j = Len(d) + 1)
      BY <2>1, <2>3
    <3> QED BY <1>1, <2>1, <2>3, <3>1, Zenon DEF Line
  <2>4. Line(p, a)
    BY <1>2, <2>2, <2>3, Zenon DEF Line
  <2> QED BY <2>4, Zenon DEF a
<1> QED BY <1>5, <1>6, Zenon DEF p

\* The history is forgotten, or the queue holds the marker only.
LEMMA LineFresh ==
    ASSUME NEW q, NEW d, Line(q, d)
    PROVE  Line(q, << >>) /\ Line(<<End>>, d)
<1>1. 1..Len(<< >>) = {} /\ 1..Len(<<End>>) = {1} /\ <<End>>[1] = End
  OBVIOUS
<1>2. Line(q, << >>)
  BY <1>1, Zenon DEF Line
<1>3. Line(<<End>>, d)
  BY <1>1, Zenon DEF Line, Before
<1> QED BY <1>2, <1>3, Zenon

-----------------------------------------------------------------------------
(* What a stream has of the events                                         *)

\* What stream r wrote, holds or was too full for.
Account(r) == ToSet(read[r]) \cup ToSet(queue[r]) \cup dropped[r]

\* The elements of the queues and of what was read are events, or the marker.
LEMMA Elements ==
    ASSUME EventsTypeOK, NEW r \in Streams
    PROVE  /\ queue[r] \in Seq(Envelopes) /\ read[r] \in Seq(Events \ {End})
           /\ ToSet(queue[r]) \subseteq Envelopes
           /\ ToSet(read[r]) \subseteq Events \ {End}
           /\ \A i \in 1..Len(queue[r]) : queue[r][i] \in ToSet(queue[r])
           /\ \A i \in 1..Len(read[r]) : read[r][i] \in ToSet(read[r])
<1>1. queue[r] \in Seq(Envelopes) /\ read[r] \in Seq(Events \ {End})
  BY Zenon DEF EventsTypeOK
<1>2. ASSUME NEW S, NEW q \in Seq(S)
      PROVE  ToSet(q) \subseteq S /\ \A i \in 1..Len(q) : q[i] \in ToSet(q)
  <2>1. DOMAIN q = 1..Len(q) /\ \A i \in 1..Len(q) : q[i] \in S
    BY <1>2
  <2> QED BY <2>1, Zenon DEF ToSet
<1> QED BY <1>1, <1>2, Zenon

\* No emitter begins another event: what was old stays so.
LEMMA StaysOld ==
    ASSUME EventsTypeOK, NothingFromTheFuture, UNCHANGED emitted,
           \A h \in Emitters : putting'[h] \subseteq putting[h],
           \A r \in Streams :
              \A x \in (ToSet(queue[r]) \cup ToSet(read[r]))' :
                 \/ x \in ToSet(queue[r]) \cup ToSet(read[r])
                 \/ x = End
                 \/ \E h \in Emitters : x = <<h, emitted[h]>> /\ r \notin putting'[h]
    PROVE  NothingFromTheFuture'
<1> SUFFICES ASSUME NEW r \in Streams, NEW x \in (ToSet(queue[r]) \cup ToSet(read[r]))', x # End
             PROVE  /\ x[2] <= emitted[x[1]]
                    /\ r \in putting'[x[1]] => x[2] < emitted[x[1]]
  BY Zenon DEF NothingFromTheFuture, Old
<1>1. CASE x \in ToSet(queue[r]) \cup ToSet(read[r])
  <2>1. x \in Events /\ Old(x, r)
    BY <1>1, Elements, Zenon DEF NothingFromTheFuture, Envelopes
  <2>2. x[1] \in Emitters
    BY <2>1 DEF Events
  <2> QED BY <2>1, <2>2, Zenon DEF Old
<1>2. ASSUME NEW h \in Emitters, x = <<h, emitted[h]>>, r \notin putting'[h]
      PROVE  x[2] <= emitted[x[1]] /\ r \notin putting'[x[1]]
  <2>1. emitted[h] \in Nat
    BY Zenon DEF EventsTypeOK
  <2> QED BY <1>2, <2>1
<1> QED BY <1>1, <1>2, Zenon

\* No emitter begins another event and no stream subscribes: nothing is missed
\* when what leaves putting is accounted for.
LEMMA StillAccounted ==
    ASSUME NoMissedEvent, UNCHANGED emitted,
           \A r \in Streams : Watched(r)' /\ ~closed' =>
              /\ Watched(r) /\ ~closed /\ since'[r] = since[r] /\ Account(r) \subseteq Account(r)'
              /\ \A h \in Emitters :
                    r \in putting[h] => r \in putting'[h] \/ <<h, emitted[h]>> \in Account(r)'
    PROVE  NoMissedEvent'
<1> SUFFICES ASSUME NEW r \in Streams, NEW h \in Emitters, Watched(r)', ~closed',
                    NEW n \in since[r][h] + 1 .. emitted[h], since'[r] = since[r]
             PROVE  <<h, n>> \in Account(r)' \/ (n = emitted[h] /\ r \in putting'[h])
  BY Zenon DEF NoMissedEvent, Account
<1>1. <<h, n>> \in Account(r) \/ (n = emitted[h] /\ r \in putting[h])
  BY Zenon DEF NoMissedEvent, Account
<1> QED BY <1>1, Zenon

-----------------------------------------------------------------------------
(* The steps                                                               *)

\* emit puts an event into one queue, or the queue is full.
LEMMA PutStep ==
    ASSUME EventsInv, NEW h \in Emitters, Put(h)
    PROVE  EventsInv'
<1>0. /\ EventsTypeOK /\ InOrder /\ NothingFromTheFuture /\ SubscribedWhileOpen /\ NoMissedEvent
  BY Zenon DEF EventsInv
<1> DEFINE x == <<h, emitted[h]>>
<1>1. PICK r \in putting[h] :
        /\ putting' = [putting EXCEPT ![h] = @ \ {r}]
        /\ \/ /\ dropped' = [dropped EXCEPT ![r] = @ \cup IF Watched(r) THEN {x} ELSE {}]
              /\ UNCHANGED queue
           \/ queue' = [queue EXCEPT ![r] = Append(@, x)] /\ UNCHANGED dropped
  BY Zenon DEF Put
<1>2. UNCHANGED <<closed, subscribers, stream, present, emitted, releasing, read, since>>
  BY Zenon DEF Put
<1>3. r \in Streams /\ emitted[h] \in Nat /\ x \in Events
  BY <1>0, <1>1, Zenon DEF EventsTypeOK, Events
<1> HIDE DEF x
<1>4. /\ putting'[h] = putting[h] \ {r}
      /\ \A k \in Emitters : k # h => putting'[k] = putting[k]
      /\ \A k \in Emitters : putting'[k] \subseteq putting[k]
      /\ putting' \in [Emitters -> SUBSET Streams]
  BY <1>0, <1>1, Zenon DEF EventsTypeOK
<1>5. /\ queue'[r] \in {queue[r], Append(queue[r], x)}
      /\ \A s \in Streams : s # r => queue'[s] = queue[s] /\ dropped'[s] = dropped[s]
      /\ dropped[r] \subseteq dropped'[r]
      /\ Watched(r) => x \in dropped'[r] \/ queue'[r] = Append(queue[r], x)
  BY <1>0, <1>1, <1>3, Zenon DEF EventsTypeOK
<1>6. /\ Append(queue[r], x) \in Seq(Envelopes)
      /\ ToSet(Append(queue[r], x)) = ToSet(queue[r]) \cup {x}
  <2>1. queue[r] \in Seq(Envelopes) /\ x \in Envelopes
    BY <1>0, <1>3, Elements, Zenon DEF Envelopes
  <2> QED BY <2>1, Appended
<1>7. EventsTypeOK'
  <2>1. queue' \in [Streams -> Seq(Envelopes)]
    BY <1>0, <1>1, <1>6, Zenon DEF EventsTypeOK
  <2>2. dropped' \in [Streams -> SUBSET Events]
    <3>1. \A k \in Streams : dropped[k] \in SUBSET Events
      BY <1>0, Zenon DEF EventsTypeOK
    <3>2. dropped[r] \cup (IF Watched(r) THEN {x} ELSE {}) \in SUBSET Events
      BY <1>3, <3>1, Zenon
    <3> QED BY <1>0, <1>1, <1>3, <3>2, Zenon DEF EventsTypeOK
  <2> QED BY <1>0, <1>2, <1>4, <2>1, <2>2, Zenon DEF EventsTypeOK
<1>8. InOrder'
  <2>1. ASSUME NEW y \in ToSet(queue[r]) \cup ToSet(read[r]) PROVE Before(y, x)
    <3>1. Old(y, r) /\ y \in Envelopes
      BY <1>0, <1>3, <2>1, Elements, Zenon DEF NothingFromTheFuture, Envelopes
    <3> QED BY <1>1, <3>1 DEF Old, Before, x, Envelopes
  <2>2. Line(queue[r], read[r])
    BY <1>0, <1>3, Zenon DEF InOrder
  <2>3. Line(Append(queue[r], x), read[r])
    <3>1. queue[r] \in Seq(Envelopes) /\ x \in Envelopes
      BY <1>0, <1>3, Elements, Zenon DEF Envelopes
    <3>2. /\ \A i \in 1..Len(queue[r]) : Before(queue[r][i], x)
          /\ \A i \in 1..Len(read[r]) : Before(read[r][i], x)
      BY <1>0, <1>3, <2>1, Elements, Zenon
    <3> QED BY <2>2, <3>1, <3>2, LineAppend, Zenon
  <2>4. Line(queue'[r], read[r])
    BY <1>5, <2>2, <2>3, Zenon
  <2>5. \A s \in Streams : Line(queue'[s], read'[s])
    BY <1>0, <1>2, <1>5, <2>4, Zenon DEF InOrder
  <2> QED BY <2>5, Zenon DEF InOrder, Line, Before
<1>9. NothingFromTheFuture'
  <2>1. \A s \in Streams :
           \A y \in (ToSet(queue[s]) \cup ToSet(read[s]))' :
              \/ y \in ToSet(queue[s]) \cup ToSet(read[s])
              \/ y = End
              \/ \E k \in Emitters : y = <<k, emitted[k]>> /\ s \notin putting'[k]
    <3> SUFFICES ASSUME NEW s \in Streams, NEW y \in ToSet(queue'[s]) \cup ToSet(read'[s])
                 PROVE  \/ y \in ToSet(queue[s]) \cup ToSet(read[s])
                        \/ s = r /\ y = x
      BY <1>4, Zenon DEF x, ToSet
    <3>1. CASE s = r
      BY <1>2, <1>5, <1>6, <3>1, Zenon
    <3>2. CASE s # r
      BY <1>2, <1>5, <3>2, Zenon
    <3> QED BY <3>1, <3>2, Zenon
  <2> QED BY <1>0, <1>2, <1>4, <2>1, StaysOld, Zenon
<1>10. SubscribedWhileOpen'
  BY <1>0, <1>2, Zenon DEF SubscribedWhileOpen, Watched
<1>11. NoMissedEvent'
  <2>1. \A s \in Streams : ToSet(read[s])' = ToSet(read'[s]) /\ ToSet(queue[s])' = ToSet(queue'[s])
    BY Zenon DEF ToSet
  <2>2. \A s \in Streams : Account(s) \subseteq Account(s)'
    BY <1>2, <1>5, <1>6, <2>1, Zenon DEF Account
  <2>3. Watched(r) => x \in Account(r)'
    BY <1>5, <1>6, <2>1, Zenon DEF Account
  <2>4. ASSUME NEW s \in Streams, NEW k \in Emitters, Watched(s), s \in putting[k]
        PROVE  s \in putting'[k] \/ <<k, emitted[k]>> \in Account(s)'
    BY <1>4, <2>3, <2>4, Zenon DEF x
  <2>5. \A s \in Streams : Watched(s)' <=> Watched(s)
    BY <1>2, Zenon DEF Watched
  <2> QED BY <1>0, <1>2, <2>2, <2>4, <2>5, StillAccounted, Zenon
<1> QED BY <1>7, <1>8, <1>9, <1>10, <1>11, Zenon DEF EventsInv

\* A step of stream r, of its client or of close(): no emitter moves, the other
\* streams keep what they have, and r is in order and gets nothing but the marker.
LEMMA StreamStep ==
    ASSUME EventsInv, EventsTypeOK', SubscribedWhileOpen', NEW r,
           UNCHANGED <<emitted, putting>>,
           \A s \in Streams : s # r =>
              /\ queue'[s] = queue[s] /\ read'[s] = read[s] /\ dropped'[s] = dropped[s]
              /\ since'[s] = since[s] /\ (Watched(s)' /\ ~closed' => Watched(s) /\ ~closed),
           r \in Streams =>
              /\ Line(queue'[r], read'[r])
              /\ ToSet(queue'[r]) \cup ToSet(read'[r])
                    \subseteq ToSet(queue[r]) \cup ToSet(read[r]) \cup {End}
              /\ Watched(r)' /\ ~closed' =>
                    \/ \A h \in Emitters : since'[r][h] = emitted[h]
                    \/ /\ Watched(r) /\ ~closed /\ since'[r] = since[r]
                       /\ ToSet(read[r]) \cup ToSet(queue[r])
                             \subseteq ToSet(read'[r]) \cup ToSet(queue'[r])
                       /\ dropped'[r] = dropped[r]
    PROVE  EventsInv'
<1>0. /\ EventsTypeOK /\ InOrder /\ NothingFromTheFuture /\ SubscribedWhileOpen /\ NoMissedEvent
  BY Zenon DEF EventsInv
<1>1. \A s \in Streams : ToSet(read[s])' = ToSet(read'[s]) /\ ToSet(queue[s])' = ToSet(queue'[s])
  BY Zenon DEF ToSet
<1>2. InOrder'
  <2>1. \A s \in Streams : Line(queue'[s], read'[s])
    BY <1>0, Zenon DEF InOrder
  <2> QED BY <2>1, Zenon DEF InOrder, Line, Before
<1>3. NothingFromTheFuture'
  <2>1. ASSUME NEW s \in Streams, NEW y \in (ToSet(queue[s]) \cup ToSet(read[s]))'
        PROVE  y \in ToSet(queue[s]) \cup ToSet(read[s]) \/ y = End
    <3>1. y \in ToSet(queue'[s]) \cup ToSet(read'[s])
      BY <1>1, <2>1, Zenon
    <3>2. CASE s = r
      BY <3>1, <3>2, Zenon
    <3>3. CASE s # r
      BY <3>1, <3>3, Zenon
    <3> QED BY <3>2, <3>3, Zenon
  <2> QED BY <1>0, <2>1, StaysOld, Zenon
<1>4. NoMissedEvent'
  <2> SUFFICES ASSUME NEW s \in Streams, NEW h \in Emitters, Watched(s)', ~closed',
                      NEW n \in since'[s][h] + 1 .. emitted[h]
               PROVE  <<h, n>> \in Account(s)' \/ (n = emitted[h] /\ s \in putting[h])
    BY Zenon DEF NoMissedEvent, Account
  <2>1. CASE /\ Watched(s) /\ ~closed /\ since'[s] = since[s] /\ dropped'[s] = dropped[s]
             /\ ToSet(read[s]) \cup ToSet(queue[s]) \subseteq ToSet(read'[s]) \cup ToSet(queue'[s])
    <3>1. <<h, n>> \in Account(s) \/ (n = emitted[h] /\ s \in putting[h])
      BY <1>0, <2>1, Zenon DEF NoMissedEvent, Account
    <3>2. Account(s) \subseteq Account(s)'
      BY <1>1, <2>1, Zenon DEF Account
    <3> QED BY <3>1, <3>2, Zenon
  <2>2. CASE since'[s][h] = emitted[h]
    <3>1. emitted[h] \in Nat /\ n \in emitted[h] + 1 .. emitted[h]
      BY <1>0, <2>2, Zenon DEF EventsTypeOK
    <3> QED BY <3>1
  <2>3. CASE s = r
    BY <2>1, <2>2, <2>3, Zenon
  <2>4. CASE s # r
    BY <2>1, <2>4, Zenon
  <2> QED BY <2>3, <2>4, Zenon
<1> QED BY <1>2, <1>3, <1>4, Zenon DEF EventsInv

\* An event is written to the client, or the stream ends.
LEMMA StreamNextStep ==
    ASSUME EventsInv, NEW r \in Streams, StreamNext(r)
    PROVE  EventsInv'
<1>0. /\ EventsTypeOK /\ InOrder /\ SubscribedWhileOpen
      /\ queue[r] \in Seq(Envelopes) /\ read[r] \in Seq(Events \ {End})
      /\ Line(queue[r], read[r])
  BY Zenon DEF EventsInv, EventsTypeOK, InOrder
<1>1. UNCHANGED <<closed, subscribers, present, emitted, putting, releasing, dropped, since>>
  BY Zenon DEF StreamNext
<1>2. /\ stream[r] = "open"
      /\ stream' = [stream EXCEPT ![r] = stream'[r]] /\ stream'[r] \in {"open", "leaving"}
      /\ stream'[r] = "open" => Watched(r)
  BY <1>0, Zenon DEF StreamNext, EventsTypeOK, Watched
<1>3. CASE queue[r] # << >> /\ queue' = [queue EXCEPT ![r] = Tail(@)]
  <2>1. /\ Tail(queue[r]) \in Seq(Envelopes) /\ Head(queue[r]) \in Envelopes
        /\ ToSet(queue[r]) = {Head(queue[r])} \cup ToSet(Tail(queue[r]))
    BY <1>0, <1>3, Shifted
  <2>2. /\ Line(Tail(queue[r]), read[r])
        /\ Head(queue[r]) \in Events \ {End} =>
              Line(Tail(queue[r]), Append(read[r], Head(queue[r])))
    BY <1>0, <1>3, LineShift
  <2>3. /\ queue'[r] = Tail(queue[r]) /\ queue' \in [Streams -> Seq(Envelopes)]
        /\ \A s \in Streams : s # r => queue'[s] = queue[s]
    BY <1>0, <1>3, <2>1, Zenon DEF EventsTypeOK
  <2>4. \/ /\ Head(queue[r]) \in Events \ {End}
           /\ read' = [read EXCEPT ![r] = Append(@, Head(queue[r]))] /\ UNCHANGED stream
        \/ UNCHANGED read /\ stream'[r] = "leaving"
    BY <1>0, <1>3, <2>1, Zenon DEF StreamNext, Envelopes, EventsTypeOK
  <2>5. CASE UNCHANGED read /\ stream'[r] = "leaving"
    <3>1. EventsTypeOK'
      BY <1>0, <1>1, <1>2, <2>3, <2>5, Zenon DEF EventsTypeOK
    <3>2. SubscribedWhileOpen' /\ ~Watched(r)' /\ \A s \in Streams : Watched(s)' => Watched(s)
      BY <1>0, <1>1, <1>2, <2>5, Zenon DEF SubscribedWhileOpen, Watched, EventsTypeOK
    <3> QED BY <1>1, <2>1, <2>2, <2>3, <2>5, <3>1, <3>2, StreamStep, Zenon
  <2>6. CASE /\ Head(queue[r]) \in Events \ {End}
             /\ read' = [read EXCEPT ![r] = Append(@, Head(queue[r]))] /\ UNCHANGED stream
    <3>1. /\ Append(read[r], Head(queue[r])) \in Seq(Events \ {End})
          /\ ToSet(Append(read[r], Head(queue[r]))) = ToSet(read[r]) \cup {Head(queue[r])}
      BY <1>0, <2>6, Appended
    <3>2. /\ read'[r] = Append(read[r], Head(queue[r])) /\ read' \in [Streams -> Seq(Events \ {End})]
          /\ \A s \in Streams : s # r => read'[s] = read[s]
      BY <1>0, <2>6, <3>1, Zenon DEF EventsTypeOK
    <3>3. EventsTypeOK'
      BY <1>0, <1>1, <2>3, <2>6, <3>2, Zenon DEF EventsTypeOK
    <3>4. SubscribedWhileOpen' /\ \A s \in Streams : Watched(s)' => Watched(s)
      BY <1>0, <1>1, <2>6, Zenon DEF SubscribedWhileOpen, Watched
    <3>5. ToSet(queue'[r]) \cup ToSet(read'[r]) = ToSet(queue[r]) \cup ToSet(read[r])
      BY <2>1, <2>3, <3>1, <3>2, Zenon
    <3> QED BY <1>1, <2>2, <2>3, <2>6, <3>2, <3>3, <3>4, <3>5, StreamStep, Zenon
  <2> QED BY <2>4, <2>5, <2>6, Zenon
<1>4. CASE UNCHANGED <<queue, read>> /\ stream'[r] = "leaving"
  <2>1. EventsTypeOK'
    BY <1>0, <1>1, <1>2, <1>4, Zenon DEF EventsTypeOK
  <2>2. SubscribedWhileOpen' /\ ~Watched(r)' /\ \A s \in Streams : Watched(s)' => Watched(s)
    BY <1>0, <1>1, <1>2, <1>4, Zenon DEF SubscribedWhileOpen, Watched, EventsTypeOK
  <2> QED BY <1>0, <1>1, <1>4, <2>1, <2>2, StreamStep, Zenon DEF InOrder
<1> QED BY <1>0, <1>2, <1>3, <1>4, Zenon DEF StreamNext, EventsTypeOK

\* A stream subscribes, or finds its end at once.
LEMMA SubscribeStep ==
    ASSUME EventsInv, NEW r \in Streams, Subscribe(r)
    PROVE  EventsInv'
<1>0. /\ EventsTypeOK /\ InOrder /\ SubscribedWhileOpen
  BY Zenon DEF EventsInv
<1>1. /\ UNCHANGED <<closed, present, emitted, putting, releasing, read, dropped>>
      /\ stream' = [stream EXCEPT ![r] = "open"] /\ since' = [since EXCEPT ![r] = emitted]
      /\ \/ closed /\ queue' = [queue EXCEPT ![r] = <<End>>] /\ UNCHANGED subscribers
         \/ ~closed /\ subscribers' = subscribers \cup {r} /\ UNCHANGED queue
  BY Zenon DEF Subscribe
<1>2. <<End>> \in Seq(Envelopes) /\ ToSet(<<End>>) = {End}
  <2>1. <<End>> \in Seq(Envelopes) /\ DOMAIN <<End>> = {1} /\ <<End>>[1] = End
    BY DEF Envelopes
  <2> QED BY <2>1, Zenon DEF ToSet
<1>3. EventsTypeOK'
  BY <1>0, <1>1, <1>2, Zenon DEF EventsTypeOK
<1>4. SubscribedWhileOpen' /\ \A s \in Streams : s # r => (Watched(s)' => Watched(s))
  BY <1>0, <1>1, Zenon DEF SubscribedWhileOpen, Watched, EventsTypeOK
<1>5. /\ queue'[r] \in {queue[r], <<End>>} /\ since'[r] = emitted
      /\ \A s \in Streams : s # r => queue'[s] = queue[s] /\ since'[s] = since[s]
  BY <1>0, <1>1, Zenon DEF EventsTypeOK
<1>6. Line(queue[r], read[r]) /\ Line(<<End>>, read[r])
  BY <1>0, LineFresh, Zenon DEF InOrder
<1>7. /\ Line(queue'[r], read'[r])
      /\ ToSet(queue'[r]) \cup ToSet(read'[r])
            \subseteq ToSet(queue[r]) \cup ToSet(read[r]) \cup {End}
  BY <1>1, <1>2, <1>5, <1>6, Zenon
<1> QED BY <1>1, <1>3, <1>4, <1>5, <1>7, StreamStep, Zenon

\* The history of a stream that nobody reads goes.
LEMMA ForgetStep ==
    ASSUME EventsInv, NEW r \in Streams, Unsubscribe(r) \/ ClientLeaves(r)
    PROVE  EventsInv'
<1>0. /\ EventsTypeOK /\ InOrder /\ SubscribedWhileOpen
  BY Zenon DEF EventsInv
<1>1. /\ UNCHANGED <<closed, emitted, putting, releasing, queue>>
      /\ Forget(r)
      /\ present' \in SUBSET Streams /\ subscribers' \in SUBSET Streams
      /\ stream' \in [Streams -> {"idle", "open", "leaving", "ended"}]
      /\ ~Watched(r)'
      /\ \A s \in Streams : s # r => (Watched(s)' => Watched(s)) /\ (s \in subscribers => s \in subscribers')
  BY <1>0, Zenon DEF Unsubscribe, ClientLeaves, EventsTypeOK, Watched
<1>2. << >> \in Seq(Events \ {End}) /\ ToSet(<< >>) = {}
  <2>1. << >> \in Seq(Events \ {End}) /\ DOMAIN << >> = {}
    OBVIOUS
  <2> QED BY <2>1, Zenon DEF ToSet
<1>3. 0 \in Nat
  OBVIOUS
<1>4. /\ read' \in [Streams -> Seq(Events \ {End})] /\ dropped' \in [Streams -> SUBSET Events]
      /\ since' \in [Streams -> [Emitters -> Nat]]
      /\ read'[r] = << >>
      /\ \A s \in Streams : s # r => /\ read'[s] = read[s] /\ dropped'[s] = dropped[s]
                                     /\ since'[s] = since[s]
  BY <1>0, <1>1, <1>2, <1>3, Zenon DEF Forget, EventsTypeOK
<1>5. EventsTypeOK'
  BY <1>0, <1>1, <1>4, Zenon DEF EventsTypeOK
<1>6. SubscribedWhileOpen'
  BY <1>0, <1>1, Zenon DEF SubscribedWhileOpen
<1>7. /\ Line(queue'[r], read'[r])
      /\ ToSet(queue'[r]) \cup ToSet(read'[r])
            \subseteq ToSet(queue[r]) \cup ToSet(read[r]) \cup {End}
  BY <1>0, <1>1, <1>2, <1>4, LineFresh, Zenon DEF InOrder
<1> QED BY <1>1, <1>4, <1>5, <1>6, <1>7, StreamStep, Zenon

\* After close() nobody is promised anything but the end marker.
LEMMA CloseStep ==
    ASSUME EventsInv, Close
    PROVE  EventsInv'
<1>1. /\ closed' = TRUE /\ subscribers' = {}
      /\ UNCHANGED <<queue, stream, present, emitted, putting, read, dropped, since>>
  BY Zenon DEF Close
<1>2. EventsTypeOK' /\ InOrder /\ SubscribedWhileOpen'
  BY <1>1, Zenon DEF EventsInv, EventsTypeOK, SubscribedWhileOpen
<1> QED BY <1>1, <1>2, StreamStep, Zenon DEF InOrder

\* The end marker is put into a queue.
LEMMA ReleaseStep ==
    ASSUME EventsInv, Release
    PROVE  EventsInv'
<1> DEFINE r == Head(releasing)
<1>0. /\ EventsTypeOK /\ InOrder /\ SubscribedWhileOpen
  BY Zenon DEF EventsInv
<1>1. /\ queue' = [queue EXCEPT ![r] = Append(@, End)] /\ releasing # << >>
      /\ UNCHANGED <<closed, subscribers, stream, present, emitted, putting, read, dropped, since>>
  BY Zenon DEF Release
<1> HIDE DEF r
<1>2. closed
  BY <1>0, <1>1, Zenon DEF SubscribedWhileOpen
<1>3. \A s \in Streams : queue[s] \in Seq(Envelopes)
  BY <1>0, Zenon DEF EventsTypeOK
<1>4. End \in Envelopes
  BY Zenon DEF Envelopes
<1>5. \A s \in Streams : /\ Append(queue[s], End) \in Seq(Envelopes)
                         /\ ToSet(Append(queue[s], End)) = ToSet(queue[s]) \cup {End}
  BY <1>3, <1>4, Appended
<1>6. /\ \A s \in Streams : s # r => queue'[s] = queue[s]
      /\ r \in Streams => queue'[r] = Append(queue[r], End)
      /\ queue' \in [Streams -> Seq(Envelopes)]
  BY <1>0, <1>1, <1>5, Zenon DEF EventsTypeOK
<1>7. EventsTypeOK' /\ SubscribedWhileOpen'
  BY <1>0, <1>1, <1>2, <1>6, Zenon DEF EventsTypeOK, SubscribedWhileOpen
<1>8. ASSUME r \in Streams PROVE Line(Append(queue[r], End), read[r])
  <2>1. Line(queue[r], read[r]) /\ queue[r] \in Seq(Envelopes) /\ \A y : Before(y, End)
    BY <1>0, <1>3, <1>8, Zenon DEF InOrder, Before
  <2> QED BY <1>4, <2>1, LineAppend, Zenon
<1>9. r \in Streams => /\ Line(queue'[r], read'[r])
                       /\ ToSet(queue'[r]) \cup ToSet(read'[r])
                             \subseteq ToSet(queue[r]) \cup ToSet(read[r]) \cup {End}
  BY <1>1, <1>5, <1>6, <1>8, Zenon
<1> QED BY <1>1, <1>2, <1>6, <1>7, <1>9, StreamStep, Zenon

\* The next event of h is later than all of h's events, and every stream that
\* is subscribed is going to get it.
LEMMA EmitStep ==
    ASSUME EventsInv, NEW h \in Emitters, Emit(h)
    PROVE  EventsInv'
<1>0. /\ EventsTypeOK /\ InOrder /\ NothingFromTheFuture /\ SubscribedWhileOpen /\ NoMissedEvent
  BY Zenon DEF EventsInv
<1>1. /\ putting[h] = {} /\ emitted' = [emitted EXCEPT ![h] = @ + 1]
      /\ putting' = [putting EXCEPT ![h] = subscribers]
      /\ UNCHANGED <<closed, subscribers, queue, stream, present, releasing, read, dropped, since>>
  BY Zenon DEF Emit
<1>2. emitted[h] \in Nat /\ emitted[h] + 1 \in Nat
  <2>1. emitted[h] \in Nat
    BY <1>0, Zenon DEF EventsTypeOK
  <2> QED BY <2>1
<1>3. /\ emitted'[h] = emitted[h] + 1 /\ putting'[h] = subscribers
      /\ \A k \in Emitters : k # h => emitted'[k] = emitted[k] /\ putting'[k] = putting[k]
  BY <1>0, <1>1, Zenon DEF EventsTypeOK
<1>4. EventsTypeOK'
  <2>1. emitted' \in [Emitters -> Nat]
    BY <1>0, <1>1, <1>2, Zenon DEF EventsTypeOK
  <2>2. putting' \in [Emitters -> SUBSET Streams]
    BY <1>0, <1>1, Zenon DEF EventsTypeOK
  <2> QED BY <1>0, <1>1, <2>1, <2>2, Zenon DEF EventsTypeOK
<1>5. InOrder'
  <2>1. \A r \in Streams : Line(queue'[r], read'[r])
    BY <1>0, <1>1, Zenon DEF InOrder
  <2> QED BY <2>1, Zenon DEF InOrder, Line, Before
<1>8. SubscribedWhileOpen'
  BY <1>0, <1>1, Zenon DEF SubscribedWhileOpen, Watched
<1>6. NothingFromTheFuture'
  <2>0. \A r \in Streams : ToSet(queue[r])' = ToSet(queue[r]) /\ ToSet(read[r])' = ToSet(read[r])
    BY <1>1, Zenon DEF ToSet
  <2> SUFFICES ASSUME NEW r \in Streams, NEW x \in ToSet(queue[r]) \cup ToSet(read[r]), x # End
               PROVE  /\ x[2] <= emitted'[x[1]]
                      /\ r \in putting'[x[1]] => x[2] < emitted'[x[1]]
    BY <1>1, <2>0, Zenon DEF NothingFromTheFuture, Old
  <2>1. x \in Events /\ Old(x, r)
    BY <1>0, Elements, Zenon DEF NothingFromTheFuture, Envelopes
  <2>2. x[1] \in Emitters /\ x[2] \in Nat
    BY <2>1 DEF Events
  <2>3. x[2] <= emitted[x[1]] /\ (r \in putting[x[1]] => x[2] < emitted[x[1]])
    BY <2>1, Zenon DEF Old
  <2>4. CASE x[1] = h
    BY <1>2, <1>3, <2>2, <2>3, <2>4
  <2>5. CASE x[1] # h
    BY <1>3, <2>2, <2>3, <2>5, Zenon
  <2> QED BY <2>4, <2>5, Zenon
<1>7. NoMissedEvent'
  <2>0. \A r \in Streams : (Watched(r)' <=> Watched(r)) /\ Account(r)' = Account(r)
    BY <1>1, Zenon DEF Account, Watched, ToSet
  <2> SUFFICES ASSUME NEW r \in Streams, NEW k \in Emitters, Watched(r), ~closed,
                      NEW n \in since[r][k] + 1 .. emitted'[k]
               PROVE  <<k, n>> \in Account(r)' \/ (n = emitted'[k] /\ r \in putting'[k])
    BY <1>1, <2>0, Zenon DEF NoMissedEvent, Account
  <2>1. \A m \in since[r][k] + 1 .. emitted[k] :
           <<k, m>> \in Account(r) \/ (m = emitted[k] /\ r \in putting[k])
    BY <1>0, Zenon DEF NoMissedEvent, Account
  <2>2. CASE k # h
    BY <1>3, <2>0, <2>1, <2>2, Zenon
  <2>3. CASE k = h
    <3>1. since[r][h] \in Nat
      BY <1>0, Zenon DEF EventsTypeOK
    <3>2. n \in since[r][h] + 1 .. emitted[h] \/ n = emitted[h] + 1
      BY <1>2, <1>3, <2>3, <3>1
    <3>3. r \in subscribers
      BY <1>0, Zenon DEF SubscribedWhileOpen
    <3> QED BY <1>1, <1>3, <2>0, <2>1, <2>3, <3>2, <3>3, Zenon
  <2> QED BY <2>2, <2>3, Zenon
<1> QED BY <1>4, <1>5, <1>6, <1>7, <1>8, Zenon DEF EventsInv

-----------------------------------------------------------------------------
(* The invariant and what follows from it                                  *)

\* Nothing is published and nobody reads at the start.
LEMMA InitEventsInv == Init => EventsInv
<1> SUFFICES ASSUME Init PROVE EventsInv
  OBVIOUS
<1>1. /\ \A r \in Streams : /\ queue[r] = << >> /\ read[r] = << >> /\ ~Watched(r)
      /\ releasing = << >>
  BY Zenon DEF Init, Watched
<1>2. EventsTypeOK
  <2>1. << >> \in Seq(Envelopes) /\ << >> \in Seq(Events \ {End}) /\ 0 \in Nat
    OBVIOUS
  <2>2. emitted \in [Emitters -> Nat]
    BY <2>1, Zenon DEF Init
  <2> QED BY <2>1, <2>2, Zenon DEF Init, EventsTypeOK
<1>3. 1..Len(<< >>) = {} /\ ToSet(<< >>) = {}
  BY DEF ToSet
<1>4. InOrder /\ NothingFromTheFuture
  BY <1>1, <1>3, Zenon DEF InOrder, Line, NothingFromTheFuture
<1>5. SubscribedWhileOpen /\ NoMissedEvent
  BY <1>1, Zenon DEF SubscribedWhileOpen, NoMissedEvent
<1> QED BY <1>2, <1>4, <1>5, Zenon DEF EventsInv

\* Every step preserves EventsInv.
LEMMA NextEventsInv == EventsInv /\ [Next]_vars => EventsInv'
<1> SUFFICES ASSUME EventsInv, [Next]_vars PROVE EventsInv'
  OBVIOUS
<1>1. CASE UNCHANGED vars
  <2>1. UNCHANGED <<closed, subscribers, queue, stream, present, emitted, putting, releasing,
                    read, dropped, since>>
    BY <1>1, Zenon DEF vars
  <2>2. EventsTypeOK' /\ SubscribedWhileOpen' /\ InOrder
    BY <2>1, Zenon DEF EventsInv, EventsTypeOK, SubscribedWhileOpen, Watched
  <2>3. \A s \in Streams : Watched(s)' <=> Watched(s)
    BY <2>1, Zenon DEF Watched
  <2> QED BY <2>1, <2>2, <2>3, StreamStep, Zenon DEF InOrder
<1> QED BY <1>1, SubscribeStep, StreamNextStep, ForgetStep, EmitStep, PutStep, CloseStep,
           ReleaseStep, Zenon DEF Next

(* EventsInv holds however the handlers, the streams, their clients and stop()
   interleave. *)
THEOREM EventsInvariance == Spec => []EventsInv
BY InitEventsInv, NextEventsInv, PTL DEF Spec

(* A client sees the events of one request in the order they were published,
   each once: _EventBroadcaster.emit puts outside the lock, but a handler is
   done with one event before it emits the next. *)
THEOREM Ordered == Spec => []EventOrder
<1>1. EventsInv => EventOrder
  <2> SUFFICES ASSUME EventsInv, NEW r \in Streams, NEW i \in DOMAIN read[r],
                      NEW j \in DOMAIN read[r], i < j, read[r][i][1] = read[r][j][1]
               PROVE  read[r][i][2] < read[r][j][2]
    BY Zenon DEF EventOrder
  <2>1. read[r] \in Seq(Events \ {End})
    BY Zenon DEF EventsInv, EventsTypeOK
  <2>2. i \in 1..Len(read[r]) /\ j \in 1..Len(read[r])
    BY <2>1
  <2>3. read[r][i] # End /\ read[r][j] # End
    BY <2>1, <2>2
  <2>4. Before(read[r][i], read[r][j])
    BY <2>2, Zenon DEF EventsInv, InOrder, Line
  <2> QED BY <2>3, <2>4, Zenon DEF Before
<1> QED BY <1>1, EventsInvariance, PTL

(* Until close() an open stream has written, holds, or was too full for, every
   event published since it subscribed: nothing is lost between emit's copy of
   the subscribers under the lock and its puts. *)
THEOREM NothingMissed == Spec => []NoMissedEvent
<1>1. EventsInv => NoMissedEvent
  BY Zenon DEF EventsInv
<1> QED BY <1>1, EventsInvariance, PTL
=============================================================================
