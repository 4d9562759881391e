---------------------------- MODULE DevConnection ----------------------------
(***************************************************************************)
(* One kept-alive connection to the local development server: how          *)
(* _DevHandler (undolog_sdk/dev.py) frames the requests that arrive on it. *)
(* http.server makes one handler object per connection, so an attribute of *)
(* the handler outlives the request that set it.  The client sends its     *)
(* next request after the answer to the last one.                          *)
(***************************************************************************)
EXTENDS Integers, Sequences

CONSTANTS MaxRequests  \* bound: requests on the connection

(***************************************************************************)
(* What the headers announce: no body, one of a given length, one over the *)
(* ceiling, a chunked one, a chunked one that breaks off, or a length that *)
(* is no number.  What is on the wire follows the headers, a body or none. *)
(***************************************************************************)
Framings == {"none", "length", "oversize", "chunked", "broken", "garbled"}
Chunked == {"chunked", "broken"}

VARIABLES open,     \* the connection is kept alive
          wire,     \* sent and not yet consumed: heads (their framing) and "body"
          bodyRead, \* _body_read
          framing,  \* framing of the request in hand, or "idle"
          handler,  \* what _dispatch does with it: "reads" or "skips" its body
          sent,     \* requests sent
          answered, \* requests answered
          strayed   \* history: a body was parsed as a request

vars == <<open, wire, bodyRead, framing, handler, sent, answered, strayed>>

Init ==
    /\ open = TRUE
    /\ wire = << >>
    /\ bodyRead = FALSE
    /\ framing = "idle" /\ handler = "idle"
    /\ sent = 0 /\ answered = 0
    /\ strayed = FALSE

SendRequest ==
    /\ open /\ sent = answered /\ sent < MaxRequests
    /\ \E f \in Framings :
          wire' = wire \o (IF f = "none" THEN <<f>> ELSE <<f, "body">>)
    /\ sent' = sent + 1
    /\ UNCHANGED <<open, bodyRead, framing, handler, answered, strayed>>

\* handle_one_request: what is no request line is answered 400 and ends it.
ParseRequest ==
    /\ open /\ framing = "idle" /\ wire # << >>
    /\ wire' = Tail(wire)
    /\ IF Head(wire) = "body"
       THEN /\ strayed' = TRUE /\ open' = FALSE
            /\ answered' = sent
            /\ UNCHANGED <<framing, handler>>
       ELSE /\ framing' = Head(wire)
            /\ handler' \in {"reads", "skips"}
            /\ UNCHANGED <<open, answered, strayed>>
    /\ UNCHANGED <<bodyRead, sent>>

\* _read_body, _read_chunked and _consume.  A body over the ceiling, a broken
\* one and a garbled length are refused without the flag being set.
ReadBody ==
    /\ handler = "reads"
    /\ handler' = "answers"
    /\ wire' = IF framing \in {"length", "chunked", "broken"} THEN Tail(wire) ELSE wire
    /\ bodyRead' = (bodyRead \/ framing \in {"none", "length", "chunked"})
    /\ UNCHANGED <<open, framing, sent, answered, strayed>>

\* _discard_unread_body
Drains == ~bodyRead /\ framing \in {"none", "length", "oversize"}

\* _body_is_unread, after _discard_unread_body
BodyIsUnread == ~bodyRead /\ framing \in {"chunked", "broken", "garbled"}

\* _send_json, _send_error: the answer, and perhaps the end of the connection.
SendJson ==
    /\ handler \in {"skips", "answers"}
    /\ wire' = IF Drains /\ framing # "none" THEN Tail(wire) ELSE wire
    /\ bodyRead' = (bodyRead \/ Drains)
    /\ open' = ~BodyIsUnread
    /\ answered' = answered + 1
    /\ framing' = "idle" /\ handler' = "idle"
    /\ UNCHANGED <<sent, strayed>>

Next == SendRequest \/ ParseRequest \/ ReadBody \/ SendJson

Spec == Init /\ [][Next]_vars
-----------------------------------------------------------------------------
(***************************************************************************)
(* _discard_unread_body's docstring, dev.py:1181-1183: "Reading the body   *)
(* first keeps the response intact and leaves the connection in step for   *)
(* the next request."  A body is never parsed as a request.                *)
(***************************************************************************)
InStep == ~strayed
=============================================================================
