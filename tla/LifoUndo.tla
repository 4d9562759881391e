------------------------------ MODULE LifoUndo ------------------------------
(***************************************************************************)
(* What rolling back a session promises: the entries of its undo stack are *)
(* dealt with from the top.  Saga implements it.                           *)
(***************************************************************************)
EXTENDS Integers

CONSTANTS
    Entries,    \* the undo entries there can be
    Stack,      \* Stack[e]: the stack e belongs to
    Position    \* Position[e]: its place on it

VARIABLE status     \* "none", "open", "undone" or "failed"

Init == status \in [Entries -> {"none", "open"}]

\* Nothing above e is still open.
Uncovered(e) ==
    \A f \in Entries :
        Stack[f] = Stack[e] /\ Position[f] > Position[e] => status[f] # "open"

Settle(e, from, to) ==
    /\ status[e] \in from
    /\ Uncovered(e)
    /\ status' = [status EXCEPT ![e] = to]

\* The compensation is carried out, maybe after another call gave it up.
Undo(e) == Settle(e, {"open", "failed"}, "undone")

GiveUp(e) == Settle(e, {"open"}, "failed")

Next == \E e \in Entries : Undo(e) \/ GiveUp(e)

Spec == Init /\ [][Next]_status
=============================================================================
