----------------------------- MODULE AtomicQueue -----------------------------
(***************************************************************************)
(* What the client's two threads make of their queue: items are pushed at  *)
(* one end; the item at the other end is taken as it was pushed, and       *)
(* either goes back to waiting or is the one that is popped.  Client uses  *)
(* the queue in steps of this size.                                        *)
(***************************************************************************)
EXTENDS Naturals, Sequences

CONSTANTS Values, NoValue

VARIABLES
    queue,      \* the items, the oldest first
    seen        \* the copy of the item taken, or NoValue

Init == queue = <<>> /\ seen = NoValue

Push ==
    /\ \E v \in Values : queue' = Append(queue, v)
    /\ UNCHANGED seen

Take ==
    /\ seen = NoValue
    /\ queue # <<>>
    /\ seen' = Head(queue)
    /\ UNCHANGED queue

Release ==
    /\ seen' = NoValue
    /\ UNCHANGED queue

Pop ==
    /\ queue # <<>>
    /\ seen = Head(queue)
    /\ queue' = Tail(queue)
    /\ seen' = NoValue

Next == Push \/ Take \/ Release \/ Pop

Spec == Init /\ [][Next]_<<queue, seen>>
=============================================================================
