--------------------------- MODULE OrderedDelivery ---------------------------
(***************************************************************************)
(* What the client promises to whoever feeds it: each request is answered  *)
(* at most once, none is answered before the ones asked earlier, and the   *)
(* answer is the answer to that request.  Reconnections, retries and       *)
(* repeated executions are invisible here.                                 *)
(***************************************************************************)
EXTENDS Naturals, Sequences

VARIABLES
    asked,      \* the requests, in the order in which they were asked
    answered    \* the requests answered, in the order of the answers

Init == asked = <<>> /\ answered = <<>>

\* One more request, after all the others.
Ask ==
    /\ Len(asked') = Len(asked) + 1
    /\ SubSeq(asked', 1, Len(asked)) = asked
    /\ UNCHANGED answered

\* The oldest request without an answer gets it.
Answer ==
    /\ Len(answered) < Len(asked)
    /\ answered' = Append(answered, asked[Len(answered) + 1])
    /\ UNCHANGED asked

Next == Ask \/ Answer

Spec == Init /\ [][Next]_<<asked, answered>>
=============================================================================
