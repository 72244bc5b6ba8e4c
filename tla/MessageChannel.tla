---------------------------- MODULE MessageChannel ----------------------------
(***************************************************************************)
(* What Connection_base promises on top of a socket: whole messages, each  *)
(* at most once and in the order in which they were written.  Those not    *)
(* read when a connection is given up are lost.                            *)
(***************************************************************************)
EXTENDS Naturals, Sequences

VARIABLES
    sent,       \* the messages written, except those that have been lost
    delivered   \* the messages read

Init == sent = <<>> /\ delivered = <<>>

Send ==
    /\ Len(sent') = Len(sent) + 1
    /\ SubSeq(sent', 1, Len(sent)) = sent
    /\ UNCHANGED delivered

Deliver ==
    /\ Len(delivered) < Len(sent)
    /\ delivered' = Append(delivered, sent[Len(delivered) + 1])
    /\ UNCHANGED sent

Lose == sent' = delivered /\ UNCHANGED delivered

Next == Send \/ Deliver \/ Lose

Spec == Init /\ [][Next]_<<sent, delivered>>
=============================================================================
