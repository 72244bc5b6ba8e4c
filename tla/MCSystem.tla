------------------------------ MODULE MCSystem ------------------------------
(* Instances of System: a file of NumLines records, and MaxOthers other clients. *)
EXTENDS System

CONSTANTS NumLines, MaxOthers

MCFiles == {[lines |-> [n \in 1..NumLines |-> [kind |-> "record", long |-> FALSE]],
             newline |-> TRUE, stdin |-> FALSE]}

\* OwnConns, and the others.
MCConnIds == 1..2 * (MaxFaults + MaxOthers + 1)
MCOtherConns == {k \in MCConnIds : k > 2 * MaxFaults + MaxOthers + 2}

MCMaxUnanswered == [k \in MCConnIds |-> 1]

\* One session waits for each connection and each failure, and one for the next.
MCSessionIds == 0..MaxFaults + MaxOthers + 1
=============================================================================
