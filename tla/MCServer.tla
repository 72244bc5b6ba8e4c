------------------------------ MODULE MCServer ------------------------------
(* Instances of Server with the connections 1..MaxConns. *)
EXTENDS Server

CONSTANTS MaxConns, MaxPipelined

MCConnIds == 1..MaxConns

\* One client sends ahead, the others wait for each answer.
MCMaxUnanswered == [k \in MCConnIds |-> IF k = 1 THEN MaxPipelined ELSE 1]

\* A session for each connection and each failed accept, and one that waits.
MCSessionIds == 0..MaxConns + MaxFaults
=============================================================================
