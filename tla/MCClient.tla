------------------------------ MODULE MCClient ------------------------------
(* Instances of Client: every input of at most MaxLines lines of given kinds. *)
EXTENDS Client, SequencesExt

CONSTANTS MaxLines, LineKinds, Inputs   \* Inputs: whether the input is std::cin

MCLines == [kind : LineKinds, long : {FALSE}]

MCFiles ==
    {f \in [lines : BoundedSeq(MCLines, MaxLines), newline : BOOLEAN, stdin : Inputs] :
        ~f.newline => f.lines # <<>> /\ Last(f.lines).kind # "blank"}

\* A behavior opens at most one connection more than it has failures.
MCConnIds == 1..MaxFaults + 1
=============================================================================
