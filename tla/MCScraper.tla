------------------------------ MODULE MCScraper ------------------------------
(* Instances of Scraper, fed by the generator or by every input of at most  *)
(* MaxLines lines of given kinds.                                           *)
EXTENDS DataGenerator, SequencesExt

CONSTANTS MaxLines, LineKinds, Lengths

MCLines == {l \in [kind : LineKinds, long : Lengths] : l.long => l.kind # "blank"}

MCFiles ==
    {f \in [lines : BoundedSeq(MCLines, MaxLines), newline : BOOLEAN, stdin : {TRUE}] :
        ~f.newline => f.lines # <<>> /\ Last(f.lines).kind # "blank"}
=============================================================================
