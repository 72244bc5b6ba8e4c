------------------------------ MODULE MCFraming ------------------------------
(* Instances of Framing: bodies of every size up to one that is too large. *)
EXTENDS Framing

MCSizes == 1..MaxSize + 1
=============================================================================
