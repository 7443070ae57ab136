--------------------------- MODULE SendPipelineMC ---------------------------
(***************************************************************************)
(* Instances of SendPipeline for TLC: draft ids and request slots are      *)
(* interchangeable, which safety runs may exploit.                         *)
(***************************************************************************)
EXTENDS SendPipeline, TLC

Symmetry == Permutations(Draft) \cup Permutations(Req)
=============================================================================
