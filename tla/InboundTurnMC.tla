---------------------------- MODULE InboundTurnMC ----------------------------
(***************************************************************************)
(* Instances of InboundTurn for TLC.                                       *)
(***************************************************************************)
EXTENDS InboundTurn, TLC

Symmetry == Permutations(Msg) \cup Permutations(Handler)
=============================================================================
