---------------------------- MODULE LlmBudgetMC ----------------------------
(* The calls are interchangeable.                                          *)
EXTENDS LlmBudget, TLC

Interchangeable == Permutations(Call)
=============================================================================
