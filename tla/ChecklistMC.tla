---------------------------- MODULE ChecklistMC ----------------------------
(* Rows and requests are interchangeable for the invariants. *)
EXTENDS Checklist, TLC

Interchangeable == Permutations(Row) \cup Permutations(Request)
=============================================================================
