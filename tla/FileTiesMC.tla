----------------------------- MODULE FileTiesMC -----------------------------
(* FileTies for model checking: companies and employers are interchangeable. *)
EXTENDS FileTies

Interchangeable == Permutations(Company) \cup Permutations(Employer)
=============================================================================
