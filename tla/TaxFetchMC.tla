----------------------------- MODULE TaxFetchMC -----------------------------
(***************************************************************************)
(* The sessions of the runs: one of the tax authority; and two of it, or   *)
(* one of it and one of a pension house.                                   *)
(***************************************************************************)
EXTENDS TaxFetch

CONSTANTS authority, pension

OnePortal  == {<<authority>>}
TwoPortals == {<<authority, authority>>, <<authority, pension>>}
=============================================================================
