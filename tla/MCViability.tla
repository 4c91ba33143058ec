----------------------------- MODULE MCViability -----------------------------
(***************************************************************************)
(* A small instance of Viability for TLC: a study and a connection, of the *)
(* same tenant or of two.                                                  *)
(***************************************************************************)
EXTENDS Viability, TLC

CONSTANTS h1, h2, t1, t2, study, erp, units, costs

MCScenarios == {<<study, "BASE">>}
MCOverrides == {{units}}
MCPatches == {{costs}, {units, costs}}

Symmetry == Permutations(Handlers) \cup Permutations(Tenants)

=============================================================================
