------------------------- MODULE MCScenarioLifecycle -------------------------
(***************************************************************************)
(* Small instances of ScenarioLifecycle.                                   *)
(***************************************************************************)
EXTENDS ScenarioLifecycle, TLC

Symmetry == Permutations(Handlers) \cup Permutations(BindingRefs)
===============================================================================
