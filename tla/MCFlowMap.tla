----------------------------- MODULE MCFlowMap ------------------------------
(***************************************************************************)
(* Instances of FlowMap for TLC; the bounds are in the configurations.     *)
(* Panes are interchangeable, so the safety run works up to their          *)
(* permutation.  Connections and sessions are not: they are numbered.      *)
(***************************************************************************)
EXTENDS FlowMap

Symmetry == Permutations(Panes)
=============================================================================
