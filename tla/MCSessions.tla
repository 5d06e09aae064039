----------------------------- MODULE MCSessions -----------------------------
(* Two hooks of one session may overlap; three events make two dialogs. *)
EXTENDS Sessions, TLC

Symmetry == Permutations(Hooks)
=============================================================================
