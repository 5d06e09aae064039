----------------------------- MODULE MCWorktrees -----------------------------
(* A review by a committee and another thread about the same merge request. *)
EXTENDS Worktrees, TLC

CONSTANTS r1, r2, h1, h2

Symmetry == Permutations({h1, h2})
=============================================================================
