---- MODULE MCTeamMatching ----
(* One feed name and three local teams: one that matches it outright, two that resemble it. *)
EXTENDS TeamMatching, TLC
CONSTANTS near, far, same
MCScore == (near :> 88) @@ (far :> 80) @@ (same :> 100)
Symmetry == Permutations(Helpers)
=============================================================================
