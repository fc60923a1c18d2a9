---------------------------- MODULE MCRetention -----------------------------
(* Two jobs and a convert; the clock ticks in half seconds.                   *)
EXTENDS Retention, TLC
CONSTANTS j1, j2, c1
MCParses == {j1, j2, c1}
MCConverts == {c1}
Symmetry == Permutations({j1, j2})
=============================================================================
