---------------------------- MODULE MCThreatMap ----------------------------
(***************************************************************************)
(* Model-checking instances of ThreatMap.                                  *)
(***************************************************************************)
EXTENDS ThreatMap, TLC

Symmetry == Permutations(Threads)

=============================================================================
