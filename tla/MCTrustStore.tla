---------------------------- MODULE MCTrustStore ----------------------------
(***************************************************************************)
(* Model-checking instances of TrustStore.                                 *)
(***************************************************************************)
EXTENDS TrustStore, TLC

Symmetry == Permutations(Threads) \cup Permutations(Hosts) \cup Permutations(Hashes)

=============================================================================
