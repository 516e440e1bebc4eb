-------------------------- MODULE MC_SessionEngine --------------------------
(* Instances of SessionEngine for TLC.                                     *)
EXTENDS SessionEngine, TLC

Symmetry == Permutations(Messages) \cup Permutations(Prompters)
                \cup Permutations(Entries)

=============================================================================
