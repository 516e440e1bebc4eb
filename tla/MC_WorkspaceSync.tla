-------------------------- MODULE MC_WorkspaceSync --------------------------
(* Instances of WorkspaceSync for TLC.                                     *)
EXTENDS WorkspaceSync, TLC

Symmetry == Permutations(Remotes)

=============================================================================
