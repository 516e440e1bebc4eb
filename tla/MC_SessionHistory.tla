------------------------- MODULE MC_SessionHistory -------------------------
(* Instances of SessionHistory for TLC.                                    *)
EXTENDS SessionHistory, TLC

CONSTANTS p1, v1, v2, k1

Symmetry == Permutations({v1, v2})

=============================================================================
