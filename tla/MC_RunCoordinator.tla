------------------------- MODULE MC_RunCoordinator -------------------------
(* Instances of RunCoordinator for TLC.                                    *)
EXTENDS RunCoordinator, TLC

=============================================================================
