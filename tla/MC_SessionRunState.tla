------------------------ MODULE MC_SessionRunState ------------------------
(* Instances of SessionRunState for TLC.                                   *)
EXTENDS SessionRunState, TLC

=============================================================================
