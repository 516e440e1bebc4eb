--------------------------- MODULE MC_FollowedSync ---------------------------
EXTENDS FollowedSync
=============================================================================
