---------------------------- MODULE MC_SubagentTask ----------------------------
EXTENDS SubagentTask
=============================================================================
