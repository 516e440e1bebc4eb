---------------------------- MODULE MC_ToolTurn ----------------------------
(* Instances of ToolTurn for TLC: two calls, the first of which offers a   *)
(* rule that allows both.                                                  *)
EXTENDS ToolTurn, TLC

CONSTANTS c1, c2, s1

MCSessionOf == (c1 :> s1) @@ (c2 :> s1)
MCCovers == (c1 :> {c1, c2}) @@ (c2 :> {})

=============================================================================
