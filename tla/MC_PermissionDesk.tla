------------------------- MODULE MC_PermissionDesk -------------------------
(* Instances of PermissionDesk for TLC: three askers of two sessions, one  *)
(* of which offers a rule that allows the requests of all.                 *)
EXTENDS PermissionDesk, TLC

CONSTANTS a1, a2, b1, s1, s2

MCSessionOf == (a1 :> s1) @@ (a2 :> s1) @@ (b1 :> s2)
MCCovers == (a1 :> {a1, a2, b1}) @@ (a2 :> {}) @@ (b1 :> {})

=============================================================================
