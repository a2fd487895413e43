--------------------------- MODULE MCGatewaySessions ---------------------------
(* Two users: two connections of one, which may overlap or follow one      *)
(* another, and one of the other user, who watches.                        *)
EXTENDS GatewaySessions, TLC

CONSTANTS u1, u2, s1, s2, s3

TwoAndOne == (s1 :> u1) @@ (s2 :> u1) @@ (s3 :> u2)

Symmetry == Permutations({s1, s2})
===============================================================================
