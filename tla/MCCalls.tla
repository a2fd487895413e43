-------------------------------- MODULE MCCalls --------------------------------
(* Two users with two connections each, which may overlap or follow one    *)
(* another while they call.                                                *)
EXTENDS Calls, TLC

CONSTANTS u1, u2, s1, s2, s3, s4

TwoEach == (s1 :> u1) @@ (s2 :> u1) @@ (s3 :> u2) @@ (s4 :> u2)

Symmetry == Permutations({s1, s2}) \union Permutations({s3, s4})
===============================================================================
