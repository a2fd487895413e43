------------------------------ MODULE MCMessages ------------------------------
(* Instances of Messages for TLC.                                          *)
EXTENDS Messages, TLC

CONSTANTS a1, a2

(* Text only, or two files.                                                *)
NoneOrTwo == {{}, {a1, a2}}

Symmetry == Permutations(Handlers) \union Permutations(Assets)
===============================================================================
