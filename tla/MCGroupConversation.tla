-------------------------- MODULE MCGroupConversation --------------------------
(* Two founders, one invitee, and small bounds on calls.                   *)
EXTENDS GroupConversation, SubsetCheck, TLC

CONSTANTS a, b, d

Newcomer == {{d}}

Symmetry == Permutations(Handlers) \union Permutations(MsgIds)
===============================================================================
