------------------------ MODULE MCConversationCreation ------------------------
(* Three users and somebody unknown: a pair asked for by either, a group,  *)
(* the same ids with a repetition, a user alone, another pair.             *)
EXTENDS ConversationCreation

CONSTANTS u1, u2, u3, u4

Asked == {<<u2, u1>>, <<u1, u2>>, <<u2, u3, u1>>, <<u2, u1, u1>>, <<u1>>,
          <<u3, u2>>, <<u4, u1>>}

Symmetry == Permutations(Handlers)
===============================================================================
