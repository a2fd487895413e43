--------------------------- MODULE MCFriendRequests ---------------------------
(***************************************************************************)
(* FriendRequests on small sets.  Users with a profile are interchangeable,*)
(* and so are the ids and the handlers.                                    *)
(***************************************************************************)
EXTENDS FriendRequests, TLC

Symmetry ==
    Permutations(Profiled) \union Permutations(ReqIds) \union Permutations(Handlers)

===============================================================================
