--------------------------- MODULE FriendshipLedger ---------------------------
(***************************************************************************)
(* What the friend request component promises, without handlers, snapshots *)
(* or faults: a request is asked once, settled at most once and only by    *)
(* the party entitled to do it, and a friendship is entered in a user's    *)
(* list only on the strength of an accepted request.  FriendRequests.tla   *)
(* implements this module.                                                 *)
(***************************************************************************)

CONSTANTS
    Users, ReqIds,
    None       \* stands for "no user"

VARIABLES
    book,      \* request id -> who asked whom, what became of it, by whom
    entered    \* the <<owner, friend, request>> entries of all friend lists

vars == <<book, entered>>

Fates == {"unused", "pending", "accepted", "rejected", "cancelled"}

Blank == [author |-> None, friend |-> None, fate |-> "unused", by |-> None]

TypeOK ==
    /\ book \in [ReqIds -> [author: Users \union {None},
                            friend: Users \union {None},
                            fate: Fates,
                            by: Users \union {None}]]
    /\ entered \subseteq (Users \X Users \X ReqIds)

Init ==
    /\ book = [id \in ReqIds |-> Blank]
    /\ entered = {}

(* `a' asks `f': an id that was never used becomes a pending request.      *)
Ask(id, a, f) ==
    /\ book[id].fate = "unused"
    /\ book' = [book EXCEPT ![id] = [author |-> a, friend |-> f,
                                     fate |-> "pending", by |-> None]]
    /\ UNCHANGED entered

(* Only the addressee accepts or rejects, and only a pending request.      *)
Answer(id, fate) ==
    /\ book[id].fate = "pending"
    /\ book' = [book EXCEPT ![id].fate = fate, ![id].by = book[id].friend]
    /\ UNCHANGED entered

(* Only the author withdraws, and only a pending request.                  *)
Withdraw(id) ==
    /\ book[id].fate = "pending"
    /\ book' = [book EXCEPT ![id].fate = "cancelled",
                            ![id].by = book[id].author]
    /\ UNCHANGED entered

Parties(id) == <<book[id].author, book[id].friend>>

(* Each party of an accepted request may be entered once in the other's    *)
(* list; nothing is ever struck from a list.                               *)
Enter(id, u, v) ==
    /\ book[id].fate = "accepted"
    /\ <<u, v>> = Parties(id) \/ <<v, u>> = Parties(id)
    /\ <<u, v, id>> \notin entered
    /\ entered' = entered \union {<<u, v, id>>}
    /\ UNCHANGED book

Next ==
    \E id \in ReqIds :
        \/ \E a, f \in Users : Ask(id, a, f)
        \/ \E fate \in {"accepted", "rejected"} : Answer(id, fate)
        \/ Withdraw(id)
        \/ \E u, v \in Users : Enter(id, u, v)

Spec == Init /\ [][Next]_vars

===============================================================================
