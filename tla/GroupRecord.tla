------------------------------ MODULE GroupRecord ------------------------------
(***************************************************************************)
(* What a group conversation promises, without handlers, caches, snapshots *)
(* or database commands: the members change by whole steps, each of which  *)
(* was valid at some time; a message is drafted, becomes lastMessage, is   *)
(* kept and then announced, in this order and once, and expires; what      *)
(* fails is lost and stays lost.  GroupConversation.tla implements this    *)
(* module.                                                                 *)
(***************************************************************************)

CONSTANTS
    Users, Registered, Founders, Creator, MsgIds,
    None       \* stands for "no user" and "no message"

VARIABLES
    members,   \* the people in the conversation
    role,      \* everyone's role: a member's, or "none"
    past,      \* the sets of members there have been, the present one included
    last,      \* lastMessage
    post,      \* message -> who wrote it, what became of it
    kept,      \* the messages in the collection
    told       \* message -> whom it was announced to, or {None}

vars == <<members, role, past, last, post, kept, told>>

group == <<members, role, past>>
messages == <<last, post, kept, told>>

(* 'failing' is lost already, and may yet become lastMessage.              *)
Fates == {"none", "drafted", "leading", "kept", "failing", "lost", "expired"}

Roles == {"Admin", "Member"}

TypeOK ==
    /\ members \subseteq Users
    /\ role \in [Users -> Roles \union {"none"}]
    /\ past \subseteq SUBSET Users
    /\ last \in MsgIds \union {None}
    /\ post \in [MsgIds -> [by: Users \union {None}, fate: Fates]]
    /\ kept \subseteq MsgIds
    /\ told \in [MsgIds -> (SUBSET Users) \union {{None}}]

Init ==
    /\ members = Founders /\ past = {Founders}
    /\ role = [u \in Users |-> IF u = Creator THEN "Admin"
                               ELSE IF u \in Founders THEN "Member" ELSE "none"]
    /\ last = None /\ kept = {}
    /\ post = [m \in MsgIds |-> [by |-> None, fate |-> "none"]]
    /\ told = [m \in MsgIds |-> {None}]

-------------------------------------------------------------------------------
(* The members *)

(* The people of S get a role, or lose theirs, and so do enter or go.      *)
Become(S, r) ==
    /\ members' = IF r = "none" THEN members \ S ELSE members \union S
    /\ role' = [u \in Users |-> IF u \in S THEN r ELSE role[u]]
    /\ past' = past \union {members'}
    /\ UNCHANGED messages

(* Registered people join a group that they had not all been in.  Whoever  *)
(* is named becomes a Member, an Admin too.                                *)
Add(S) ==
    /\ \E P \in past : ~(S \subseteq P) /\ P \union S \subseteq Registered
    /\ Become(S, "Member")

(* Somebody who has been a member leaves or is removed.                    *)
Remove(u) ==
    /\ \E P \in past : u \in P /\ P \subseteq Registered
    /\ Become({u}, "none")

-------------------------------------------------------------------------------
(* The messages *)

Goes(m, fate) == post' = [post EXCEPT ![m].fate = fate]

(* Somebody who has been a member writes a message.                        *)
Draft(m, u) ==
    /\ post[m].fate = "none" /\ u \in UNION past
    /\ post' = [post EXCEPT ![m] = [by |-> u, fate |-> "drafted"]]
    /\ UNCHANGED <<group, last, kept, told>>

(* It becomes lastMessage before it is stored.                             *)
Lead(m) ==
    /\ post[m].fate = "drafted" /\ Goes(m, "leading") /\ last' = m
    /\ UNCHANGED <<group, kept, told>>

(* It is stored, and those are told who were in the group with its author. *)
Keep(m) ==
    /\ post[m].fate = "leading" /\ Goes(m, "kept") /\ kept' = kept \union {m}
    /\ \E S \in past : post[m].by \in S /\ told' = [told EXCEPT ![m] = S \ {post[m].by}]
    /\ UNCHANGED <<group, last>>

(* Something else fails while it is being made lastMessage: it is lost,    *)
(* and nobody stops the write.                                             *)
GiveUp(m) ==
    /\ post[m].fate = "drafted" /\ Goes(m, "failing")
    /\ UNCHANGED <<group, last, kept, told>>

(* The write that makes it lastMessage comes too late or is reported as    *)
(* failed, applied or not; or so is the one that stores it.  Nobody is     *)
(* told of it.                                                             *)
FailToLead(m) ==
    /\ post[m].fate \in {"drafted", "failing"} /\ Goes(m, "lost") /\ last' \in {last, m}
    /\ UNCHANGED <<group, kept, told>>

FailToKeep(m) ==
    /\ post[m].fate = "leading" /\ Goes(m, "lost") /\ kept' \in {kept, kept \union {m}}
    /\ UNCHANGED <<group, last, told>>

(* The process stops: whatever was under way is lost.                      *)
Underway == {m \in MsgIds : post[m].fate \in {"drafted", "leading", "failing"}}

Stop ==
    /\ post' = [m \in MsgIds |->
                  IF m \in Underway THEN [post[m] EXCEPT !.fate = "lost"] ELSE post[m]]
    /\ UNCHANGED <<group, last, kept, told>>

(* A year later it is gone; lastMessage names it as before.                *)
Expire(m) ==
    /\ m \in kept /\ kept' = kept \ {m}
    /\ IF post[m].fate = "kept" THEN Goes(m, "expired") ELSE UNCHANGED post
    /\ UNCHANGED <<group, last, told>>

Next ==
    \/ \E S \in SUBSET Users : Add(S)
    \/ \E u \in Users : Remove(u)
    \/ \E m \in MsgIds : \/ \E u \in Users : Draft(m, u)
                         \/ Lead(m) \/ Keep(m) \/ GiveUp(m)
                         \/ FailToLead(m) \/ FailToKeep(m) \/ Expire(m)
    \/ Stop

Spec == Init /\ [][Next]_vars

-------------------------------------------------------------------------------
(* What follows from the promise *)

(* Who has a role is a member, once a member always on record, and nobody  *)
(* but the creator was ever Admin.  What is lastMessage was written by a   *)
(* member.  Of a message in the collection either those in the group with  *)
(* its author were told or its caller was refused, and whatever was told   *)
(* is in the collection until it expires.                                  *)
Sound ==
    /\ \A u \in Users : /\ role[u] # "none" <=> u \in members
                        /\ role[u] = "Admin" => u = Creator
    /\ members \in past /\ members \subseteq Registered
    /\ last # None => post[last].fate \notin {"none", "drafted", "failing"}
    /\ \A m \in MsgIds :
         /\ post[m].fate # "none" => post[m].by \in UNION past
         /\ post[m].fate = "kept" => m \in kept
         /\ m \in kept => post[m].fate \in {"kept", "lost"}
         /\ told[m] # {None} <=> post[m].fate \in {"kept", "expired"}
         /\ told[m] # {None} =>
              \E S \in past : post[m].by \in S /\ told[m] = S \ {post[m].by}

===============================================================================
