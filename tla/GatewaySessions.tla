---------------------------- MODULE GatewaySessions ----------------------------
(***************************************************************************)
(* The socket.io side of the server, one process: which socket stands for  *)
(* a user (GatewaySessionManager), the conversation rooms and the presence *)
(* notices sent in them (ConversationGateway), the friend lists remembered *)
(* at connection (WebsocketGateway).                                       *)
(*                                                                         *)
(* A handler runs to its end before the next event, so each one is one     *)
(* action.  Only the query of listFriendIds comes back later, and two of   *)
(* them may come back in any order.                                        *)
(***************************************************************************)
EXTENDS FiniteSets

CONSTANTS
    Users,
    Sockets,
    Owner,           \* [Sockets -> Users]: the user of the session cookie
    Conversations,
    None

ASSUME OwnerAssumption == Owner \in [Sockets -> Users]
ASSUME NoneAssumption == None \notin Sockets /\ None \notin Users

VARIABLES
    phase,       \* socket -> "new", "open", "closed"
    sessions,    \* user -> the socket that stands for the user, or None
    rooms,       \* socket -> the conversation rooms it is in
    friendIds,   \* the profile collection: user -> friends (they only grow)
    lookups,     \* listFriendIds queries: [socket, ids], ids None until read
    friendList,  \* mapFriendList: user -> ids, or None
    heard,       \* history: <<socket, conversation, user>> -> the last notice
                 \*   about the user since the socket entered the room
    evicted,     \* history: <<user, conversation>> of a ban that took effect
    overlapped   \* history: users who have had two open sockets at once

vars == <<phase, sessions, rooms, friendIds, lookups, friendList, heard,
          evicted, overlapped>>

Open == {s \in Sockets : phase[s] = "open"}
OpenOf(u) == {s \in Open : Owner[s] = u}
InRoom(c) == {s \in Open : c \in rooms[s]}

TypeOK ==
    /\ phase \in [Sockets -> {"new", "open", "closed"}]
    /\ sessions \in [Users -> Sockets \union {None}]
    /\ rooms \in [Sockets -> SUBSET Conversations]
    /\ friendIds \in [Users -> SUBSET Users]
    /\ lookups \subseteq [socket: Sockets, ids: (SUBSET Users) \union {{None}}]
    /\ friendList \in [Users -> (SUBSET Users) \union {{None}}]
    /\ heard \in [Sockets \X Conversations \X Users -> {"nothing", "online", "offline"}]
    /\ evicted \subseteq Users \X Conversations
    /\ overlapped \subseteq Users

Init ==
    /\ phase = [s \in Sockets |-> "new"]
    /\ sessions = [u \in Users |-> None]
    /\ rooms = [s \in Sockets |-> {}]
    /\ friendIds = [u \in Users |-> {}]
    /\ lookups = {} /\ friendList = [u \in Users |-> {None}]
    /\ heard = [x \in Sockets \X Conversations \X Users |-> "nothing"]
    /\ evicted = {} /\ overlapped = {}

Lists == <<friendIds, lookups, friendList>>

(* EVENT_NOTIFICATION_CHANGE_STATUS about u, in the rooms cs, to all but s; *)
(* a socket that leaves a room forgets what it heard there.                *)
Told(s, cs, u, status) ==
    [x \in DOMAIN heard |-> IF x[1] # s /\ x[2] \in cs \intersect rooms[x[1]] /\ x[3] = u
                            THEN status ELSE heard[x]]
Forgets(told, s, cs) ==
    [x \in DOMAIN told |-> IF x[1] = s /\ x[2] \in cs THEN "nothing" ELSE told[x]]

-------------------------------------------------------------------------------
(* Connections *)

(* setUserSocket overwrites: the newest connection stands for the user.    *)
Connect(s) ==
    /\ phase[s] = "new"
    /\ phase' = [phase EXCEPT ![s] = "open"]
    /\ sessions' = [sessions EXCEPT ![Owner[s]] = s]
    /\ lookups' = lookups \union {[socket |-> s, ids |-> {None}]}
    /\ overlapped' = IF OpenOf(Owner[s]) = {} THEN overlapped
                     ELSE overlapped \union {Owner[s]}
    /\ UNCHANGED <<rooms, friendIds, friendList, heard, evicted>>

(* Mutant: only the socket that stands for the user tells its rooms.       *)
RoomsOfSession(s) == IF sessions[Owner[s]] = s THEN rooms[s] ELSE {}

(* 'disconnecting' comes while the socket is still in its rooms.           *)
RoomsLeft(s) == rooms[s]

(* Mutants: handleDisconnect keeps the entry; it deletes that of another.  *)
SessionsKept(s) == sessions
SessionsOfOthers(s) == [u \in Users |-> IF u = Owner[s] THEN sessions[u] ELSE None]

(* removeUserSocket deletes the user's entry, whichever socket it holds.   *)
SessionsLeft(s) == [sessions EXCEPT ![Owner[s]] = None]

Disconnect(s) ==
    /\ phase[s] = "open"
    /\ phase' = [phase EXCEPT ![s] = "closed"]
    /\ sessions' = SessionsLeft(s)
    /\ rooms' = [rooms EXCEPT ![s] = {}]
    /\ heard' = Forgets(Told(s, RoomsLeft(s), Owner[s], "offline"), s, Conversations)
    /\ UNCHANGED <<Lists, evicted, overlapped>>

-------------------------------------------------------------------------------
(* Rooms *)

JoinRoom(s, c) ==
    /\ phase[s] = "open"
    /\ rooms' = [rooms EXCEPT ![s] = @ \union {c}]
    /\ heard' = Told(s, {c}, Owner[s], "online")
    /\ evicted' = evicted \ {<<Owner[s], c>>}
    /\ UNCHANGED <<phase, sessions, Lists, overlapped>>

(* The notice is sent whether the socket was in the room or not.           *)
LeaveRoom(s, c) ==
    /\ phase[s] = "open"
    /\ rooms' = [rooms EXCEPT ![s] = @ \ {c}]
    /\ heard' = Forgets(Told(s, {c}, Owner[s], "offline"), s, {c})
    /\ UNCHANGED <<phase, sessions, Lists, evicted, overlapped>>

(* A removed member: the socket that stands for the user leaves the room.  *)
(* The room hears of the removal, not of a status.                         *)
Ban(u, c) ==
    LET s == sessions[u] IN
    /\ IF s # None /\ c \in rooms[s]
       THEN /\ rooms' = [rooms EXCEPT ![s] = @ \ {c}]
            /\ heard' = Forgets(heard, s, {c})
            /\ evicted' = evicted \union {<<u, c>>}
       ELSE UNCHANGED <<rooms, heard, evicted>>
    /\ UNCHANGED <<phase, sessions, Lists, overlapped>>

(* The answer of handleGetParticipantStatus                                *)
Status(u, c) ==
    IF sessions[u] # None /\ c \in rooms[sessions[u]] THEN "online" ELSE "offline"

-------------------------------------------------------------------------------
(* Friend lists *)

(* A push of FriendRequestService.updateFriendList, into one profile       *)
Befriend(u, v) ==
    /\ u # v /\ v \notin friendIds[u]
    /\ friendIds' = [friendIds EXCEPT ![u] = @ \union {v}]
    /\ UNCHANGED <<phase, sessions, rooms, lookups, friendList, heard, evicted, overlapped>>

Quiet == UNCHANGED <<phase, sessions, rooms, friendIds, heard, evicted, overlapped>>

ReadFriendIds(q) ==
    /\ q.ids = {None}
    /\ lookups' = (lookups \ {q}) \union {[q EXCEPT !.ids = friendIds[Owner[q.socket]]]}
    /\ UNCHANGED friendList /\ Quiet

(* Mutants: mapFriendList.set under the friend's id; with the client in    *)
(* place of the ids.                                                       *)
ListOfOthers(q) == [u \in Users |-> IF u \in q.ids THEN q.ids ELSE friendList[u]]

ListOfClient(q) == [friendList EXCEPT ![Owner[q.socket]] = {q.socket}]

ListWith(q) == [friendList EXCEPT ![Owner[q.socket]] = q.ids]

RememberFriendIds(q) ==
    /\ q.ids # {None}
    /\ friendList' = ListWith(q)
    /\ lookups' = lookups \ {q} /\ Quiet

(* Logged; the old list, if any, stays.                                    *)
LookupErrs(q) == q.ids = {None} /\ lookups' = lookups \ {q} /\ UNCHANGED friendList /\ Quiet

(* The answer of handleGetFriendListRetrieve                               *)
FriendsShown(u) ==
    IF friendList[u] = {None} THEN {} ELSE {v \in friendList[u] : sessions[v] # None}

-------------------------------------------------------------------------------

Next ==
    \/ \E s \in Sockets : Connect(s) \/ Disconnect(s)
    \/ \E s \in Sockets, c \in Conversations : JoinRoom(s, c) \/ LeaveRoom(s, c)
    \/ \E u \in Users, c \in Conversations : Ban(u, c)
    \/ \E u, v \in Users : Befriend(u, v)
    \/ \E q \in lookups : ReadFriendIds(q) \/ RememberFriendIds(q) \/ LookupErrs(q)

Spec == Init /\ [][Next]_vars

-------------------------------------------------------------------------------
(* Properties *)

(* Whatever sockets a user opens and closes, in any order, an entry is an  *)
(* open socket of that user: nothing is emitted to a closed one.           *)
SessionIsLive == \A u \in Users : sessions[u] # None => sessions[u] \in OpenOf(u)

(* 'online' is never answered for a user who has no socket in the room;    *)
(* and for a user who never had two sockets at once the answers are exact. *)
(* (One of two closing takes the entry away from the other.)               *)
PresenceIsExact ==
    \A u \in Users :
        /\ \A c \in Conversations :
             LET present == OpenOf(u) \intersect InRoom(c) # {} IN
             /\ Status(u, c) = "online" => present
             /\ u \notin overlapped /\ present => Status(u, c) = "online"
        /\ u \notin overlapped => (sessions[u] # None <=> OpenOf(u) # {})

(* Who was last told 'online' about a user, and has been in the room ever  *)
(* since, shares it with a socket of that user, unless the user was        *)
(* removed: no way of going, sudden or not, leaves a ghost.                *)
OnlineIsTrue ==
    \A w \in Open, u \in Users : \A c \in rooms[w] :
        heard[<<w, c, u>>] = "online" =>
            OpenOf(u) \intersect InRoom(c) # {} \/ <<u, c>> \in evicted

(* Answers of queries that come late, or after the socket has gone, still  *)
(* never show somebody who is not a friend or not connected.               *)
FriendsShownAreFriends ==
    \A u \in Users : FriendsShown(u) \subseteq
        {v \in friendIds[u] : OpenOf(v) # {}}

===============================================================================
