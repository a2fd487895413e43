------------------------- MODULE GatewaySessionsProofs -------------------------
(***************************************************************************)
(* Theorems about GatewaySessions for every set of users, sockets and      *)
(* conversations.                                                          *)
(***************************************************************************)
EXTENDS GatewaySessions, TLAPS

-------------------------------------------------------------------------------
(* The inductive invariant *)

(* A socket that is not open is in no room.                                *)
ClosedNowhere == \A s \in Sockets : phase[s] # "open" => rooms[s] = {}

(* A user who never had two sockets at once has at most one, and it is the *)
(* one that stands for the user.                                           *)
OneAtATime ==
    \A s \in Sockets : phase[s] = "open" /\ Owner[s] \notin overlapped =>
        sessions[Owner[s]] = s

(* Something heard is heard in a room.                                     *)
HeardInRoom ==
    \A w \in Sockets, c \in Conversations, u \in Users :
        heard[<<w, c, u>>] # "nothing" => c \in rooms[w]

(* What queries have read, and what is remembered, are friends.            *)
ListsAreFriends ==
    /\ \A q \in lookups : q.ids # {None} => q.ids \subseteq friendIds[Owner[q.socket]]
    /\ \A u \in Users : friendList[u] # {None} => friendList[u] \subseteq friendIds[u]

IInv ==
    /\ TypeOK
    /\ SessionIsLive
    /\ ClosedNowhere
    /\ OneAtATime
    /\ HeardInRoom
    /\ OnlineIsTrue
    /\ ListsAreFriends

-------------------------------------------------------------------------------
(* Type correctness *)

LEMMA InitIInv == Init => IInv
<1> SUFFICES ASSUME Init PROVE IInv
  OBVIOUS
<1> USE DEF Init
<1>1. TypeOK
  BY DEF TypeOK
<1>2. SessionIsLive /\ ClosedNowhere /\ OneAtATime /\ OnlineIsTrue
  BY DEF SessionIsLive, ClosedNowhere, OneAtATime, OnlineIsTrue, Open
<1>3. HeardInRoom
  BY DEF HeardInRoom
<1>4. ListsAreFriends
  BY DEF ListsAreFriends
<1> QED BY <1>1, <1>2, <1>3, <1>4 DEF IInv

(* What Told does to one notice                                            *)
LEMMA ToldAt ==
  ASSUME TypeOK, NEW s, NEW cs, NEW u0, NEW st,
         NEW w \in Sockets, NEW c \in Conversations, NEW u \in Users
  PROVE  Told(s, cs, u0, st)[<<w, c, u>>] =
           IF w # s /\ c \in cs \intersect rooms[w] /\ u = u0
           THEN st ELSE heard[<<w, c, u>>]
  BY DEF TypeOK, Told

Heard == [Sockets \X Conversations \X Users -> {"nothing", "online", "offline"}]

LEMMA ToldType ==
  ASSUME TypeOK, NEW s, NEW cs, NEW u0, NEW st \in {"online", "offline"}
  PROVE  Told(s, cs, u0, st) \in Heard
  BY DEF TypeOK, Told, Heard

LEMMA ForgetsType ==
  ASSUME NEW f \in Heard, NEW s, NEW cs
  PROVE  Forgets(f, s, cs) \in Heard
<1> DEFINE D == Sockets \X Conversations \X Users
<1>1. DOMAIN f = D /\ \A x \in D : f[x] \in {"nothing", "online", "offline"}
  BY DEF Heard
<1> HIDE DEF D
<1>2. Forgets(f, s, cs) \in [D -> {"nothing", "online", "offline"}]
  BY <1>1 DEF Forgets
<1> QED BY <1>2 DEF Heard, D

LEMMA TypeStep == TypeOK /\ [Next]_vars => TypeOK'
<1> SUFFICES ASSUME TypeOK, [Next]_vars PROVE TypeOK'
  OBVIOUS
<1> USE DEF TypeOK
<1>1. ASSUME NEW s \in Sockets, Connect(s) PROVE TypeOK'
  <2>1. lookups' \subseteq [socket: Sockets, ids: (SUBSET Users) \union {{None}}]
    BY <1>1 DEF Connect
  <2>2. Owner[s] \in Users
    BY OwnerAssumption
  <2>3. phase' \in [Sockets -> {"new", "open", "closed"}]
    BY <1>1 DEF Connect
  <2>4. sessions' \in [Users -> Sockets \union {None}]
    BY <1>1, <2>2 DEF Connect
  <2>5. overlapped' \subseteq Users
    BY <1>1, <2>2 DEF Connect
  <2> QED BY <1>1, <2>1, <2>3, <2>4, <2>5 DEF Connect
<1>2. ASSUME NEW s \in Sockets, Disconnect(s) PROVE TypeOK'
  <2>1. heard' \in Heard
    BY <1>2, ToldType, ForgetsType DEF Disconnect
  <2> QED BY <1>2, <2>1 DEF Disconnect, SessionsLeft, Lists, Heard
<1>3. ASSUME NEW s \in Sockets, NEW c \in Conversations, JoinRoom(s, c) PROVE TypeOK'
  <2>1. heard' \in Heard
    BY <1>3, ToldType DEF JoinRoom
  <2> QED BY <1>3, <2>1 DEF JoinRoom, Lists, Heard
<1>4. ASSUME NEW s \in Sockets, NEW c \in Conversations, LeaveRoom(s, c) PROVE TypeOK'
  <2>1. heard' \in Heard
    BY <1>4, ToldType, ForgetsType DEF LeaveRoom
  <2> QED BY <1>4, <2>1 DEF LeaveRoom, Lists, Heard
<1>5. ASSUME NEW u \in Users, NEW c \in Conversations, Ban(u, c) PROVE TypeOK'
  <2>1. heard' \in Heard
    <3>1. heard \in Heard
      BY DEF Heard
    <3>2. heard' = heard \/ heard' = Forgets(heard, sessions[u], {c})
      BY <1>5 DEF Ban
    <3>3. Forgets(heard, sessions[u], {c}) \in Heard
      BY <3>1, ForgetsType
    <3> QED BY <3>1, <3>2, <3>3
  <2>2. rooms' \in [Sockets -> SUBSET Conversations] /\ evicted' \subseteq Users \X Conversations
    BY <1>5 DEF Ban
  <2> QED BY <1>5, <2>1, <2>2 DEF Ban, Lists, Heard
<1>6. ASSUME NEW u \in Users, NEW v \in Users, Befriend(u, v) PROVE TypeOK'
  BY <1>6 DEF Befriend
<1>7. ASSUME NEW q \in lookups, ReadFriendIds(q) PROVE TypeOK'
  BY <1>7, OwnerAssumption DEF ReadFriendIds, Quiet
<1>8. ASSUME NEW q \in lookups, RememberFriendIds(q) PROVE TypeOK'
  BY <1>8, OwnerAssumption DEF RememberFriendIds, ListWith, Quiet
<1>9. ASSUME NEW q \in lookups, LookupErrs(q) PROVE TypeOK'
  BY <1>9 DEF LookupErrs, Quiet
<1>10. CASE UNCHANGED vars
  BY <1>10 DEF vars
<1> QED
  BY <1>1, <1>2, <1>3, <1>4, <1>5, <1>6, <1>7, <1>8, <1>9, <1>10 DEF Next

-------------------------------------------------------------------------------
(* Sessions *)

SessionInv == SessionIsLive /\ ClosedNowhere /\ OneAtATime

(* None of these steps opens or closes a socket or changes an entry.       *)
SameSockets == UNCHANGED <<phase, sessions, overlapped>>

LEMMA SessionsOfConnect ==
  ASSUME TypeOK, SessionInv, NEW s \in Sockets, Connect(s)
  PROVE  SessionInv'
<1>1. /\ phase[s] = "new" /\ phase' = [phase EXCEPT ![s] = "open"]
      /\ sessions' = [sessions EXCEPT ![Owner[s]] = s]
      /\ rooms' = rooms /\ overlapped \subseteq overlapped'
      /\ OpenOf(Owner[s]) # {} => Owner[s] \in overlapped'
  BY DEF Connect
<1>2. Owner[s] \in Users
  BY OwnerAssumption
<1>3. SessionIsLive'
  <2> SUFFICES ASSUME NEW u \in Users, sessions'[u] # None
               PROVE  /\ sessions'[u] \in Sockets
                      /\ phase'[sessions'[u]] = "open" /\ Owner[sessions'[u]] = u
    BY DEF SessionIsLive, OpenOf, Open
  <2>1. CASE u = Owner[s]
    BY <1>1, <2>1 DEF TypeOK
  <2>2. CASE u # Owner[s]
    <3>1. sessions'[u] = sessions[u]
      BY <1>1, <2>2 DEF TypeOK
    <3>2. sessions[u] \in Sockets /\ phase[sessions[u]] = "open" /\ Owner[sessions[u]] = u
      BY <3>1 DEF SessionInv, SessionIsLive, OpenOf, Open
    <3> QED BY <1>1, <3>1, <3>2 DEF TypeOK
  <2> QED BY <2>1, <2>2
<1>4. ClosedNowhere'
  BY <1>1 DEF ClosedNowhere, SessionInv, TypeOK
<1>5. OneAtATime'
  <2> SUFFICES ASSUME NEW r \in Sockets, phase'[r] = "open", Owner[r] \notin overlapped'
               PROVE  sessions'[Owner[r]] = r
    BY DEF OneAtATime
  <2>1. CASE r = s
    BY <1>1, <1>2, <2>1 DEF TypeOK
  <2>2. CASE r # s
    <3>1. phase[r] = "open" /\ sessions[Owner[r]] = r
      BY <1>1, <2>2 DEF SessionInv, OneAtATime, TypeOK
    <3>2. Owner[r] # Owner[s]
      BY <1>1, <3>1 DEF OpenOf, Open
    <3> QED BY <1>1, <3>1, <3>2 DEF TypeOK
  <2> QED BY <2>1, <2>2
<1> QED BY <1>3, <1>4, <1>5 DEF SessionInv

LEMMA SessionsOfDisconnect ==
  ASSUME TypeOK, SessionInv, NEW s \in Sockets, Disconnect(s)
  PROVE  SessionInv'
<1>1. /\ phase[s] = "open" /\ phase' = [phase EXCEPT ![s] = "closed"]
      /\ sessions' = [sessions EXCEPT ![Owner[s]] = None]
      /\ rooms' = [rooms EXCEPT ![s] = {}] /\ overlapped' = overlapped
  BY DEF Disconnect, SessionsLeft
<1>2. Owner[s] \in Users
  BY OwnerAssumption
<1>3. SessionIsLive'
  BY <1>1, <1>2 DEF SessionInv, SessionIsLive, TypeOK, OpenOf, Open
<1>4. ClosedNowhere'
  BY <1>1 DEF ClosedNowhere, SessionInv, TypeOK
<1>5. OneAtATime'
  <2> SUFFICES ASSUME NEW r \in Sockets, phase'[r] = "open", Owner[r] \notin overlapped'
               PROVE  sessions'[Owner[r]] = r
    BY DEF OneAtATime
  <2>1. r # s /\ phase[r] = "open" /\ sessions[Owner[r]] = r
    BY <1>1 DEF SessionInv, OneAtATime, TypeOK
  <2>2. Owner[r] # Owner[s]
    BY <1>1, <2>1 DEF SessionInv, OneAtATime
  <2> QED BY <1>1, <2>1, <2>2 DEF TypeOK
<1> QED BY <1>3, <1>4, <1>5 DEF SessionInv

LEMMA SessionsUndisturbed ==
  ASSUME TypeOK, SessionInv, SameSockets,
         \A s \in Sockets : phase[s] # "open" => rooms'[s] = rooms[s]
  PROVE  SessionInv'
  BY DEF SessionInv, SameSockets, SessionIsLive, ClosedNowhere, OneAtATime, OpenOf, Open

LEMMA SessionStep == TypeOK /\ SessionInv /\ [Next]_vars => SessionInv'
<1> SUFFICES ASSUME TypeOK, SessionInv, [Next]_vars PROVE SessionInv'
  OBVIOUS
<1>1. ASSUME NEW s \in Sockets, Connect(s) \/ Disconnect(s) PROVE SessionInv'
  BY <1>1, SessionsOfConnect, SessionsOfDisconnect
<1>2. ASSUME NEW s \in Sockets, NEW c \in Conversations, JoinRoom(s, c) \/ LeaveRoom(s, c)
      PROVE  SessionInv'
  BY <1>2, SessionsUndisturbed DEF JoinRoom, LeaveRoom, SameSockets, TypeOK
<1>3. ASSUME NEW u \in Users, NEW c \in Conversations, Ban(u, c) PROVE SessionInv'
  <2>1. SameSockets
    BY <1>3 DEF Ban, SameSockets
  <2>2. rooms' = rooms \/ (sessions[u] # None /\ rooms' = [rooms EXCEPT ![sessions[u]] = @ \ {c}])
    BY <1>3 DEF Ban
  <2>3. sessions[u] # None => phase[sessions[u]] = "open"
    BY DEF SessionInv, SessionIsLive, OpenOf, Open
  <2>4. \A s \in Sockets : phase[s] # "open" => rooms'[s] = rooms[s]
    BY <2>2, <2>3 DEF TypeOK
  <2> QED BY <2>1, <2>4, SessionsUndisturbed
<1>4. ASSUME NEW u \in Users, NEW v \in Users, Befriend(u, v) PROVE SessionInv'
  BY <1>4, SessionsUndisturbed DEF Befriend, SameSockets
<1>5. ASSUME NEW q \in lookups, ReadFriendIds(q) \/ RememberFriendIds(q) \/ LookupErrs(q)
      PROVE  SessionInv'
  BY <1>5, SessionsUndisturbed
  DEF ReadFriendIds, RememberFriendIds, LookupErrs, Quiet, SameSockets
<1>6. CASE UNCHANGED vars
  BY <1>6, SessionsUndisturbed DEF vars, SameSockets
<1> QED BY <1>1, <1>2, <1>3, <1>4, <1>5, <1>6 DEF Next

-------------------------------------------------------------------------------
(* Presence notices *)

NoticeInv == HeardInRoom /\ OnlineIsTrue

(* What bears 'online' out                                                 *)
TrueOf(c, u) ==
    \/ \E s \in Sockets : phase[s] = "open" /\ Owner[s] = u /\ c \in rooms[s]
    \/ <<u, c>> \in evicted

LEMMA OnlineSpelled ==
  ASSUME TypeOK
  PROVE  OnlineIsTrue <=>
           \A w \in Sockets, c \in Conversations, u \in Users :
             phase[w] = "open" /\ c \in rooms[w] /\ heard[<<w, c, u>>] = "online"
               => TrueOf(c, u)
<1>1. \A c, u : OpenOf(u) \intersect InRoom(c) # {} <=>
        \E s \in Sockets : phase[s] = "open" /\ Owner[s] = u /\ c \in rooms[s]
  BY DEF OpenOf, InRoom, Open
<1>2. \A w \in Sockets : rooms[w] \subseteq Conversations
  BY DEF TypeOK
<1> QED BY <1>1, <1>2 DEF OnlineIsTrue, TrueOf, Open

LEMMA OnlineSpelledNext ==
  ASSUME TypeOK',
         \A w \in Sockets, c \in Conversations, u \in Users :
           phase'[w] = "open" /\ c \in rooms'[w] /\ heard'[<<w, c, u>>] = "online"
             => TrueOf(c, u)'
  PROVE  OnlineIsTrue'
  BY DEF TypeOK, OnlineIsTrue, TrueOf, Open, OpenOf, InRoom

LEMMA NoticesOfConnect ==
  ASSUME TypeOK, TypeOK', SessionInv, NoticeInv, NEW s \in Sockets, Connect(s)
  PROVE  NoticeInv'
<1>1. /\ phase[s] = "new" /\ phase' = [phase EXCEPT ![s] = "open"]
      /\ rooms' = rooms /\ heard' = heard /\ evicted' = evicted
  BY DEF Connect
<1>2. rooms[s] = {}
  BY <1>1 DEF SessionInv, ClosedNowhere
<1>3. HeardInRoom'
  BY <1>1 DEF NoticeInv, HeardInRoom
<1>4. ASSUME NEW w \in Sockets, NEW c \in Conversations, NEW u \in Users,
             phase'[w] = "open", c \in rooms'[w], heard'[<<w, c, u>>] = "online"
      PROVE  TrueOf(c, u)'
  <2>1. phase[w] = "open"
    BY <1>1, <1>2, <1>4 DEF TypeOK
  <2>2. TrueOf(c, u)
    BY <1>1, <1>4, <2>1, OnlineSpelled DEF NoticeInv
  <2> QED BY <1>1, <2>2 DEF TrueOf, TypeOK
<1>5. OnlineIsTrue'
  BY <1>4, OnlineSpelledNext
<1> QED BY <1>3, <1>5 DEF NoticeInv

LEMMA NoticesOfDisconnect ==
  ASSUME TypeOK, TypeOK', SessionInv, NoticeInv, NEW s \in Sockets, Disconnect(s)
  PROVE  NoticeInv'
<1> DEFINE told == Told(s, rooms[s], Owner[s], "offline")
<1>1. /\ phase[s] = "open" /\ phase' = [phase EXCEPT ![s] = "closed"]
      /\ rooms' = [rooms EXCEPT ![s] = {}] /\ evicted' = evicted
      /\ heard' = Forgets(told, s, Conversations)
  BY DEF Disconnect, RoomsLeft
<1>2. /\ DOMAIN told = Sockets \X Conversations \X Users
      /\ Owner[s] \in Users /\ rooms[s] \subseteq Conversations
  BY OwnerAssumption DEF Told, TypeOK
<1>3. ASSUME NEW w \in Sockets, NEW c \in Conversations, NEW u \in Users
      PROVE  /\ heard'[<<w, c, u>>] = IF w = s THEN "nothing" ELSE told[<<w, c, u>>]
             /\ told[<<w, c, u>>] = IF w # s /\ c \in rooms[s] \intersect rooms[w] /\ u = Owner[s]
                                    THEN "offline" ELSE heard[<<w, c, u>>]
  <2>1. told[<<w, c, u>>] = IF w # s /\ c \in rooms[s] \intersect rooms[w] /\ u = Owner[s]
                            THEN "offline" ELSE heard[<<w, c, u>>]
    BY ToldAt
  <2>2. heard'[<<w, c, u>>] = IF w = s THEN "nothing" ELSE told[<<w, c, u>>]
    <3> HIDE DEF told
    <3> QED BY <1>1, <1>2 DEF Forgets
  <2> QED BY <2>1, <2>2
<1>4. HeardInRoom'
  <2> SUFFICES ASSUME NEW w \in Sockets, NEW c \in Conversations, NEW u \in Users,
                      heard'[<<w, c, u>>] # "nothing"
               PROVE  c \in rooms'[w]
    BY DEF HeardInRoom
  <2>1. w # s /\ c \in rooms[w]
    <3> HIDE DEF told
    <3> QED BY <1>3 DEF NoticeInv, HeardInRoom
  <2> QED BY <1>1, <2>1 DEF TypeOK
<1>5. ASSUME NEW w \in Sockets, NEW c \in Conversations, NEW u \in Users,
             phase'[w] = "open", c \in rooms'[w], heard'[<<w, c, u>>] = "online"
      PROVE  TrueOf(c, u)'
  <2>1. w # s /\ phase[w] = "open" /\ c \in rooms[w]
    BY <1>1, <1>5 DEF TypeOK
  <2>2. heard[<<w, c, u>>] = "online" /\ ~(c \in rooms[s] /\ u = Owner[s])
    <3> HIDE DEF told
    <3> QED BY <1>3, <1>5, <2>1
  <2>3. TrueOf(c, u)
    BY <2>1, <2>2, OnlineSpelled DEF NoticeInv
  <2>4. CASE <<u, c>> \in evicted
    BY <1>1, <2>4 DEF TrueOf
  <2>5. CASE <<u, c>> \notin evicted
    <3>1. PICK r \in Sockets : phase[r] = "open" /\ Owner[r] = u /\ c \in rooms[r]
      BY <2>3, <2>5 DEF TrueOf
    <3>2. r # s
      BY <2>2, <3>1
    <3>3. phase'[r] = "open" /\ rooms'[r] = rooms[r]
      BY <1>1, <3>1, <3>2 DEF TypeOK
    <3> QED BY <3>1, <3>3 DEF TrueOf
  <2> QED BY <2>4, <2>5
<1>6. OnlineIsTrue'
  BY <1>5, OnlineSpelledNext
<1> QED BY <1>4, <1>6 DEF NoticeInv

LEMMA NoticesOfJoinRoom ==
  ASSUME TypeOK, TypeOK', NoticeInv, NEW s \in Sockets, NEW d \in Conversations,
         JoinRoom(s, d)
  PROVE  NoticeInv'
<1>1. /\ phase[s] = "open" /\ phase' = phase
      /\ rooms' = [rooms EXCEPT ![s] = @ \union {d}]
      /\ heard' = Told(s, {d}, Owner[s], "online")
      /\ evicted' = evicted \ {<<Owner[s], d>>}
  BY DEF JoinRoom
<1>2. Owner[s] \in Users /\ d \in rooms'[s] /\ \A w \in Sockets : rooms[w] \subseteq rooms'[w]
  BY <1>1, OwnerAssumption DEF TypeOK
<1>3. \A w \in Sockets, c \in Conversations, u \in Users :
        heard'[<<w, c, u>>] = IF w # s /\ c \in {d} \intersect rooms[w] /\ u = Owner[s]
                              THEN "online" ELSE heard[<<w, c, u>>]
  BY <1>1 DEF Told, TypeOK
<1>4. HeardInRoom'
  BY <1>2, <1>3 DEF NoticeInv, HeardInRoom
<1>5. ASSUME NEW w \in Sockets, NEW c \in Conversations, NEW u \in Users,
             phase'[w] = "open", c \in rooms'[w], heard'[<<w, c, u>>] = "online"
      PROVE  TrueOf(c, u)'
  <2>1. CASE c = d /\ u = Owner[s]
    BY <1>1, <1>2, <2>1 DEF TrueOf
  <2>2. CASE ~(c = d /\ u = Owner[s])
    <3>1. heard[<<w, c, u>>] = "online"
      BY <1>3, <1>5, <2>2
    <3>2. phase[w] = "open" /\ c \in rooms[w]
      BY <1>1, <1>5, <3>1 DEF NoticeInv, HeardInRoom
    <3>3. TrueOf(c, u)
      BY <3>1, <3>2, OnlineSpelled DEF NoticeInv
    <3>4. CASE <<u, c>> \in evicted
      BY <1>1, <2>2, <3>4 DEF TrueOf
    <3>5. CASE <<u, c>> \notin evicted
      BY <1>1, <1>2, <3>3, <3>5 DEF TrueOf
    <3> QED BY <3>4, <3>5
  <2> QED BY <2>1, <2>2
<1>6. OnlineIsTrue'
  BY <1>5, OnlineSpelledNext
<1> QED BY <1>4, <1>6 DEF NoticeInv

LEMMA NoticesOfLeaveRoom ==
  ASSUME TypeOK, TypeOK', NoticeInv, NEW s \in Sockets, NEW d \in Conversations,
         LeaveRoom(s, d)
  PROVE  NoticeInv'
<1> DEFINE told == Told(s, {d}, Owner[s], "offline")
<1>1. /\ phase[s] = "open" /\ phase' = phase
      /\ rooms' = [rooms EXCEPT ![s] = @ \ {d}]
      /\ heard' = Forgets(told, s, {d})
      /\ evicted' = evicted
  BY DEF LeaveRoom
<1>2. Owner[s] \in Users /\ DOMAIN told = Sockets \X Conversations \X Users
  BY OwnerAssumption DEF Told, TypeOK
<1>3. ASSUME NEW w \in Sockets, NEW c \in Conversations, NEW u \in Users
      PROVE  /\ heard'[<<w, c, u>>] = IF w = s /\ c = d THEN "nothing" ELSE told[<<w, c, u>>]
             /\ told[<<w, c, u>>] = IF w # s /\ c \in {d} \intersect rooms[w] /\ u = Owner[s]
                                    THEN "offline" ELSE heard[<<w, c, u>>]
  <2>1. told[<<w, c, u>>] = IF w # s /\ c \in {d} \intersect rooms[w] /\ u = Owner[s]
                            THEN "offline" ELSE heard[<<w, c, u>>]
    BY ToldAt
  <2>2. heard'[<<w, c, u>>] = IF w = s /\ c \in {d} THEN "nothing" ELSE told[<<w, c, u>>]
    <3> HIDE DEF told
    <3> QED BY <1>1, <1>2 DEF Forgets
  <2> QED BY <2>1, <2>2
<1>4. HeardInRoom'
  <2> SUFFICES ASSUME NEW w \in Sockets, NEW c \in Conversations, NEW u \in Users,
                      heard'[<<w, c, u>>] # "nothing"
               PROVE  c \in rooms'[w]
    BY DEF HeardInRoom
  <2>1. ~(w = s /\ c = d) /\ c \in rooms[w]
    <3> HIDE DEF told
    <3> QED BY <1>3 DEF NoticeInv, HeardInRoom
  <2> QED BY <1>1, <2>1 DEF TypeOK
<1>5. ASSUME NEW w \in Sockets, NEW c \in Conversations, NEW u \in Users,
             phase'[w] = "open", c \in rooms'[w], heard'[<<w, c, u>>] = "online"
      PROVE  TrueOf(c, u)'
  <2>1. phase[w] = "open" /\ c \in rooms[w] /\ ~(w = s /\ c = d)
    BY <1>1, <1>5 DEF TypeOK
  <2>2. heard[<<w, c, u>>] = "online" /\ ~(c = d /\ u = Owner[s])
    <3> HIDE DEF told
    <3> QED BY <1>3, <1>5, <2>1
  <2>3. TrueOf(c, u)
    BY <2>1, <2>2, OnlineSpelled DEF NoticeInv
  <2>4. CASE <<u, c>> \in evicted
    BY <1>1, <2>4 DEF TrueOf
  <2>5. CASE <<u, c>> \notin evicted
    <3>1. PICK r \in Sockets : phase[r] = "open" /\ Owner[r] = u /\ c \in rooms[r]
      BY <2>3, <2>5 DEF TrueOf
    <3>2. c \in rooms'[r]
      BY <1>1, <2>2, <3>1 DEF TypeOK
    <3> QED BY <1>1, <3>1, <3>2 DEF TrueOf
  <2> QED BY <2>4, <2>5
<1>6. OnlineIsTrue'
  BY <1>5, OnlineSpelledNext
<1> QED BY <1>4, <1>6 DEF NoticeInv

LEMMA NoticesUndisturbed ==
  ASSUME TypeOK, TypeOK', NoticeInv, UNCHANGED <<phase, rooms, heard, evicted>>
  PROVE  NoticeInv'
  BY DEF NoticeInv, HeardInRoom, OnlineIsTrue, Open, OpenOf, InRoom

LEMMA NoticesOfBan ==
  ASSUME TypeOK, TypeOK', SessionInv, NoticeInv, NEW v \in Users, NEW d \in Conversations,
         Ban(v, d)
  PROVE  NoticeInv'
<1> DEFINE s == sessions[v]
<1>1. CASE ~(s # None /\ d \in rooms[s])
  BY <1>1, NoticesUndisturbed DEF Ban
<1>2. CASE s # None /\ d \in rooms[s]
  <2>1. /\ phase' = phase
        /\ rooms' = [rooms EXCEPT ![s] = @ \ {d}]
        /\ heard' = Forgets(heard, s, {d})
        /\ evicted' = evicted \union {<<v, d>>}
    BY <1>2 DEF Ban
  <2>2. s \in Sockets /\ Owner[s] = v
    BY <1>2 DEF SessionInv, SessionIsLive, OpenOf, Open
  <2>3. DOMAIN heard = Sockets \X Conversations \X Users
    BY DEF TypeOK
  <2>4. \A w \in Sockets, c \in Conversations, u \in Users :
          heard'[<<w, c, u>>] = IF w = s /\ c \in {d} THEN "nothing" ELSE heard[<<w, c, u>>]
    <3> HIDE DEF s
    <3> QED BY <2>1, <2>3 DEF Forgets
  <2> HIDE DEF s
  <2>5. HeardInRoom'
    <3> SUFFICES ASSUME NEW w \in Sockets, NEW c \in Conversations, NEW u \in Users,
                        heard'[<<w, c, u>>] # "nothing"
                 PROVE  c \in rooms'[w]
      BY DEF HeardInRoom
    <3>1. ~(w = s /\ c = d) /\ c \in rooms[w]
      BY <2>4 DEF NoticeInv, HeardInRoom
    <3> QED BY <2>1, <2>2, <3>1 DEF TypeOK
  <2>6. ASSUME NEW w \in Sockets, NEW c \in Conversations, NEW u \in Users,
               phase'[w] = "open", c \in rooms'[w], heard'[<<w, c, u>>] = "online"
        PROVE  TrueOf(c, u)'
    <3>0. phase[w] = "open" /\ c \in rooms[w]
      BY <2>1, <2>2, <2>6 DEF TypeOK
    <3>1. heard[<<w, c, u>>] = "online"
      BY <2>4, <2>6
    <3>2. TrueOf(c, u)
      BY <3>0, <3>1, OnlineSpelled DEF NoticeInv
    <3>3. CASE <<u, c>> \in evicted'
      BY <3>3 DEF TrueOf
    <3>4. CASE <<u, c>> \notin evicted'
      <4>1. PICK r \in Sockets : phase[r] = "open" /\ Owner[r] = u /\ c \in rooms[r]
        BY <2>1, <3>2, <3>4 DEF TrueOf
      <4>2. ~(c = d /\ r = s)
        BY <2>1, <2>2, <3>4, <4>1
      <4>3. c \in rooms'[r]
        BY <2>1, <4>1, <4>2 DEF TypeOK
      <4> QED BY <2>1, <4>1, <4>3 DEF TrueOf
    <3> QED BY <3>3, <3>4
  <2>7. OnlineIsTrue'
    BY <2>6, OnlineSpelledNext
  <2> QED BY <2>5, <2>7 DEF NoticeInv
<1> QED BY <1>1, <1>2

LEMMA NoticeStep == TypeOK /\ SessionInv /\ NoticeInv /\ [Next]_vars => NoticeInv'
<1> SUFFICES ASSUME TypeOK, SessionInv, NoticeInv, [Next]_vars PROVE NoticeInv'
  OBVIOUS
<1> TypeOK'
  BY TypeStep
<1>1. ASSUME NEW s \in Sockets, Connect(s) \/ Disconnect(s) PROVE NoticeInv'
  BY <1>1, NoticesOfConnect, NoticesOfDisconnect
<1>2. ASSUME NEW s \in Sockets, NEW c \in Conversations, JoinRoom(s, c) \/ LeaveRoom(s, c)
      PROVE  NoticeInv'
  BY <1>2, NoticesOfJoinRoom, NoticesOfLeaveRoom
<1>3. ASSUME NEW u \in Users, NEW c \in Conversations, Ban(u, c) PROVE NoticeInv'
  BY <1>3, NoticesOfBan
<1>4. ASSUME NEW u \in Users, NEW v \in Users, Befriend(u, v) PROVE NoticeInv'
  BY <1>4, NoticesUndisturbed DEF Befriend
<1>5. ASSUME NEW q \in lookups, ReadFriendIds(q) \/ RememberFriendIds(q) \/ LookupErrs(q)
      PROVE  NoticeInv'
  BY <1>5, NoticesUndisturbed DEF ReadFriendIds, RememberFriendIds, LookupErrs, Quiet
<1>6. CASE UNCHANGED vars
  BY <1>6, NoticesUndisturbed DEF vars
<1> QED BY <1>1, <1>2, <1>3, <1>4, <1>5, <1>6 DEF Next

-------------------------------------------------------------------------------
(* Friend lists *)

(* friendIds only grow, so an answer that is late is still of friends.     *)
LEMMA ListsStep == TypeOK /\ ListsAreFriends /\ [Next]_vars => ListsAreFriends'
<1> SUFFICES ASSUME TypeOK, ListsAreFriends, [Next]_vars PROVE ListsAreFriends'
  OBVIOUS
<1>1. ASSUME NEW s \in Sockets, Connect(s) PROVE ListsAreFriends'
  BY <1>1 DEF Connect, ListsAreFriends
<1>2. ASSUME UNCHANGED Lists PROVE ListsAreFriends'
  BY <1>2 DEF Lists, ListsAreFriends
<1>3. ASSUME NEW u \in Users, NEW v \in Users, Befriend(u, v) PROVE ListsAreFriends'
  <2>1. lookups' = lookups /\ friendList' = friendList
        /\ \A x \in Users : friendIds[x] \subseteq friendIds'[x]
    BY <1>3 DEF Befriend, TypeOK
  <2>2. \A q \in lookups : Owner[q.socket] \in Users
    BY OwnerAssumption DEF TypeOK
  <2> QED BY <2>1, <2>2 DEF ListsAreFriends
<1>4. ASSUME NEW q \in lookups, ReadFriendIds(q) PROVE ListsAreFriends'
  <2> DEFINE r == [q EXCEPT !.ids = friendIds[Owner[q.socket]]]
  <2>1. /\ lookups' = (lookups \ {q}) \union {r}
        /\ friendList' = friendList /\ friendIds' = friendIds
    BY <1>4 DEF ReadFriendIds, Quiet
  <2>2. r.ids = friendIds[Owner[r.socket]]
    BY DEF TypeOK
  <2> HIDE DEF r
  <2> QED BY <2>1, <2>2 DEF ListsAreFriends
<1>5. ASSUME NEW q \in lookups, RememberFriendIds(q) PROVE ListsAreFriends'
  <2>1. /\ q.ids # {None} /\ friendList' = [friendList EXCEPT ![Owner[q.socket]] = q.ids]
        /\ lookups' \subseteq lookups /\ friendIds' = friendIds
    BY <1>5 DEF RememberFriendIds, ListWith, Quiet
  <2>2. q.ids \subseteq friendIds[Owner[q.socket]]
    BY <2>1 DEF ListsAreFriends
  <2>3. \A u \in Users : friendList'[u] # {None} => friendList'[u] \subseteq friendIds[u]
    BY <2>1, <2>2 DEF ListsAreFriends, TypeOK
  <2> QED BY <2>1, <2>3 DEF ListsAreFriends
<1>6. ASSUME NEW q \in lookups, LookupErrs(q) PROVE ListsAreFriends'
  BY <1>6 DEF LookupErrs, Quiet, ListsAreFriends
<1>7. ASSUME NEW s \in Sockets, Disconnect(s) PROVE ListsAreFriends'
  BY <1>2, <1>7 DEF Disconnect
<1>8. ASSUME NEW s \in Sockets, NEW c \in Conversations, JoinRoom(s, c) \/ LeaveRoom(s, c)
      PROVE  ListsAreFriends'
  BY <1>2, <1>8 DEF JoinRoom, LeaveRoom
<1>9. ASSUME NEW u \in Users, NEW c \in Conversations, Ban(u, c) PROVE ListsAreFriends'
  BY <1>2, <1>9 DEF Ban
<1>10. CASE UNCHANGED vars
  BY <1>2, <1>10 DEF vars, Lists
<1> QED BY <1>1, <1>3, <1>4, <1>5, <1>6, <1>7, <1>8, <1>9, <1>10 DEF Next

-------------------------------------------------------------------------------
(* Theorems *)

LEMMA IInvStep == IInv /\ [Next]_vars => IInv'
  BY TypeStep, SessionStep, NoticeStep, ListsStep DEF IInv, SessionInv, NoticeInv

LEMMA Inductive == Spec => []IInv
<1> QED BY InitIInv, IInvStep, PTL DEF Spec

(* Every map of the gateway holds values of its type.                      *)
THEOREM TypeCorrect == Spec => []TypeOK
<1>1. IInv => TypeOK
  BY DEF IInv
<1> QED BY <1>1, Inductive, PTL

(* GatewaySessionManager: an entry is an open socket of its user, whatever *)
(* sockets users open and close and in which order.                        *)
THEOREM Sessions == Spec => []SessionIsLive
<1>1. IInv => SessionIsLive
  BY DEF IInv
<1> QED BY <1>1, Inductive, PTL

(* handleGetParticipantStatus: 'online' is never answered of somebody who  *)
(* is not in the room, and the answers are exact of users who never had    *)
(* two sockets at once.                                                    *)
THEOREM Presence == Spec => []PresenceIsExact
<1>1. IInv => PresenceIsExact
  <2> SUFFICES ASSUME IInv, NEW u \in Users
               PROVE  /\ \A c \in Conversations :
                           LET present == OpenOf(u) \intersect InRoom(c) # {} IN
                           /\ Status(u, c) = "online" => present
                           /\ u \notin overlapped /\ present => Status(u, c) = "online"
                      /\ u \notin overlapped => (sessions[u] # None <=> OpenOf(u) # {})
    BY DEF PresenceIsExact
  <2>1. sessions[u] # None => sessions[u] \in OpenOf(u)
    BY DEF IInv, SessionIsLive
  <2>2. \A s \in OpenOf(u) : s # None /\ (u \notin overlapped => sessions[u] = s)
    BY NoneAssumption DEF IInv, OneAtATime, OpenOf, Open
  <2>3. ASSUME NEW c \in Conversations, Status(u, c) = "online"
        PROVE  OpenOf(u) \intersect InRoom(c) # {}
    <3>1. sessions[u] # None /\ c \in rooms[sessions[u]]
      BY <2>3 DEF Status
    <3>2. sessions[u] \in OpenOf(u) \intersect InRoom(c)
      BY <2>1, <3>1 DEF OpenOf, InRoom
    <3> QED BY <3>2
  <2>4. ASSUME NEW c \in Conversations, u \notin overlapped,
               OpenOf(u) \intersect InRoom(c) # {}
        PROVE  Status(u, c) = "online"
    <3>1. PICK s \in OpenOf(u) : c \in rooms[s]
      BY <2>4 DEF InRoom
    <3> QED BY <2>2, <2>4, <3>1 DEF Status
  <2> QED BY <2>1, <2>2, <2>3, <2>4
<1> QED BY <1>1, Inductive, PTL

(* ConversationGateway: a viewer who was told 'online' and was not told    *)
(* otherwise shares the room with a socket of that user, unless a ban took *)
(* the user away.                                                          *)
THEOREM NoGhosts == Spec => []OnlineIsTrue
<1>1. IInv => OnlineIsTrue
  BY DEF IInv
<1> QED BY <1>1, Inductive, PTL

(* handleGetFriendListRetrieve: who is shown is a friend and connected,    *)
(* however late the query of the friend list came back.                    *)
THEOREM TruthfulFriendLists == Spec => []FriendsShownAreFriends
<1>1. IInv => FriendsShownAreFriends
  <2> SUFFICES ASSUME IInv, NEW u \in Users, NEW v \in FriendsShown(u)
               PROVE  v \in friendIds[u] /\ OpenOf(v) # {}
    BY DEF FriendsShownAreFriends
  <2>1. friendList[u] # {None} /\ v \in friendList[u] /\ sessions[v] # None
    BY DEF FriendsShown
  <2>2. v \in friendIds[u] /\ v \in Users
    BY <2>1 DEF IInv, ListsAreFriends, TypeOK
  <2> QED BY <2>1, <2>2 DEF IInv, SessionIsLive
<1> QED BY <1>1, Inductive, PTL

===============================================================================
