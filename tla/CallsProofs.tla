------------------------------ MODULE CallsProofs ------------------------------
(***************************************************************************)
(* Theorems about Calls for every set of users, sockets and calls.  Calls  *)
(* read the session map and never write it, so what is proved of           *)
(* GatewaySessions holds while calls are made; the rest follows from its   *)
(* invariant and from what a handler keeps across its await.               *)
(***************************************************************************)
EXTENDS Calls, GatewaySessionsProofs

(* The chosen socket has been opened: it can only be gone, never to come.  *)
RungWasOpen ==
    \A c \in CallIds : call[c].stage \in Live => phase[call[c].rung] # "new"

CInv == IInv /\ CallTypeOK /\ RungWasOpen

-------------------------------------------------------------------------------

LEMMA CallStepCases ==
  ASSUME CallNext
  PROVE  \/ Next /\ UNCHANGED call
         \/ UNCHANGED vars /\ \E c \in CallIds :
              \/ \E s \in Sockets, u \in Users : VideoCalling(c, s, u)
              \/ Rings(c) \/ LookupFails(c)
              \/ \E s \in Sockets : Accept(c, s) \/ Reject(c, s)
BY DEF CallNext, VideoCalling, Rings, LookupFails, Accept, Reject

(* A step of a call is a stutter of the gateway.                           *)
LEMMA CallStepIsStep == [CallNext]_callVars => [Next]_vars
BY CallStepCases DEF callVars

LEMMA Unbegun == \A stage \in {"none", "unavailable", "failed", "unanswered", "ended"} :
    stage \notin Live
BY DEF Live

(* A call in hand that only changes its stage keeps its sockets.           *)
LEMMA MovesKeeps ==
  ASSUME CallTypeOK, RungWasOpen, UNCHANGED vars, NEW c \in CallIds, NEW stage \in Stages,
         Moves(c, stage), stage \in Live => call[c].stage \in Live
  PROVE  CallTypeOK' /\ RungWasOpen'
<1> USE DEF vars
<1>1. call' \in [CallIds -> [stage: Stages, caller: Sockets \union {None},
                             callee: Users \union {None}, rung: Sockets \union {None}]]
  BY DEF CallTypeOK, Moves
<1>2. \A d \in CallIds : /\ call'[d].caller = call[d].caller /\ call'[d].callee = call[d].callee
                         /\ call'[d].rung = call[d].rung
                         /\ call'[d].stage \in Live => call[d].stage \in Live
  BY DEF CallTypeOK, Moves
<1> QED BY <1>1, <1>2 DEF CallTypeOK, RungWasOpen

LEMMA VideoCallingKeeps ==
  ASSUME CInv, NEW c \in CallIds, NEW s \in Sockets, NEW u \in Users, VideoCalling(c, s, u)
  PROVE  CallTypeOK' /\ RungWasOpen'
<1> USE DEF VideoCalling, vars
<1>1. sessions[u] # None => /\ sessions[u] \in Sockets
                            /\ Owner[sessions[u]] = u /\ phase[sessions[u]] = "open"
  BY DEF CInv, IInv, SessionIsLive, OpenOf, Open
<1>2. sessions[u] \in Sockets \union {None}
  BY DEF CInv, IInv, TypeOK
<1> DEFINE begun == [stage |-> IF Available(u) THEN "looking" ELSE "unavailable",
                     caller |-> s, callee |-> u, rung |-> sessions[u]]
<1>3. begun \in [stage: Stages, caller: Sockets \union {None},
                 callee: Users \union {None}, rung: Sockets \union {None}]
  BY <1>2 DEF Stages
<1>4. begun.stage \in Live => sessions[u] # None
  BY DEF Available, Live
<1>5. call' = [call EXCEPT ![c] = begun]
  OBVIOUS
<1> HIDE DEF begun
<1>6. CallTypeOK'
  <2>1. call' \in [CallIds -> [stage: Stages, caller: Sockets \union {None},
                               callee: Users \union {None}, rung: Sockets \union {None}]]
    BY <1>3, <1>5 DEF CInv, CallTypeOK
  <2>2. ASSUME NEW d \in CallIds, call'[d].stage \in Live
        PROVE  /\ call'[d].caller \in Sockets /\ call'[d].rung \in Sockets
               /\ Owner[call'[d].rung] = call'[d].callee
    <3>1. CASE d = c
      <4>1. call'[d] = begun
        BY <1>5, <3>1 DEF CInv, CallTypeOK
      <4> QED BY <1>1, <1>4, <2>2, <4>1 DEF begun
    <3>2. CASE d # c
      BY <1>5, <2>2, <3>2 DEF CInv, CallTypeOK
    <3> QED BY <3>1, <3>2
  <2> QED BY <2>1, <2>2 DEF CallTypeOK
<1>7. RungWasOpen'
  <2> SUFFICES ASSUME NEW d \in CallIds, call'[d].stage \in Live
               PROVE  phase[call'[d].rung] # "new"
    BY DEF RungWasOpen
  <2>1. CASE d = c
    <3>1. call'[d] = begun
      BY <1>5, <2>1 DEF CInv, CallTypeOK
    <3> QED BY <1>1, <1>4, <3>1 DEF begun
  <2>2. CASE d # c
    BY <1>5, <2>2 DEF CInv, CallTypeOK, RungWasOpen
  <2> QED BY <2>1, <2>2
<1> QED BY <1>6, <1>7

(* A socket that is not new stays so, whatever the gateway does.           *)
LEMMA NeverNewAgain ==
  ASSUME TypeOK, [Next]_vars, NEW s \in Sockets, phase[s] # "new"
  PROVE  phase'[s] # "new"
<1>1. CASE \E t \in Sockets : Connect(t) \/ Disconnect(t)
  BY <1>1 DEF Connect, Disconnect, TypeOK
<1>2. CASE phase' = phase
  BY <1>2
<1> QED BY <1>1, <1>2 DEF Next, vars, JoinRoom, LeaveRoom, Ban, Befriend,
           ReadFriendIds, RememberFriendIds, LookupErrs, Quiet

LEMMA CInvStep == CInv /\ [CallNext]_callVars => CInv'
<1> SUFFICES ASSUME CInv, [CallNext]_callVars PROVE CInv'
  OBVIOUS
<1>1. IInv'
  BY CallStepIsStep, IInvStep DEF CInv
<1>2. CallTypeOK' /\ RungWasOpen'
  <2>1. CASE (Next \/ UNCHANGED vars) /\ UNCHANGED call
    <3>1. CallTypeOK'
      BY <2>1 DEF CInv, CallTypeOK
    <3>2. RungWasOpen'
      BY <2>1, NeverNewAgain DEF CInv, IInv, CallTypeOK, RungWasOpen
    <3> QED BY <3>1, <3>2
  <2>2. ASSUME NEW c \in CallIds, NEW s \in Sockets, NEW u \in Users, VideoCalling(c, s, u)
        PROVE  CallTypeOK' /\ RungWasOpen'
    BY <2>2, VideoCallingKeeps
  <2>3. ASSUME NEW c \in CallIds, Rings(c) \/ LookupFails(c)
        PROVE  CallTypeOK' /\ RungWasOpen'
    <3>1. call[c].stage \in Live /\ "ringing" \in Stages /\ "failed" \in Stages
      BY <2>3 DEF Rings, LookupFails, Live, Stages
    <3> QED BY <2>3, <3>1, MovesKeeps DEF Rings, LookupFails, CInv
  <2>4. ASSUME NEW c \in CallIds, NEW s \in Sockets, Accept(c, s)
        PROVE  CallTypeOK' /\ RungWasOpen'
    <3>1. call[c].stage \in Live /\ "unanswered" \in Stages /\ "accepted" \in Stages
      BY <2>4 DEF Accept, Live, Stages
    <3>2. UNCHANGED vars /\ (Moves(c, "unanswered") \/ Moves(c, "accepted"))
      BY <2>4 DEF Accept
    <3> QED BY <3>1, <3>2, MovesKeeps DEF CInv
  <2>5. ASSUME NEW c \in CallIds, NEW s \in Sockets, Reject(c, s)
        PROVE  CallTypeOK' /\ RungWasOpen'
    <3>1. call[c].stage \in Live /\ "ended" \in Stages
      BY <2>5 DEF Reject, Live, Stages
    <3> QED BY <2>5, <3>1, MovesKeeps DEF Reject, CInv
  <2> QED BY <2>1, <2>2, <2>3, <2>4, <2>5, CallStepCases DEF callVars
<1> QED BY <1>1, <1>2 DEF CInv

LEMMA CallInductive == CallSpec => []CInv
<1>1. CallInit => CInv
  <2> SUFFICES ASSUME CallInit PROVE CInv
    OBVIOUS
  <2>1. IInv
    BY InitIInv DEF CallInit
  <2>2. \A c \in CallIds : call[c] = NoCall
    BY DEF CallInit
  <2>3. NoCall \in [stage: Stages, caller: Sockets \union {None},
                    callee: Users \union {None}, rung: Sockets \union {None}]
    BY DEF NoCall, Stages
  <2>4. NoCall.stage \notin Live
    BY DEF NoCall, Live
  <2>5. CallTypeOK
    BY <2>2, <2>3, <2>4 DEF CallInit, CallTypeOK
  <2> QED BY <2>1, <2>2, <2>4, <2>5 DEF CInv, RungWasOpen
<1> QED BY <1>1, CInvStep, PTL DEF CallSpec

-------------------------------------------------------------------------------
(* The theorems *)

(* CallGateway leaves the session map alone: a gateway that relays calls   *)
(* is a gateway, and all its theorems hold.                                *)
THEOREM CallsAreGateway == CallSpec => Spec
<1>1. CallInit => Init
  BY DEF CallInit
<1> QED BY <1>1, CallStepIsStep, PTL DEF CallSpec, Spec

(* The state of the calls keeps its type; the socket chosen to ring is the *)
(* callee's.                                                               *)
THEOREM CallTypes == CallSpec => []CallTypeOK
<1>1. CInv => CallTypeOK
  BY DEF CInv
<1> QED BY <1>1, CallInductive, PTL

(* A user without an entry is away.                                        *)
LEMMA NoEntryIsAway ==
  ASSUME CInv, NEW u \in Users, sessions[u] = None
  PROVE  Away(u)
BY NoneAssumption DEF CInv, IInv, OneAtATime, Away, OpenOf, Open

(* handleVideoCallingAccept, -Reject and handleCameraVideo: what a party   *)
(* sends goes to an open socket of the other user; it is dropped only if   *)
(* that user has none or once had two at once, and goes to the socket of   *)
(* the call while each user has had only one at a time.                    *)
THEOREM Relays == CallSpec => []RelaysReachTheParty
<1>1. CInv => RelaysReachTheParty
  <2> SUFFICES ASSUME CInv, NEW c \in CallIds, call[c].stage \in {"ringing", "accepted"},
                      NEW s \in Party(c)
               PROVE  /\ \/ Dest(c, s) \in OpenOf(Peer(c, s))
                         \/ Dest(c, s) = None /\ Away(Peer(c, s))
                      /\ phase[PeerSocket(c, s)] = "open" /\ Peer(c, s) \notin overlapped
                           => Dest(c, s) = PeerSocket(c, s)
    BY DEF RelaysReachTheParty
  <2>1. /\ call[c].caller \in Sockets /\ call[c].rung \in Sockets
        /\ Owner[call[c].rung] = call[c].callee
    BY DEF CInv, CallTypeOK, Live
  <2>2. /\ PeerSocket(c, s) \in Sockets /\ Owner[PeerSocket(c, s)] = Peer(c, s)
        /\ Peer(c, s) \in Users
    BY <2>1, OwnerAssumption DEF PeerSocket, Peer
  <2>3. CASE Dest(c, s) = None
    BY <2>2, <2>3, NoEntryIsAway, NoneAssumption DEF Dest, CInv, IInv, OneAtATime
  <2>4. CASE Dest(c, s) # None
    BY <2>2, <2>4 DEF CInv, IInv, SessionIsLive, OneAtATime, Dest
  <2> QED BY <2>3, <2>4
<1> QED BY <1>1, CallInductive, PTL

(* handleVideoCalling and handleVideoCallingAccept: 'user-unavailable' is  *)
(* answered only of a user who is away; 'calling' only if the socket to    *)
(* ring was an open one of the callee when it was chosen, and the ring is  *)
(* lost only if that one has closed while the profiles were awaited.       *)
THEOREM Answers == CallSpec => AnswersTrueWhenRead
<1>1. CInv /\ [CallNext]_callVars =>
        [\A c \in CallIds :
          LET was == call[c].stage  rung == call[c].rung  callee == call[c].callee IN
          /\ was = "none" /\ (call')[c].stage = "unavailable" => Away((call')[c].callee)
          /\ was = "none" /\ (call')[c].stage = "looking" =>
               (call')[c].rung \in OpenOf((call')[c].callee)
          /\ was = "ringing" /\ (call')[c].stage = "unanswered" => Away(Owner[call[c].caller])
          /\ was = "looking" /\ (call')[c].stage = "ringing" =>
               rung \in OpenOf(callee) \/ (phase[rung] = "closed" /\ sessions[callee] # rung)
        ]_callVars
  <2> SUFFICES ASSUME CInv, CallNext, NEW c \in CallIds
               PROVE  /\ call[c].stage = "none" /\ call'[c].stage = "unavailable"
                           => Away(call'[c].callee)
                      /\ call[c].stage = "none" /\ call'[c].stage = "looking"
                           => call'[c].rung \in OpenOf(call'[c].callee)
                      /\ call[c].stage = "ringing" /\ call'[c].stage = "unanswered"
                           => Away(Owner[call[c].caller])
                      /\ call[c].stage = "looking" /\ call'[c].stage = "ringing" =>
                           call[c].rung \in OpenOf(call[c].callee)
                           \/ (phase[call[c].rung] = "closed"
                               /\ sessions[call[c].callee] # call[c].rung)
    OBVIOUS
  <2>2. ASSUME call[c].stage = "none"
        PROVE  /\ call'[c].stage = "unavailable" => Away(call'[c].callee)
               /\ call'[c].stage = "looking" => call'[c].rung \in OpenOf(call'[c].callee)
    <3> SUFFICES ASSUME call'[c].stage \in {"unavailable", "looking"}
                 PROVE  /\ call'[c].stage = "unavailable" => Away(call'[c].callee)
                        /\ call'[c].stage = "looking" =>
                             call'[c].rung \in OpenOf(call'[c].callee)
      OBVIOUS
    <3>1. PICK s \in Sockets, u \in Users : VideoCalling(c, s, u)
      BY <2>2 DEF CInv, CallTypeOK, CallNext, VideoCalling, Rings, LookupFails, Accept,
                  Reject, Moves
    <3>2. /\ call'[c].callee = u /\ call'[c].rung = sessions[u]
          /\ call'[c].stage = "unavailable" => sessions[u] = None
          /\ call'[c].stage = "looking" => sessions[u] # None
      BY <3>1 DEF CInv, CallTypeOK, VideoCalling, Available
    <3> QED BY <3>2, NoEntryIsAway DEF CInv, IInv, SessionIsLive
  <2>3. ASSUME call[c].stage = "ringing", call'[c].stage = "unanswered"
        PROVE  Away(Owner[call[c].caller])
    <3>1. PICK s \in Sockets : Accept(c, s)
      BY <2>3 DEF CInv, CallTypeOK, CallNext, VideoCalling, Rings, LookupFails, Accept,
                  Reject, Moves
    <3>2. Dest(c, s) = None /\ s = call[c].rung
      BY <2>3, <3>1 DEF CInv, CallTypeOK, Accept, Moves
    <3>3. call[c].caller \in Sockets /\ Owner[call[c].rung] = call[c].callee
      BY <2>3 DEF CInv, CallTypeOK, Live
    <3>4. Peer(c, s) = Owner[call[c].caller] /\ Owner[call[c].caller] \in Users
      BY <3>2, <3>3, OwnerAssumption DEF Peer
    <3> QED BY NoEntryIsAway, <3>2, <3>4 DEF Dest
  <2>4. ASSUME call[c].stage = "looking"
        PROVE  call[c].rung \in OpenOf(call[c].callee)
               \/ (phase[call[c].rung] = "closed" /\ sessions[call[c].callee] # call[c].rung)
    <3>1. /\ call[c].rung \in Sockets /\ Owner[call[c].rung] = call[c].callee
          /\ phase[call[c].rung] \in {"open", "closed"}
      BY <2>4 DEF CInv, IInv, TypeOK, CallTypeOK, RungWasOpen, Live
    <3>2. call[c].callee \in Users
      BY <3>1, OwnerAssumption
    <3> QED BY <3>1, <3>2, NoneAssumption DEF CInv, IInv, SessionIsLive, OpenOf, Open
  <2> QED BY <2>2, <2>3, <2>4
<1> QED BY <1>1, CallInductive, PTL DEF CallSpec, AnswersTrueWhenRead
===============================================================================
