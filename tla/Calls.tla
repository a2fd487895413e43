--------------------------------- MODULE Calls ---------------------------------
(***************************************************************************)
(* Video calls (CallGateway) over the session map of GatewaySessions.  The *)
(* server keeps nothing of a call: each event names the other user and     *)
(* goes to the socket that stands for that user at that moment.  Only the  *)
(* ringing is sent after an await, to a socket chosen before it.           *)
(***************************************************************************)
EXTENDS GatewaySessions

CONSTANT CallIds

(* What is known of a call, by the two clients and on the handler's stack: *)
(* the socket that asked, the user called, the socket chosen to ring.      *)
VARIABLE call

callVars == <<vars, call>>

NoCall == [stage |-> "none", caller |-> None, callee |-> None, rung |-> None]

Stages == {"none", "looking", "unavailable", "failed", "ringing", "accepted",
           "unanswered", "ended"}

Live == {"looking", "ringing", "accepted"}

CallTypeOK ==
    /\ call \in [CallIds -> [stage: Stages, caller: Sockets \union {None},
                             callee: Users \union {None}, rung: Sockets \union {None}]]
    /\ \A c \in CallIds : call[c].stage \in Live =>
         /\ call[c].caller \in Sockets /\ call[c].rung \in Sockets
         /\ Owner[call[c].rung] = call[c].callee

CallInit == Init /\ call = [c \in CallIds |-> NoCall]

Moves(c, stage) == call' = [call EXCEPT ![c].stage = stage]

-------------------------------------------------------------------------------

(* Mutant: nobody asks whether there is a socket.                          *)
CallAnybody(u) == TRUE

Available(u) == sessions[u] # None

(* The callee's socket is taken and the two profiles are asked for; if     *)
(* there is none the caller is told so.                                    *)
VideoCalling(c, s, u) ==
    /\ call[c].stage = "none" /\ phase[s] = "open"
    /\ call' = [call EXCEPT ![c] =
         [stage |-> IF Available(u) THEN "looking" ELSE "unavailable",
          caller |-> s, callee |-> u, rung |-> sessions[u]]]
    /\ UNCHANGED vars

(* Both profiles came: the chosen socket rings, if it is still open, and   *)
(* the caller is answered 'calling'.                                       *)
Rings(c) ==
    /\ call[c].stage = "looking"
    /\ Moves(c, "ringing") /\ UNCHANGED vars

(* A lookup threw: an exception event to the caller.                       *)
LookupFails(c) ==
    /\ call[c].stage = "looking"
    /\ Moves(c, "failed") /\ UNCHANGED vars

(* The two sockets of a call, the user that each one's events name, and    *)
(* the other socket.                                                       *)
Party(c) == {s \in {call[c].caller, call[c].rung} \intersect Sockets : phase[s] = "open"}
Peer(c, s) == IF s = call[c].caller THEN call[c].callee ELSE Owner[call[c].caller]
PeerSocket(c, s) == IF s = call[c].caller THEN call[c].rung ELSE call[c].caller

(* Mutant: the sender's own id in place of the one in the payload.         *)
DestOfSender(c, s) == sessions[Owner[s]]

(* Where an acceptance, a rejection or a change of device goes.            *)
Dest(c, s) == sessions[Peer(c, s)]

(* The callee's client accepts; the caller hears it, or the callee is told *)
(* that nobody is there.                                                   *)
Accept(c, s) ==
    /\ call[c].stage = "ringing" /\ s \in Party(c) /\ s = call[c].rung
    /\ Moves(c, IF Dest(c, s) = None THEN "unanswered" ELSE "accepted")
    /\ UNCHANGED vars

(* A refusal or, by either party, the end                                  *)
Reject(c, s) ==
    /\ call[c].stage \in {"ringing", "accepted"} /\ s \in Party(c)
    /\ Moves(c, "ended")
    /\ UNCHANGED vars

CallNext ==
    \/ Next /\ UNCHANGED call
    \/ \E c \in CallIds, s \in Sockets, u \in Users : VideoCalling(c, s, u)
    \/ \E c \in CallIds : Rings(c) \/ LookupFails(c)
    \/ \E c \in CallIds, s \in Sockets : Accept(c, s) \/ Reject(c, s)

CallSpec == CallInit /\ [][CallNext]_callVars

-------------------------------------------------------------------------------
(* Properties *)

(* No open socket; or the user once had two, and the close of the older    *)
(* one took the entry of the newer (removeUserSocket).                     *)
Away(u) == OpenOf(u) = {} \/ u \in overlapped

(* While a call rings or goes on, what either party sends goes to an open  *)
(* socket of the other user, or nowhere: and nowhere only if that user has *)
(* no open socket, or once had two at once.  It goes to the very socket    *)
(* that takes part in the call, if that one is still open and its user     *)
(* never had two.                                                          *)
RelaysReachTheParty ==
    \A c \in CallIds : call[c].stage \in {"ringing", "accepted"} =>
        \A s \in Party(c) :
            LET dest == Dest(c, s)  peer == Peer(c, s)  socket == PeerSocket(c, s) IN
            /\ dest \in OpenOf(peer) \/ (dest = None /\ Away(peer))
            /\ phase[socket] = "open" /\ peer \notin overlapped => dest = socket

(* What the server answers was so when it read the session map.            *)
(* 'user-unavailable': that user is away.  'calling': the socket to ring   *)
(* was an open one of the callee when the call was asked for; it rings, or *)
(* it has closed during the lookups, and then the ring is lost although    *)
(* the caller is answered 'calling', and that socket does not stand for    *)
(* the callee any more.                                                    *)
AnswersTrueWhenRead ==
    [][\A c \in CallIds :
        LET was == call[c].stage  rung == call[c].rung  callee == call[c].callee IN
        /\ was = "none" /\ (call')[c].stage = "unavailable" => Away((call')[c].callee)
        /\ was = "none" /\ (call')[c].stage = "looking" =>
             (call')[c].rung \in OpenOf((call')[c].callee)
        /\ was = "ringing" /\ (call')[c].stage = "unanswered" => Away(Owner[call[c].caller])
        /\ was = "looking" /\ (call')[c].stage = "ringing" =>
             rung \in OpenOf(callee) \/ (phase[rung] = "closed" /\ sessions[callee] # rung)
      ]_callVars
===============================================================================
