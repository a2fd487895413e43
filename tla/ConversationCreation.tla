------------------------- MODULE ConversationCreation -------------------------
(***************************************************************************)
(* createConversation: the users are looked up, a conversation of exactly  *)
(* these members is looked for, one is created if there is none, a first   *)
(* message is posted and the members are told.  Each database command is a *)
(* step; other creators, and changes of the groups that exist, run between *)
(* them.                                                                   *)
(*                                                                         *)
(* participant.members has a unique index.  On an array it is an index of  *)
(* the elements: MongoDB refuses a document that shares a member with      *)
(* another one, and accepts a repeated element inside one document.        *)
(***************************************************************************)
EXTENDS Integers, FiniteSets, SequencesExt

CONSTANTS
    Users,       \* account ids that calls may name
    Registered,  \* the ids the user collection knows
    Handlers,
    Requests,    \* idParticipant of the calls, the author at the end
    MaxMade,     \* bound: conversations
    MaxChanges,  \* bound: changes of groups
    MaxFaults,   \* bound: failed commands and crashes
    None

ASSUME UsersAssumption == Registered \subseteq Users
ASSUME RequestsAssumption ==
    \A r \in Requests : r \in Seq(Users) /\ r # <<>> /\ Last(r) \in Registered
ASSUME NoneAssumption == None \notin Users /\ None \notin Nat
ASSUME BoundsAssumption ==
    MaxMade \in Nat /\ MaxChanges \in Nat /\ MaxFaults \in Nat

VARIABLES
    members,   \* the collection: conversation, numbered -> participant.members
    made,      \* conversations created
    task,      \* handler -> what it is doing
    told,      \* history: <<conversation, user>>: to whom it was announced
    founders,  \* conversation -> the ids it was created with, its creator last
    ever,      \* history: conversation -> all who have been members
    cut,       \* history: conversations whose creation an error interrupted
    changes, faults

vars == <<members, made, task, told, founders, ever, cut, changes, faults>>

-------------------------------------------------------------------------------

Ids == 1..MaxMade
Lists == Seq(Users)

Task == [pc: {"idle", "look", "create", "post", "emit"},
         asked: Lists,                 \* idParticipant, the author last
         conv: Ids \union {None},      \* the conversation found or created
         snap: SUBSET Users]           \* its members, as the answer has them

Idle == [pc |-> "idle", asked |-> <<>>, conv |-> None, snap |-> {}]

TypeOK ==
    /\ members \in [Ids -> Lists] /\ made \in 0..MaxMade
    /\ task \in [Handlers -> Task]
    /\ told \subseteq Ids \X Users
    /\ founders \in [Ids -> Lists]
    /\ ever \in [Ids -> SUBSET Users]
    /\ cut \subseteq Ids
    /\ changes \in 0..MaxChanges /\ faults \in 0..MaxFaults
    /\ \A h \in Handlers : task[h].pc \in {"post", "emit"} <=> task[h].conv \in 1..made

Init ==
    /\ members = [i \in Ids |-> <<>>] /\ made = 0
    /\ task = [h \in Handlers |-> Idle]
    /\ told = {} /\ founders = [i \in Ids |-> <<>>]
    /\ ever = [i \in Ids |-> {}] /\ cut = {}
    /\ changes = 0 /\ faults = 0

Become(h, t) == task' = [task EXCEPT ![h] = t]
Leave(h) == Become(h, Idle)
Goto(h, pc) == Become(h, [task[h] EXCEPT !.pc = pc])

Collection == <<members, made, founders, ever, changes>>
Rest == <<told, cut, faults>>

(* 'direct' is what one or two entries make, be they of one user.          *)
IsGroup(i) == Len(founders[i]) > 2

-------------------------------------------------------------------------------
(* The handler *)

(* 'Users not found' unless the user collection has every id               *)
Begin(h) ==
    /\ task[h].pc = "idle"
    /\ \E asked \in Requests :
        /\ ToSet(asked) \subseteq Registered
        /\ Become(h, [Idle EXCEPT !.pc = "look", !.asked = asked])
    /\ UNCHANGED <<Collection, Rest>>

(* Mutant: $size is forgotten.                                             *)
Containing(t) == {i \in 1..made : ToSet(t.asked) \subseteq ToSet(members[i])}

(* findOne: $all of the ids without repetition, $size with it              *)
Matching(t) == {i \in 1..made : /\ ToSet(t.asked) \subseteq ToSet(members[i])
                                /\ Len(members[i]) = Len(t.asked)}

LookForConversation(h) ==
    LET t == task[h] IN
    /\ t.pc = "look"
    /\ \/ \E i \in Matching(t) :
            Become(h, [t EXCEPT !.pc = "post", !.conv = i, !.snap = ToSet(members[i])])
       \/ Matching(t) = {} /\ Goto(h, "create")
    /\ UNCHANGED <<Collection, Rest>>

(* An empty array has one entry in the index, as if for an element.        *)
Accepts(list, others) ==
    \A i \in others : /\ ToSet(list) \intersect ToSet(members[i]) = {}
                      /\ list = <<>> => members[i] # <<>>

Insert(t) ==
    /\ made < MaxMade /\ made' = made + 1
    /\ members' = [members EXCEPT ![made + 1] = t.asked]
    /\ founders' = [founders EXCEPT ![made + 1] = t.asked]
    /\ ever' = [ever EXCEPT ![made + 1] = ToSet(t.asked)]
    /\ UNCHANGED changes

(* The answer's members are the users looked up at the beginning.          *)
Create(h) ==
    LET t == task[h] IN
    /\ t.pc = "create"
    /\ Accepts(t.asked, 1..made)
    /\ Insert(t)
    /\ Become(h, [t EXCEPT !.pc = "post", !.conv = made + 1, !.snap = ToSet(t.asked)])
    /\ UNCHANGED Rest

(* Mutant: the error is swallowed, and the call goes on.                   *)
GoesOn(h) == Goto(h, "post")

Refused(h) == Leave(h)

(* E11000: the call fails, and does not look again.                        *)
DuplicateKey(h) ==
    /\ task[h].pc = "create"
    /\ ~Accepts(task[h].asked, 1..made)
    /\ Refused(h)
    /\ UNCHANGED <<Collection, Rest>>

(* Mutant: without a first message there is nothing to tell.               *)
TellsMessagesOnly(message) == IF message THEN "emit" ELSE "idle"

(* newMessage returns at once if the request has none.                     *)
AfterPost(message) == "emit"

Post(h) ==
    /\ task[h].pc = "post"
    /\ \E message \in BOOLEAN : Goto(h, AfterPost(message))
    /\ UNCHANGED <<Collection, Rest>>

(* EVENT_CONVERSATION_SENDING, addressed to the members of the answer but  *)
(* the author.  emitSocket passes over those who have no socket.           *)
Emit(h) ==
    LET t == task[h] IN
    /\ t.pc = "emit"
    /\ told' = told \union {<<t.conv, u>> : u \in t.snap \ {Last(t.asked)}}
    /\ Leave(h)
    /\ UNCHANGED <<Collection, cut, faults>>

-------------------------------------------------------------------------------
(* Others *)

Times(v, list) == Cardinality({k \in DOMAIN list : list[k] = v})

(* $pull takes every occurrence of u away.  The others stay as often as    *)
(* they were; nothing depends on their order, so any will do.              *)
Without(list, u) ==
    LET left == ToSet(list) \ {u} IN
    {rest \in SeqOf(left, Len(list)) : \A v \in left : Times(v, rest) = Times(v, list)}

(* removeMoreMembers and leave, of a group.                                *)
MemberGoes(i, u) ==
    /\ changes < MaxChanges /\ changes' = changes + 1
    /\ i <= made /\ IsGroup(i) /\ u \in ToSet(members[i])
    /\ \E list \in Without(members[i], u) :
        /\ Accepts(list, 1..made \ {i})
        /\ members' = [members EXCEPT ![i] = list]
    /\ UNCHANGED <<made, founders, ever, task, Rest>>

(* addMoreMembers: $addToSet, under the same index                         *)
MemberComes(i, u) ==
    /\ changes < MaxChanges /\ changes' = changes + 1
    /\ i <= made /\ IsGroup(i) /\ u \in Registered \ ToSet(members[i])
    /\ Accepts(<<u>>, 1..made \ {i})
    /\ members' = [members EXCEPT ![i] = Append(@, u)]
    /\ ever' = [ever EXCEPT ![i] = @ \union {u}]
    /\ UNCHANGED <<made, founders, task, Rest>>

(* A command errs or the process stops: a create may have been applied.    *)
Fault(cuts) == faults < MaxFaults /\ faults' = faults + 1 /\ cut' = cut \union cuts

Errs(h) ==
    LET t == task[h] IN
    /\ t.pc \in {"look", "create", "post"}
    /\ \/ Fault({t.conv} \ {None}) /\ UNCHANGED Collection
       \/ /\ t.pc = "create" /\ Accepts(t.asked, 1..made)
          /\ Insert(t) /\ Fault({made + 1})
    /\ Leave(h)
    /\ UNCHANGED told

Crash ==
    /\ \E h \in Handlers : task[h].pc # "idle"
    /\ Fault({task[h].conv : h \in Handlers} \ {None})
    /\ task' = [h \in Handlers |-> Idle]
    /\ UNCHANGED <<Collection, told>>

-------------------------------------------------------------------------------

Step(h) == \/ LookForConversation(h) \/ Create(h) \/ DuplicateKey(h)
           \/ Post(h) \/ Emit(h)

Next ==
    \/ \E h \in Handlers : Begin(h) \/ Step(h) \/ Errs(h)
    \/ \E i \in Ids, u \in Users : MemberGoes(i, u) \/ MemberComes(i, u)
    \/ Crash

Spec == Init /\ [][Next]_vars

-------------------------------------------------------------------------------
(* Properties *)

(* Whom a conversation was announced to has been a member of it, and       *)
(* unless an error interrupted its creation, or the creation is still      *)
(* under way, it was announced to all founders but the creator, though     *)
(* others create the same one and groups change meanwhile.  And whoever    *)
(* asked for some members, naming none twice, is answered with a           *)
(* conversation that had just those.                                       *)
FoundersAreTold ==
    /\ \A x \in told : x[2] \in ever[x[1]]
    /\ \A i \in 1..made \ cut :
        \/ \E h \in Handlers : task[h].conv = i
        \/ \A u \in ToSet(founders[i]) \ {Last(founders[i])} : <<i, u>> \in told
    /\ \A h \in Handlers :
        task[h].conv # None /\ IsInjective(task[h].asked) => task[h].snap = ToSet(task[h].asked)
===============================================================================
