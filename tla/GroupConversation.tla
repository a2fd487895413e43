--------------------------- MODULE GroupConversation ---------------------------
(***************************************************************************)
(* One group conversation: the document in MongoDB, its two read-through   *)
(* cache entries in Redis, the cached permission of its modifiers, and the *)
(* handlers that change its members or post messages to it.                *)
(*                                                                         *)
(* Every database and every Redis command is a step of its own: between    *)
(* two of them other handlers run.  A cache entry may expire at any time,  *)
(* and a message a year after it was stored (the TTL index on createdAt).  *)
(***************************************************************************)
EXTENDS Integers, FiniteSets

CONSTANTS
    Users,       \* account ids that calls may name
    Registered,  \* the ids the user collection knows
    Founders,    \* the members at creation
    Creator,     \* the founder who is Admin
    Invites,     \* the lists of ids an addMembers call may carry
    MsgIds,      \* ObjectIds of messages, never used twice
    Handlers,
    MaxCalls,    \* bound: calls that change members, in one behaviour
    MaxFaults,   \* bound: database errors and crashes
    None

ASSUME UsersAssumption ==
    /\ Registered \subseteq Users /\ Founders \subseteq Registered
    /\ Creator \in Founders /\ Invites \subseteq SUBSET Users
ASSUME NoneAssumption == None \notin Users /\ None \notin MsgIds
ASSUME BoundsAssumption == MaxCalls \in Nat /\ MaxFaults \in Nat

VARIABLES
    conv,       \* the conversation document: members, roles, lastMessage
    stored,     \* the messages that have been inserted
    expired,    \* those of them that the TTL index has deleted since
    cache,      \* Redis: CONVERSATION and MESSAGE_CONVERSATION, or Miss
    confirmed,  \* Redis: users with a cached 'Confirm' for this conversation
    task,       \* handler -> what it is doing and what it remembers
    sent,       \* message -> whom MessageGateway was told to notify, or None
    ever,       \* history: the member sets the document has had
    author,     \* history: message -> the user who posted it
    lost,       \* history: messages whose save was interrupted
    overlap,    \* history: two calls have been under way at once
    calls, faults

vars == <<conv, stored, expired, cache, confirmed, task, sent, ever, author, lost,
          overlap, calls, faults>>

-------------------------------------------------------------------------------
(* Values *)

Keys == {"conversation", "message"}      \* the two CacheModel keys
Roles == {"Admin", "Member"}
MsgId == MsgIds \union {None}

(* What a handler or an entry holds of the document.  lastMessage is None  *)
(* while the document has no such field, and "null" once populate has not  *)
(* found the message it names.  Cached roles are left out: none is read.   *)
Value == [members: SUBSET Users, last: MsgId \union {"null"}]
Miss == [members |-> {}, last |-> "miss"]

Changes == {"add", "remove", "leave"}

Task == [op: Changes \union {"post", "none"},
         pc: {"idle", "confirm", "check", "approve", "get", "read", "populate",
              "fill", "write", "refresh", "merge", "save", "abort", "insert"},
         user: Users \union {None},
         targets: SUBSET Users,
         key: Keys,                      \* the entry being read or refreshed
         snap: Value,                    \* the conversation the handler holds
         old: Value,                     \* what cache.update found to merge with
         msg: MsgId,
         todo: SUBSET {"database", "get", "set"}] \* the hook's Promise.all

Idle == [op |-> "none", pc |-> "idle", user |-> None, targets |-> {},
         key |-> "conversation", snap |-> [members |-> {}, last |-> None],
         old |-> [members |-> {}, last |-> None], msg |-> None, todo |-> {}]

TypeOK ==
    /\ conv \in [members: SUBSET Users, roles: [Users -> Roles \union {"none"}],
                 last: MsgId]
    /\ stored \subseteq MsgIds /\ expired \subseteq stored
    /\ cache \in [Keys -> Value \union {Miss}]
    /\ confirmed \subseteq Users
    /\ task \in [Handlers -> Task]
    /\ sent \in [MsgIds -> (SUBSET Users) \union {{None}}]
    /\ ever \subseteq SUBSET Users
    /\ author \in [MsgIds -> Users \union {None}]
    /\ lost \subseteq MsgIds /\ overlap \in BOOLEAN
    /\ calls \in 0..MaxCalls /\ faults \in 0..MaxFaults

(* createRoles: the creator is Admin, everyone else Member                 *)
Init ==
    /\ conv = [members |-> Founders,
               roles |-> [u \in Users |-> IF u = Creator THEN "Admin"
                                          ELSE IF u \in Founders THEN "Member"
                                          ELSE "none"],
               last |-> None]
    /\ stored = {} /\ expired = {} /\ cache = [k \in Keys |-> Miss] /\ confirmed = {}
    /\ task = [h \in Handlers |-> Idle]
    /\ sent = [m \in MsgIds |-> {None}]
    /\ ever = {Founders} /\ author = [m \in MsgIds |-> None] /\ lost = {}
    /\ overlap = FALSE /\ calls = 0 /\ faults = 0

-------------------------------------------------------------------------------
(* Helpers *)

Become(h, t) == task' = [task EXCEPT ![h] = t]
Leave(h) == Become(h, Idle)
Goto(h, pc) == Become(h, [task[h] EXCEPT !.pc = pc])

Store == <<conv, stored, expired, ever, author, lost>>
Redis == <<cache, confirmed>>
Rest == <<sent, overlap, calls, faults>>

(* A call begins, while others may be under way.                           *)
Enter(h, t) ==
    /\ task[h].pc = "idle" /\ Become(h, t)
    /\ overlap' = (overlap \/ \E g \in Handlers : task[g].pc # "idle")

(* The message collection                                                  *)
Collection == stored \ expired

Populated(last) == IF last \in Collection \union {None} THEN last ELSE "null"

-------------------------------------------------------------------------------
(* addMembers, removeMembers, leave: CheckPermissionModifyConversation *)

BeginChange(h, u, op, targets) ==
    /\ calls < MaxCalls /\ calls' = calls + 1
    /\ Enter(h, [Idle EXCEPT !.op = op, !.pc = "confirm", !.user = u,
                             !.targets = targets])
    /\ UNCHANGED <<Store, Redis, sent, faults>>

Begin(h) ==
    \E u \in Users :
        \/ \E targets \in Invites : BeginChange(h, u, "add", targets)
        \/ \E v \in Users : BeginChange(h, u, "remove", {v})
        \/ BeginChange(h, u, "leave", {u})

(* cache.get(validateKey): 'Confirm' lets the call through, whichever of   *)
(* the three it is                                                         *)
ReadConfirm(h) ==
    /\ task[h].pc = "confirm"
    /\ IF task[h].user \in confirmed THEN Goto(h, "get") ELSE Goto(h, "check")
    /\ UNCHANGED <<Store, Redis, Rest>>

Allowed(op) == IF op = "leave" THEN {"Member"} ELSE {"Admin"}

Permits(t) == conv.roles[t.user] \in Allowed(t.op)

CheckPermission(h) ==
    /\ task[h].pc = "check"
    /\ IF Permits(task[h]) THEN Goto(h, "approve") ELSE Leave(h)
    /\ UNCHANGED <<Store, Redis, Rest>>

SetConfirm(h) ==
    /\ task[h].pc = "approve"
    /\ confirmed' = confirmed \union {task[h].user}
    /\ Goto(h, "get")
    /\ UNCHANGED <<Store, cache, Rest>>

-------------------------------------------------------------------------------
(* ModelCache: get, and on a miss read, populate, set.  What the caller    *)
(* does with the value is validateMembers, or validateMessage.             *)

NeedsKey(op) == IF op = "post" THEN "message" ELSE "conversation"


MayPost(t, snap) == t.user \in snap.members

Valid(t, snap) ==
    CASE t.op = "post" -> MayPost(t, snap)
      [] t.op = "add"  -> /\ ~(t.targets \subseteq snap.members)
                          /\ snap.members \union t.targets \subseteq Registered
      [] t.op \in {"remove", "leave"} ->
                          /\ t.targets \subseteq snap.members
                          /\ snap.members \subseteq Registered

(* A message's ObjectId is drawn when the model is built, before the hook. *)
Fresh(m) == author[m] = None

Continue(h, snap) ==
    LET t == [task[h] EXCEPT !.snap = snap] IN
    \/ ~Valid(t, snap) /\ Leave(h) /\ UNCHANGED author
    \/ Valid(t, snap) /\ t.op # "post" /\ UNCHANGED author
         /\ Become(h, [t EXCEPT !.pc = "write"])
    \/ Valid(t, snap) /\ t.op = "post" /\ \E m \in MsgIds :
         /\ Fresh(m) /\ author' = [author EXCEPT ![m] = t.user]
         /\ Become(h, [t EXCEPT !.pc = "save", !.msg = m,
                                !.todo = {"database", "get"}])

CacheHit(h) ==
    LET hit == cache[NeedsKey(task[h].op)] IN
    /\ task[h].pc = "get" /\ hit # Miss
    /\ Continue(h, hit)
    /\ UNCHANGED <<conv, stored, expired, ever, lost, Redis, Rest>>

CacheMiss(h) ==
    /\ task[h].pc = "get" /\ cache[NeedsKey(task[h].op)] = Miss
    /\ Goto(h, "read")
    /\ UNCHANGED <<Store, Redis, Rest>>

(* findById.  The message middleware also populates lastMessage.           *)
ReadConversation(h) ==
    LET t == task[h] IN
    /\ t.pc = "read"
    /\ Become(h, [t EXCEPT !.snap = [members |-> conv.members, last |-> conv.last],
                           !.pc = IF t.op = "post" THEN "populate" ELSE "fill"])
    /\ UNCHANGED <<Store, Redis, Rest>>

FillCache(h) ==
    LET t == task[h] IN
    /\ t.pc = "fill"
    /\ cache' = [cache EXCEPT ![NeedsKey(t.op)] = t.snap]
    /\ Continue(h, t.snap)
    /\ UNCHANGED <<conv, stored, expired, ever, lost, confirmed, Rest>>

-------------------------------------------------------------------------------
(* updateParticipant and its two ModelUpdate decorators *)

RolesAfter(t) ==
    [u \in Users |-> IF u \notin t.targets THEN conv.roles[u]
                     ELSE IF t.op = "add" THEN "Member" ELSE "none"]

MembersAfter(t) ==
    IF t.op = "add" THEN conv.members \union t.targets ELSE conv.members \ t.targets

WriteMembers(h) ==
    LET t == task[h] IN
    /\ t.pc = "write"
    /\ conv' = [conv EXCEPT !.members = MembersAfter(t), !.roles = RolesAfter(t)]
    /\ ever' = ever \union {conv'.members}
    /\ Become(h, [t EXCEPT !.pc = "populate",
                           !.snap = [members |-> conv'.members, last |-> conv.last]])
    /\ UNCHANGED <<stored, expired, author, lost, Redis, Rest>>

Populate(h) ==
    LET t == task[h] IN
    /\ t.pc = "populate"
    /\ Become(h, [t EXCEPT !.snap.last = Populated(@), !.key = "conversation",
                           !.pc = IF t.op = "post" THEN "fill" ELSE "refresh"])
    /\ UNCHANGED <<Store, Redis, Rest>>

(* Mutant: the outer ModelUpdate, of MESSAGE_CONVERSATION, is missing.     *)
NextKeyNone(h) == Leave(h)

(* The inner decorator refreshes CONVERSATION, then the outer one          *)
(* MESSAGE_CONVERSATION.                                                   *)
NextKey(h) ==
    IF task[h].key = "conversation"
    THEN Become(h, [task[h] EXCEPT !.pc = "refresh", !.key = "message"])
    ELSE Leave(h)

(* Mutant: `if (!data) return false' is missing.                           *)
RefreshFindsAnything(h) ==
    LET t == task[h] IN
    /\ t.pc = "refresh"
    /\ Become(h, [t EXCEPT !.pc = "merge", !.old = cache[t.key]])
    /\ UNCHANGED <<Store, Redis, Rest>>

(* CacheService.update reads the entry, and does nothing if there is none  *)
RefreshFinds(h) ==
    LET t == task[h] IN
    /\ t.pc = "refresh" /\ cache[t.key] # Miss
    /\ Become(h, [t EXCEPT !.pc = "merge", !.old = cache[t.key]])
    /\ UNCHANGED <<Store, Redis, Rest>>

RefreshMisses(h) ==
    /\ task[h].pc = "refresh" /\ cache[task[h].key] = Miss
    /\ NextKey(h)
    /\ UNCHANGED <<Store, Redis, Rest>>

(* Mutant: mergeWith without the customizer, which merges arrays.          *)
MergeArrays(old, new) == [new EXCEPT !.members = @ \union old.members]

(* mergeWith: an array is replaced as a whole; a field the new value does  *)
(* not have keeps its old content.                                         *)
Merge(old, new) == IF new.last = None THEN [new EXCEPT !.last = old.last] ELSE new

MergeIntoCache(h) ==
    LET t == task[h] IN
    /\ t.pc = "merge"
    /\ cache' = [cache EXCEPT ![t.key] = Merge(t.old, t.snap)]
    /\ NextKey(h)
    /\ UNCHANGED <<Store, confirmed, Rest>>

-------------------------------------------------------------------------------
(* createMessage: the pre('save') hook, then the insert, then the event *)

BeginPost(h, u) ==
    /\ Cardinality({m \in MsgIds : Fresh(m)})
         > Cardinality({g \in Handlers : task[g].op = "post" /\ task[g].msg = None})
    /\ Enter(h, [Idle EXCEPT !.op = "post", !.pc = "get", !.user = u])
    /\ UNCHANGED <<Store, Redis, sent, calls, faults>>

HookWritesLast(h) ==
    LET t == task[h] IN
    /\ t.pc \in {"save", "abort"} /\ "database" \in t.todo
    /\ conv' = [conv EXCEPT !.last = t.msg]
    /\ Become(h, [t EXCEPT !.todo = @ \ {"database"}])
    /\ UNCHANGED <<stored, expired, ever, author, lost, Redis, Rest>>

(* cache.update(key, {lastMessage}): get, then set what was got with the   *)
(* new lastMessage.  Each of the two updates runs on when the other fails. *)
HookReadsCache(h) ==
    LET t == task[h] IN
    /\ t.pc \in {"save", "abort"} /\ "get" \in t.todo
    /\ Become(h, IF cache["message"] = Miss
                 THEN [t EXCEPT !.todo = @ \ {"get"}]
                 ELSE [t EXCEPT !.todo = (@ \ {"get"}) \union {"set"},
                                !.old = cache["message"]])
    /\ UNCHANGED <<Store, Redis, Rest>>

WithLast(t) == [t.old EXCEPT !.last = t.msg]

HookWritesCache(h) ==
    LET t == task[h] IN
    /\ t.pc \in {"save", "abort"} /\ "set" \in t.todo
    /\ cache' = [cache EXCEPT !["message"] = WithLast(t)]
    /\ Become(h, [t EXCEPT !.todo = @ \ {"set"}])
    /\ UNCHANGED <<Store, confirmed, Rest>>

(* Mutants: a failed hook never answers; a failed hook does not keep the   *)
(* message from being inserted; the insert is forgotten.                   *)
HookEndsIfSaved(h) ==
    /\ task[h].pc = "save" /\ task[h].todo = {}
    /\ Goto(h, "insert")
    /\ UNCHANGED <<Store, Redis, Rest>>

HookEndsInserting(h) ==
    /\ task[h].pc \in {"save", "abort"} /\ task[h].todo = {}
    /\ Goto(h, "insert")
    /\ UNCHANGED <<Store, Redis, Rest>>

HookEndsAll(h) ==
    /\ task[h].pc \in {"save", "abort"} /\ task[h].todo = {}
    /\ Leave(h)
    /\ UNCHANGED <<Store, Redis, Rest>>

HookEnds(h) ==
    /\ task[h].pc \in {"save", "abort"} /\ task[h].todo = {}
    /\ IF task[h].pc = "save" THEN Goto(h, "insert") ELSE Leave(h)
    /\ UNCHANGED <<Store, Redis, Rest>>

(* getMembersInConversation, of the middleware's snapshot, less ignoreIds  *)
Recipients(t) == (t.snap.members \union {t.user}) \ {t.user}

(* The insert, then EmitModifiedMessage tells MessagingGateway.            *)
InsertMessage(h) ==
    LET t == task[h] IN
    /\ t.pc = "insert"
    /\ stored' = stored \union {t.msg}
    /\ sent' = [sent EXCEPT ![t.msg] = Recipients(t)]
    /\ Leave(h)
    /\ UNCHANGED <<conv, expired, ever, author, lost, Redis, overlap, calls, faults>>

-------------------------------------------------------------------------------
(* The environment *)

Fault == faults < MaxFaults /\ faults' = faults + 1

(* A command that fails ends its call.  A write that is reported as failed *)
(* has been applied or has not (retryWrites is off, wtimeoutMS is set; a   *)
(* Redis connection may break before its answer).                          *)
ReadErrs(h) ==
    /\ task[h].pc \in {"confirm", "check", "get", "read", "populate", "refresh"}
    /\ Fault /\ Leave(h)
    /\ UNCHANGED <<Store, Redis, sent, overlap, calls>>

CacheErrs(h) ==
    LET t == task[h] IN
    /\ t.pc \in {"approve", "fill", "merge"} /\ Fault /\ Leave(h)
    /\ \/ UNCHANGED Redis
       \/ /\ t.pc = "approve" /\ confirmed' = confirmed \union {t.user}
          /\ cache' = cache
       \/ /\ t.pc = "fill" /\ cache' = [cache EXCEPT ![NeedsKey(t.op)] = t.snap]
          /\ confirmed' = confirmed
       \/ /\ t.pc = "merge" /\ cache' = [cache EXCEPT ![t.key] = Merge(t.old, t.snap)]
          /\ confirmed' = confirmed
    /\ UNCHANGED <<Store, sent, overlap, calls>>

WriteErrs(h) ==
    LET t == task[h] IN
    /\ t.pc = "write" /\ Fault /\ Leave(h)
    /\ \/ conv' = conv
       \/ conv' = [conv EXCEPT !.members = MembersAfter(t), !.roles = RolesAfter(t)]
    /\ ever' = ever \union {conv'.members}
    /\ UNCHANGED <<stored, expired, author, lost, Redis, sent, overlap, calls>>

(* The first failure of either update aborts the save; what is left of     *)
(* them goes on, and may fail as well.                                     *)
HookErrs(h) ==
    LET t == task[h] IN
    /\ t.pc \in {"save", "abort"} /\ Fault
    /\ \E part \in t.todo :
        /\ Become(h, [t EXCEPT !.pc = "abort", !.todo = @ \ {part}])
        /\ \/ conv' = conv
           \/ part = "database" /\ conv' = [conv EXCEPT !.last = t.msg]
        /\ \/ cache' = cache
           \/ part = "set" /\ cache' = [cache EXCEPT !["message"] = WithLast(t)]
    /\ lost' = lost \union {t.msg}
    /\ UNCHANGED <<stored, expired, ever, author, confirmed, sent, overlap, calls>>

InsertErrs(h) ==
    LET t == task[h] IN
    /\ t.pc = "insert" /\ Fault /\ Leave(h)
    /\ lost' = lost \union {t.msg}
    /\ stored' = stored \/ stored' = stored \union {t.msg}
    /\ UNCHANGED <<conv, expired, ever, author, Redis, sent, overlap, calls>>

Crash ==
    /\ Fault
    /\ \E h \in Handlers : task[h] # Idle
    /\ task' = [h \in Handlers |-> Idle]
    /\ lost' = lost \union ({task[h].msg : h \in Handlers} \ {None})
    /\ UNCHANGED <<conv, stored, expired, ever, author, Redis, sent, overlap, calls>>

(* Redis drops an entry: its TTL has passed.                               *)
ExpireEntry(k) ==
    /\ cache[k] # Miss /\ cache' = [cache EXCEPT ![k] = Miss]
    /\ UNCHANGED <<Store, confirmed, task, Rest>>

ExpireConfirm(u) ==
    /\ u \in confirmed /\ confirmed' = confirmed \ {u}
    /\ UNCHANGED <<Store, cache, task, Rest>>

(* MongoDB deletes a message whose year has passed.                        *)
ExpireMessage(m) ==
    /\ m \in Collection /\ expired' = expired \union {m}
    /\ UNCHANGED <<conv, stored, ever, author, lost, Redis, task, Rest>>

-------------------------------------------------------------------------------

Step(h) ==
    \/ ReadConfirm(h) \/ CheckPermission(h) \/ SetConfirm(h)
    \/ CacheHit(h) \/ CacheMiss(h) \/ ReadConversation(h) \/ FillCache(h)
    \/ WriteMembers(h) \/ Populate(h)
    \/ RefreshFinds(h) \/ RefreshMisses(h) \/ MergeIntoCache(h)
    \/ HookWritesLast(h) \/ HookReadsCache(h) \/ HookWritesCache(h) \/ HookEnds(h)
    \/ InsertMessage(h)

Next ==
    \/ \E h \in Handlers : \/ Begin(h) \/ Step(h)
                           \/ ReadErrs(h) \/ CacheErrs(h)
                           \/ WriteErrs(h) \/ HookErrs(h) \/ InsertErrs(h)
                           \/ \E u \in Users : BeginPost(h, u)
    \/ \E k \in Keys : ExpireEntry(k)
    \/ \E u \in Users : ExpireConfirm(u)
    \/ \E m \in MsgIds : ExpireMessage(m)
    \/ Crash

Spec == Init /\ [][Next]_vars

(* Replies come and handlers are run.  Nothing obliges users to call,      *)
(* entries or messages to expire, or faults to happen.                     *)
FairSpec == Spec /\ \A h \in Handlers : WF_vars(Step(h))

-------------------------------------------------------------------------------
(* Properties *)

(* A member has a role and nobody else has one, whatever the order of      *)
(* additions, removals and leaves: the two halves of updateParticipant's   *)
(* one update never part.                                                  *)
RolesMatchMembers == \A u \in Users : conv.roles[u] # "none" <=> u \in conv.members

(* However late it was filled or merged, an entry never mixes two member   *)
(* lists: it shows members that the document itself had at some time.      *)
CachedWasReal ==
    \A k \in Keys : cache[k] # Miss => cache[k].members \in ever

(* A message goes to the members of one state of the conversation, of      *)
(* which its author was one, except the author: never to people who were   *)
(* not in the group together.                                              *)
SentToMembers ==
    \A m \in MsgIds : sent[m] # {None} =>
        \E S \in ever : author[m] \in S /\ sent[m] = S \ {author[m]}

(* lastMessage, written before the message and never taken back, names one *)
(* that has been stored, and may have expired since; one that a handler is *)
(* about to store; or one whose post failed.  It names no other, in the    *)
(* document and in either entry, whatever fails and in whatever order the  *)
(* halves of the hook end.                                                 *)
LastIsAccounted ==
    LET saving == {task[h].msg : h \in Handlers}
        Accounted(last) ==
            last \in Collection \union expired \union lost \union saving \union {None, "null"}
    IN  /\ Accounted(conv.last)
        /\ \A k \in Keys : cache[k] # Miss => Accounted(cache[k].last)

(* The group keeps its promise: every step of a handler is a step of       *)
(* GroupRecord, or none.  What a call writes was valid at some time; a     *)
(* message is kept once, after it led, and announced with its storing; one *)
(* whose hook failed is lost, though it may still come to lead.            *)
Drafted == {m \in MsgIds :
              \E h \in Handlers : task[h].msg = m /\ "database" \in task[h].todo}

Fate(m) ==
    CASE author[m] = None -> "none"
      [] author[m] # None /\ m \in lost ->
            IF m \in Drafted THEN "failing" ELSE "lost"
      [] author[m] # None /\ m \in stored \ lost ->
            IF m \in expired THEN "expired" ELSE "kept"
      [] author[m] # None /\ m \notin stored \union lost ->
            IF m \in Drafted THEN "drafted" ELSE "leading"

Posts == [m \in MsgIds |-> [by |-> author[m], fate |-> Fate(m)]]

Record == INSTANCE GroupRecord WITH
    members <- conv.members, role <- conv.roles, past <- ever, last <- conv.last,
    post <- Posts, kept <- Collection, told <- sent
ImplementsRecord == Record!Spec

(* As long as calls were made one at a time and nothing failed, every      *)
(* entry at rest has the document's members, and the entry that the        *)
(* message middleware uses has its last message, or null if that one has   *)
(* expired.  Once two calls have overlapped neither is promised.           *)
CoherentAtRest ==
    (faults = 0 /\ ~overlap /\ \A h \in Handlers : task[h].pc = "idle") =>
        /\ \A k \in Keys : cache[k] # Miss => cache[k].members = conv.members
        /\ cache["message"] # Miss =>
             cache["message"].last \in {conv.last, Populated(conv.last)}

(* A lastMessage that is not stored yet is stored in the end, or its save  *)
(* was interrupted.                                                        *)
LastSettles ==
    \A m \in MsgIds : conv.last = m ~> m \in stored \union lost

(* Every call is answered: no handler waits on an entry, a lock or another *)
(* handler.                                                                *)
EveryCallEnds ==
    \A h \in Handlers : task[h] # Idle ~> task[h] = Idle

(* "You don't have permission": who adds or removes members is Admin when  *)
(* the list is changed.  Nobody becomes Admin or ceases to be one while    *)
(* this is checked but by leaving or being removed.                        *)
OnlyAdminsModify ==
    \A h \in Handlers : (task[h].pc = "write" /\ task[h].op \in {"add", "remove"}) =>
        conv.roles[task[h].user] = "Admin"

===============================================================================
