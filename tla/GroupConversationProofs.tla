------------------------ MODULE GroupConversationProofs ------------------------
(***************************************************************************)
(* Theorems about GroupConversation for every set of users, messages and   *)
(* handlers, every list of invites and every number of calls and faults.   *)
(***************************************************************************)
EXTENDS GroupConversation, TLAPS

-------------------------------------------------------------------------------
(* The inductive invariant *)

Posting == {"save", "abort", "insert"}

(* What a handler may rely on at each of its awaits: ev, au and lo are the *)
(* histories ever, author and lost.                                        *)
TaskInv(t, ev, au, lo) ==
    /\ t.pc # "idle" => t.user \in Users
    /\ t.pc \in Posting \union {"write", "populate", "refresh", "merge", "fill"} =>
          t.snap.members \in ev
    /\ "set" \in t.todo => t.old.members \in ev
    /\ t.pc \in {"approve", "get", "read", "fill", "write"} /\ t.op # "post" =>
          t.user \in UNION ev
    /\ t.pc = "write" => t.op # "post"
    /\ t.pc \in {"confirm", "check", "approve"} => t.op # "post"
    /\ t.pc \notin Posting => t.msg = None
    /\ t.pc \in Posting => t.msg \in MsgIds
    /\ t.pc = "abort" => t.msg \in lo
    /\ t.pc \in {"save", "insert"} =>
          au[t.msg] = t.user /\ t.user \in t.snap.members

TasksInv == \A h \in Handlers : TaskInv(task[h], ever, author, lost)

(* What a lastMessage may be.                                              *)
Known == stored \union lost \union {task[h].msg : h \in Handlers} \union {None, "null"}

HeldIsKnown ==
    \A h \in Handlers : task[h].snap.last \in Known /\ task[h].old.last \in Known

EntriesAreKnown ==
    /\ conv.last \in Known
    /\ \A k \in Keys : cache[k] # Miss => cache[k].last \in Known

MembersOnRecord == conv.members \in ever /\ confirmed \subseteq UNION ever

IInv ==
    /\ TypeOK
    /\ TasksInv
    /\ HeldIsKnown
    /\ EntriesAreKnown
    /\ MembersOnRecord
    /\ RolesMatchMembers
    /\ CachedWasReal
    /\ SentToMembers

-------------------------------------------------------------------------------
(* What every step keeps *)

Grows ==
    /\ ever \subseteq ever' /\ stored \subseteq stored' /\ lost \subseteq lost'
    /\ \A m \in MsgIds : author[m] # None => author'[m] = author[m]

(* The types of everything but the tasks.                                  *)
DataOK ==
    /\ conv \in [members: SUBSET Users, roles: [Users -> Roles \union {"none"}],
                 last: MsgId]
    /\ stored \subseteq MsgIds /\ expired \subseteq stored
    /\ cache \in [Keys -> Value \union {Miss}]
    /\ confirmed \subseteq Users
    /\ sent \in [MsgIds -> (SUBSET Users) \union {{None}}]
    /\ ever \subseteq SUBSET Users
    /\ author \in [MsgIds -> Users \union {None}]
    /\ lost \subseteq MsgIds /\ overlap \in BOOLEAN
    /\ calls \in 0..MaxCalls /\ faults \in 0..MaxFaults

(* What a handler relies on survives the steps of the others.              *)
LEMMA TaskInvKeeps ==
  ASSUME NEW t \in Task, TaskInv(t, ever, author, lost), Grows
  PROVE  TaskInv(t, ever', author', lost')
<1>1. UNION ever \subseteq UNION ever'
  BY DEF Grows
<1>2. t.pc \in {"save", "insert"} => author'[t.msg] = author[t.msg]
  <2> SUFFICES ASSUME t.pc \in {"save", "insert"} PROVE author'[t.msg] = author[t.msg]
    OBVIOUS
  <2>1. t.msg \in MsgIds /\ author[t.msg] = t.user /\ t.user \in Users
    BY DEF TaskInv, Posting
  <2> QED BY <2>1, NoneAssumption DEF Grows
<1> QED BY <1>1, <1>2 DEF TaskInv, Grows

(* No lastMessage that could be accounted for is lost from sight when one  *)
(* handler goes from task[h] to T.                                         *)
LEMMA KnownKeeps ==
  ASSUME NEW h \in Handlers, NEW T \in Task, TypeOK, Grows, Become(h, T),
         task[h].msg \in stored' \union lost' \union {T.msg, None}
  PROVE  Known \subseteq Known' /\ T.msg \in Known'
<1>1. task'[h] = T /\ \A g \in Handlers \ {h} : task'[g] = task[g]
  BY DEF Become, TypeOK
<1>2. T.msg \in Known'
  BY <1>1 DEF Known
<1>3. \A g \in Handlers : task[g].msg \in Known'
  BY <1>1, <1>2 DEF Known
<1> QED BY <1>2, <1>3 DEF Known, Grows

LEMMA HandlerStep ==
  ASSUME IInv, NEW h \in Handlers, NEW T \in Task, Become(h, T), Grows, DataOK',
         TaskInv(T, ever', author', lost'),
         task[h].msg \in stored' \union lost' \union {T.msg, None},
         T.snap.last \in Known', T.old.last \in Known',
         EntriesAreKnown', MembersOnRecord', RolesMatchMembers', CachedWasReal',
         SentToMembers'
  PROVE  IInv'
<1>1. /\ task' \in [Handlers -> Task] /\ task'[h] = T
      /\ \A g \in Handlers \ {h} : task'[g] = task[g]
  BY DEF Become, IInv, TypeOK
<1>2. TypeOK'
  BY <1>1 DEF TypeOK, DataOK
<1>3. TasksInv'
  <2> SUFFICES ASSUME NEW g \in Handlers PROVE TaskInv(task'[g], ever', author', lost')
    BY DEF TasksInv
  <2>1. CASE g = h
    BY <2>1, <1>1
  <2>2. CASE g # h
    <3>1. task[g] \in Task /\ TaskInv(task[g], ever, author, lost)
      BY DEF IInv, TypeOK, TasksInv
    <3> QED BY <3>1, <2>2, <1>1, TaskInvKeeps
  <2> QED BY <2>1, <2>2
<1>4. HeldIsKnown'
  <2>1. Known \subseteq Known'
    BY KnownKeeps DEF IInv
  <2> SUFFICES ASSUME NEW g \in Handlers
               PROVE  task'[g].snap.last \in Known' /\ task'[g].old.last \in Known'
    BY DEF HeldIsKnown
  <2> QED BY <2>1, <1>1 DEF IInv, HeldIsKnown
<1> QED BY <1>2, <1>3, <1>4 DEF IInv

LEMMA SentKeeps ==
  ASSUME TypeOK, SentToMembers, Grows, UNCHANGED sent PROVE SentToMembers'
<1> SUFFICES ASSUME NEW m \in MsgIds, sent[m] # {None}
             PROVE  \E S \in ever' : author'[m] \in S /\ sent[m] = S \ {author'[m]}
  BY DEF SentToMembers
<1>1. PICK S \in ever : author[m] \in S /\ sent[m] = S \ {author[m]}
  BY DEF SentToMembers
<1>2. author[m] # None
  BY <1>1, NoneAssumption DEF TypeOK
<1> QED BY <1>1, <1>2 DEF Grows

(* The common case: nothing but the task of h, and a count, changes.       *)
LEMMA QuietStep ==
  ASSUME IInv, NEW h \in Handlers, NEW T \in Task, Become(h, T),
         UNCHANGED <<conv, stored, expired, cache, sent, ever, author>>,
         lost' \in SUBSET MsgIds, lost \subseteq lost',
         confirmed' \subseteq Users, confirmed' \subseteq UNION ever,
         overlap' \in BOOLEAN, calls' \in 0..MaxCalls, faults' \in 0..MaxFaults,
         TaskInv(T, ever, author, lost'),
         task[h].msg \in lost' \union {T.msg, None},
         T.snap.last \in Known \union {T.msg}, T.old.last \in Known \union {T.msg}
  PROVE  IInv'
<1>1. Grows
  BY DEF Grows
<1>2. Known \subseteq Known' /\ T.msg \in Known'
  BY <1>1, KnownKeeps DEF IInv
<1>3. DataOK'
  BY DEF DataOK, IInv, TypeOK
<1>4. EntriesAreKnown' /\ MembersOnRecord'
  BY <1>2 DEF IInv, EntriesAreKnown, MembersOnRecord
<1>5. RolesMatchMembers' /\ CachedWasReal' /\ SentToMembers'
  BY <1>1, SentKeeps DEF IInv, RolesMatchMembers, CachedWasReal
<1> QED BY <1>1, <1>2, <1>3, <1>4, <1>5, HandlerStep

LEMMA IdleFine ==
  /\ Idle \in Task /\ TaskInv(Idle, ever, author, lost)
  /\ Idle.msg = None /\ Idle.snap.last \in Known /\ Idle.old.last \in Known
  BY DEF Idle, Task, TaskInv, Posting, Known, Value, MsgId, Keys

(* What the invariant says of the handler that takes the step.             *)
LEMMA HandlerFacts ==
  ASSUME IInv, NEW h \in Handlers
  PROVE  /\ task[h] \in Task /\ TaskInv(task[h], ever, author, lost)
         /\ task[h].snap.last \in Known /\ task[h].old.last \in Known
         /\ ever \subseteq SUBSET Users /\ UNION ever \subseteq Users
         /\ lost \in SUBSET MsgIds /\ overlap \in BOOLEAN
         /\ calls \in 0..MaxCalls /\ faults \in 0..MaxFaults
         /\ confirmed \subseteq Users /\ confirmed \subseteq UNION ever
         /\ conv.members \in ever /\ conv.members \in SUBSET Users
         /\ conv.last \in MsgId /\ conv.last \in Known
  BY DEF IInv, TypeOK, TasksInv, HeldIsKnown, EntriesAreKnown, MembersOnRecord

(* A step that changes nothing but the task of h.                          *)
LEMMA TaskStep ==
  ASSUME IInv, NEW h \in Handlers, NEW T \in Task, Become(h, T),
         UNCHANGED <<Store, Redis, Rest>>,
         TaskInv(T, ever, author, lost), task[h].msg \in lost \union {T.msg, None},
         T.snap.last \in Known \union {T.msg}, T.old.last \in Known \union {T.msg}
  PROVE  IInv'
<1>1. /\ UNCHANGED <<conv, stored, expired, cache, sent, ever, author>>
      /\ lost' = lost /\ confirmed' = confirmed /\ overlap' = overlap
      /\ calls' = calls /\ faults' = faults
  BY DEF Store, Redis, Rest
<1> QED BY <1>1, HandlerFacts, QuietStep

(* A handler that answers, with or without an error.                       *)
LEMMA LeaveStep ==
  ASSUME IInv, NEW h \in Handlers, Leave(h), task[h].msg \in lost \union {None},
         UNCHANGED <<Store, Redis, sent, overlap, calls>>, faults' \in 0..MaxFaults
  PROVE  IInv'
<1>1. /\ UNCHANGED <<conv, stored, expired, cache, sent, ever, author>>
      /\ lost' = lost /\ confirmed' = confirmed /\ overlap' = overlap /\ calls' = calls
  BY DEF Store, Redis
<1> QED BY <1>1, HandlerFacts, IdleFine, QuietStep DEF Leave

-------------------------------------------------------------------------------
(* The permission *)

(* The history of overlaps stays true or false.                            *)
LEMMA EnterFacts ==
  ASSUME IInv, NEW h \in Handlers, NEW T, Enter(h, T)
  PROVE  Become(h, T) /\ task[h].pc = "idle" /\ overlap' \in BOOLEAN
  BY DEF Enter, IInv, TypeOK

LEMMA BeginChangeStep ==
  ASSUME IInv, NEW h \in Handlers, NEW u \in Users, NEW op \in Changes,
         NEW targets \in SUBSET Users, BeginChange(h, u, op, targets)
  PROVE  IInv'
<1> DEFINE T == [Idle EXCEPT !.op = op, !.pc = "confirm", !.user = u, !.targets = targets]
<1>1. T \in Task /\ TaskInv(T, ever, author, lost)
  BY IdleFine DEF Idle, Task, TaskInv, Posting, Changes
<1>2. T.msg = None /\ T.snap.last \in Known /\ T.old.last \in Known
  BY IdleFine DEF Idle
<1>3. task[h].msg = None /\ Become(h, T) /\ overlap' \in BOOLEAN
  BY EnterFacts, HandlerFacts DEF BeginChange, TaskInv, Posting
<1>4. /\ UNCHANGED <<conv, stored, expired, cache, sent, ever, author, confirmed, lost, faults>>
      /\ calls' \in 0..MaxCalls
  BY BoundsAssumption DEF BeginChange, Store, Redis, IInv, TypeOK
<1> QED BY <1>1, <1>2, <1>3, <1>4, HandlerFacts, QuietStep

LEMMA BeginStep ==
  ASSUME IInv, NEW h \in Handlers, Begin(h) PROVE IInv'
<1>1. PICK u \in Users :
        \/ \E targets \in Invites : BeginChange(h, u, "add", targets)
        \/ \E v \in Users : BeginChange(h, u, "remove", {v})
        \/ BeginChange(h, u, "leave", {u})
  BY DEF Begin
<1>2. {"add", "remove", "leave"} \subseteq Changes
  BY DEF Changes
<1>3. Invites \subseteq SUBSET Users
  BY UsersAssumption
<1> QED BY <1>1, <1>2, <1>3, BeginChangeStep

LEMMA ReadConfirmStep ==
  ASSUME IInv, NEW h \in Handlers, ReadConfirm(h) PROVE IInv'
<1> DEFINE T(pc) == [task[h] EXCEPT !.pc = pc]
<1>1. task[h].pc = "confirm"
  BY DEF ReadConfirm
<1>2. \A pc \in {"get", "check"} :
         /\ T(pc) \in Task /\ T(pc).msg = task[h].msg
         /\ T(pc).snap.last \in Known /\ T(pc).old.last \in Known
  BY HandlerFacts DEF Task
<1>3. CASE task[h].user \in confirmed
  <2>1. TaskInv(T("get"), ever, author, lost)
    BY <1>1, <1>3, HandlerFacts DEF TaskInv, Posting, Task
  <2> QED BY <1>2, <1>3, <2>1, TaskStep DEF ReadConfirm, Goto
<1>4. CASE task[h].user \notin confirmed
  <2>1. TaskInv(T("check"), ever, author, lost)
    BY <1>1, <1>4, HandlerFacts DEF TaskInv, Posting, Task
  <2> QED BY <1>2, <1>4, <2>1, TaskStep DEF ReadConfirm, Goto
<1> QED BY <1>3, <1>4

(* Whoever has a role that permits a change is a member.                   *)
LEMMA PermittedIsMember ==
  ASSUME IInv, NEW t, t.user \in Users, Permits(t)
  PROVE  t.user \in UNION ever
<1>1. conv.roles[t.user] # "none"
  BY DEF Permits, Allowed
<1> QED BY <1>1 DEF IInv, RolesMatchMembers, MembersOnRecord

LEMMA CheckPermissionStep ==
  ASSUME IInv, NEW h \in Handlers, CheckPermission(h) PROVE IInv'
<1> DEFINE T == [task[h] EXCEPT !.pc = "approve"]
<1>1. task[h].pc = "check" /\ UNCHANGED <<Store, Redis, Rest>>
  BY DEF CheckPermission
<1>2. task[h].msg = None /\ task[h].user \in Users /\ task[h].op # "post"
  BY <1>1, HandlerFacts DEF TaskInv, Posting
<1>3. CASE Permits(task[h])
  <2>1. task[h].user \in UNION ever
    BY <1>2, <1>3, PermittedIsMember
  <2>2. /\ T \in Task /\ T.msg = task[h].msg
        /\ T.snap.last \in Known /\ T.old.last \in Known
    BY HandlerFacts DEF Task
  <2>3. TaskInv(T, ever, author, lost)
    BY <1>1, <2>1, HandlerFacts DEF TaskInv, Posting, Task
  <2> QED BY <1>1, <1>3, <2>2, <2>3, TaskStep DEF CheckPermission, Goto
<1>4. CASE ~Permits(task[h])
  <2>1. Leave(h) /\ UNCHANGED <<Store, Redis, sent, overlap, calls>> /\ faults' = faults
    BY <1>1, <1>4 DEF CheckPermission, Rest
  <2> QED BY <1>2, <2>1, HandlerFacts, LeaveStep
<1> QED BY <1>3, <1>4

LEMMA SetConfirmStep ==
  ASSUME IInv, NEW h \in Handlers, SetConfirm(h) PROVE IInv'
<1> DEFINE T == [task[h] EXCEPT !.pc = "get"]
<1>1. /\ T \in Task /\ T.msg = task[h].msg
      /\ T.snap.last \in Known /\ T.old.last \in Known
  BY HandlerFacts DEF Task
<1>2. task[h].pc = "approve" /\ task[h].user \in UNION ever
  BY HandlerFacts DEF SetConfirm, TaskInv
<1>3. TaskInv(T, ever, author, lost)
  BY <1>2, HandlerFacts DEF TaskInv, Posting, Task
<1>4. /\ UNCHANGED <<conv, stored, expired, cache, sent, ever, author, lost, overlap,
                      calls, faults>>
      /\ Become(h, T) /\ confirmed' = confirmed \union {task[h].user}
  BY DEF SetConfirm, Goto, Store, Rest
<1> QED BY <1>1, <1>2, <1>3, <1>4, HandlerFacts, QuietStep

-------------------------------------------------------------------------------
(* The cache *)

LEMMA EntryFacts ==
  ASSUME IInv, NEW k \in Keys, cache[k] # Miss
  PROVE  /\ cache[k] \in Value /\ cache[k].members \in ever
         /\ cache[k].last \in Known
  BY DEF IInv, TypeOK, CachedWasReal, EntriesAreKnown

CacheOK(c) ==
    /\ c \in [Keys -> Value \union {Miss}]
    /\ \A k \in Keys : c[k] # Miss => c[k].members \in ever /\ c[k].last \in Known

LEMMA CacheIsOK == ASSUME IInv PROVE CacheOK(cache)
<1>1. cache \in [Keys -> Value \union {Miss}]
  BY DEF IInv, TypeOK
<1> QED BY <1>1, EntryFacts DEF CacheOK

LEMMA WrittenIsOK ==
  ASSUME IInv, NEW k \in Keys, NEW v \in Value, v.members \in ever, v.last \in Known
  PROVE  CacheOK([cache EXCEPT ![k] = v])
  BY CacheIsOK DEF CacheOK

(* A step that changes the task of h and, perhaps, what is in Redis.       *)
LEMMA CacheStep ==
  ASSUME IInv, NEW h \in Handlers, NEW T \in Task, Become(h, T), CacheOK(cache'),
         UNCHANGED <<conv, stored, expired, ever, author, lost, sent, overlap, calls>>,
         confirmed' \subseteq Users, confirmed' \subseteq UNION ever,
         faults' \in 0..MaxFaults,
         TaskInv(T, ever, author, lost), task[h].msg \in lost \union {T.msg, None},
         T.snap.last \in Known \union {T.msg}, T.old.last \in Known \union {T.msg}
  PROVE  IInv'
<1>1. Grows
  BY DEF Grows
<1>2. Known \subseteq Known' /\ T.msg \in Known'
  BY <1>1, KnownKeeps DEF IInv
<1>3. DataOK'
  BY DEF DataOK, IInv, TypeOK, CacheOK
<1>4. EntriesAreKnown' /\ MembersOnRecord'
  BY <1>2 DEF IInv, EntriesAreKnown, MembersOnRecord, CacheOK
<1>5. RolesMatchMembers' /\ CachedWasReal' /\ SentToMembers'
  BY <1>1, SentKeeps DEF IInv, RolesMatchMembers, CachedWasReal, CacheOK
<1> QED BY <1>1, <1>2, <1>3, <1>4, <1>5, HandlerStep

(* A new message takes an id that nobody has, for the user who posts it.   *)
LEMMA PostStep ==
  ASSUME IInv, NEW h \in Handlers, NEW T \in Task, Become(h, T), CacheOK(cache'),
         UNCHANGED <<conv, stored, expired, ever, lost, confirmed, sent, overlap, calls, faults>>,
         NEW m \in MsgIds, NEW u \in Users, Fresh(m), author' = [author EXCEPT ![m] = u],
         TaskInv(T, ever, author', lost), task[h].msg = None,
         T.snap.last \in Known, T.old.last \in Known
  PROVE  IInv'
<1>1. Grows
  BY DEF Grows, Fresh, IInv, TypeOK
<1>2. Known \subseteq Known'
  BY <1>1, KnownKeeps DEF IInv
<1>3. DataOK'
  BY DEF DataOK, IInv, TypeOK, CacheOK
<1>4. EntriesAreKnown' /\ MembersOnRecord'
  BY <1>2 DEF IInv, EntriesAreKnown, MembersOnRecord, CacheOK
<1>5. RolesMatchMembers' /\ CachedWasReal' /\ SentToMembers'
  BY <1>1, SentKeeps DEF IInv, RolesMatchMembers, CachedWasReal, CacheOK
<1>6. TaskInv(T, ever', author', lost')
  OBVIOUS
<1> QED BY <1>1, <1>2, <1>3, <1>4, <1>5, <1>6, HandlerStep

LEMMA ContinueStep ==
  ASSUME IInv, NEW h \in Handlers, NEW snap \in Value, snap.members \in ever,
         snap.last \in Known, task[h].pc \in {"get", "fill"}, Continue(h, snap),
         CacheOK(cache'),
         UNCHANGED <<conv, stored, expired, ever, lost, confirmed, sent, overlap, calls, faults>>
  PROVE  IInv'
<1> DEFINE t == [task[h] EXCEPT !.snap = snap]
           W == [t EXCEPT !.pc = "write"]
           S(m) == [t EXCEPT !.pc = "save", !.msg = m, !.todo = {"database", "get"}]
<1>1. /\ task[h] \in Task /\ TaskInv(task[h], ever, author, lost)
      /\ task[h].msg = None /\ task[h].user \in Users /\ task[h].old.last \in Known
  BY HandlerFacts DEF TaskInv, Posting
<1>2. CASE Leave(h) /\ UNCHANGED author
  BY <1>1, <1>2, IdleFine, HandlerFacts, CacheStep DEF Leave
<1>3. CASE t.op # "post" /\ UNCHANGED author /\ Become(h, W)
  <2>1. W \in Task /\ W.msg = None /\ W.snap.last \in Known /\ W.old.last \in Known
    BY <1>1 DEF Task
  <2>2. TaskInv(W, ever, author, lost)
    BY <1>1, <1>3 DEF TaskInv, Posting, Task
  <2> QED BY <1>1, <1>3, <2>1, <2>2, HandlerFacts, CacheStep
<1>4. ASSUME Valid(t, snap), t.op = "post", NEW m \in MsgIds, Fresh(m),
             author' = [author EXCEPT ![m] = t.user], Become(h, S(m))
      PROVE  IInv'
  <2>1. t.user = task[h].user /\ t.user \in snap.members
    BY <1>1, <1>4 DEF Valid, MayPost, Task
  <2>2. S(m) \in Task /\ S(m).snap.last \in Known /\ S(m).old.last \in Known
    BY <1>1, <1>4 DEF Task, MsgId
  <2>3. author'[m] = t.user
    BY <1>4 DEF IInv, TypeOK
  <2>4. TaskInv(S(m), ever, author', lost)
    BY <1>1, <2>1, <2>3 DEF TaskInv, Posting, Task
  <2> QED BY <1>1, <1>4, <2>1, <2>2, <2>4, PostStep
<1> QED BY <1>2, <1>3, <1>4 DEF Continue

LEMMA CacheHitStep ==
  ASSUME IInv, NEW h \in Handlers, CacheHit(h) PROVE IInv'
<1> DEFINE k == NeedsKey(task[h].op)
<1>1. k \in Keys
  BY DEF NeedsKey, Keys
<1>2. /\ cache[k] # Miss /\ task[h].pc = "get" /\ Continue(h, cache[k])
      /\ UNCHANGED <<conv, stored, expired, ever, lost, confirmed, sent, overlap, calls, faults, cache>>
  BY DEF CacheHit, Redis, Rest
<1> QED BY <1>1, <1>2, EntryFacts, CacheIsOK, ContinueStep

LEMMA CacheMissStep ==
  ASSUME IInv, NEW h \in Handlers, CacheMiss(h) PROVE IInv'
<1> DEFINE T == [task[h] EXCEPT !.pc = "read"]
<1>1. /\ T \in Task /\ T.msg = task[h].msg
      /\ T.snap.last \in Known /\ T.old.last \in Known
  BY HandlerFacts DEF Task
<1>2. TaskInv(T, ever, author, lost)
  BY HandlerFacts DEF CacheMiss, TaskInv, Posting, Task
<1> QED BY <1>1, <1>2, TaskStep DEF CacheMiss, Goto

LEMMA ReadConversationStep ==
  ASSUME IInv, NEW h \in Handlers, ReadConversation(h) PROVE IInv'
<1> DEFINE t == task[h]
           T == [t EXCEPT !.snap = [members |-> conv.members, last |-> conv.last],
                          !.pc = IF t.op = "post" THEN "populate" ELSE "fill"]
<1>1. /\ t.pc = "read" /\ Become(h, T) /\ UNCHANGED <<Store, Redis, Rest>>
  BY DEF ReadConversation
<1>2. /\ T \in Task /\ T.msg = t.msg
      /\ T.snap.last \in Known /\ T.old.last \in Known
  <2>1. [members |-> conv.members, last |-> conv.last] \in Value
    BY HandlerFacts DEF Value
  <2> QED BY <2>1, HandlerFacts DEF Task
<1>3. TaskInv(T, ever, author, lost)
  BY <1>1, HandlerFacts DEF TaskInv, Posting, Task
<1> QED BY <1>1, <1>2, <1>3, TaskStep

LEMMA FillCacheStep ==
  ASSUME IInv, NEW h \in Handlers, FillCache(h) PROVE IInv'
<1> DEFINE t == task[h]
           k == NeedsKey(t.op)
<1>1. /\ t.pc = "fill" /\ Continue(h, t.snap) /\ cache' = [cache EXCEPT ![k] = t.snap]
      /\ UNCHANGED <<conv, stored, expired, ever, lost, confirmed, sent, overlap, calls, faults>>
  BY DEF FillCache, Rest
<1>2. t.snap \in Value /\ t.snap.members \in ever /\ t.snap.last \in Known
  BY <1>1, HandlerFacts DEF Task, TaskInv, Posting
<1>3. k \in Keys
  BY DEF NeedsKey, Keys
<1>4. CacheOK(cache')
  BY <1>1, <1>2, <1>3, WrittenIsOK
<1> QED BY <1>1, <1>2, <1>4, ContinueStep

-------------------------------------------------------------------------------
(* The document *)

(* The two halves of updateParticipant's update agree.                     *)
LEMMA ChangeAgrees ==
  ASSUME IInv, NEW t \in Task
  PROVE  /\ MembersAfter(t) \in SUBSET Users
         /\ RolesAfter(t) \in [Users -> Roles \union {"none"}]
         /\ \A u \in Users : RolesAfter(t)[u] # "none" <=> u \in MembersAfter(t)
<1>1. t.targets \in SUBSET Users
  BY DEF Task
<1>2. /\ conv.members \in SUBSET Users /\ conv.roles \in [Users -> Roles \union {"none"}]
      /\ \A u \in Users : conv.roles[u] # "none" <=> u \in conv.members
  BY DEF IInv, TypeOK, RolesMatchMembers
<1>3. MembersAfter(t) \in SUBSET Users
  BY <1>1, <1>2 DEF MembersAfter
<1>4. RolesAfter(t) \in [Users -> Roles \union {"none"}]
  BY <1>2 DEF RolesAfter, Roles
<1>5. \A u \in Users : RolesAfter(t)[u] # "none" <=> u \in MembersAfter(t)
  BY <1>1, <1>2 DEF RolesAfter, MembersAfter
<1> QED BY <1>3, <1>4, <1>5

(* A step that changes the task of h and, perhaps, the document.           *)
LEMMA DocumentStep ==
  ASSUME IInv, NEW h \in Handlers, NEW T \in Task, Become(h, T),
         UNCHANGED <<stored, expired, cache, confirmed, author, sent>>,
         conv' \in [members: SUBSET Users, roles: [Users -> Roles \union {"none"}],
                    last: MsgId],
         conv'.last \in Known \union {T.msg}, RolesMatchMembers',
         ever' = ever \union {conv'.members},
         lost' \in SUBSET MsgIds, lost \subseteq lost',
         overlap' \in BOOLEAN, calls' \in 0..MaxCalls, faults' \in 0..MaxFaults,
         TaskInv(T, ever', author, lost'), task[h].msg \in lost' \union {T.msg, None},
         T.snap.last \in Known \union {T.msg}, T.old.last \in Known \union {T.msg}
  PROVE  IInv'
<1>1. Grows
  BY DEF Grows
<1>2. Known \subseteq Known' /\ T.msg \in Known'
  BY <1>1, KnownKeeps DEF IInv
<1>3. DataOK'
  BY DEF DataOK, IInv, TypeOK
<1>4. EntriesAreKnown' /\ MembersOnRecord'
  BY <1>2 DEF IInv, EntriesAreKnown, MembersOnRecord
<1>5. CachedWasReal' /\ SentToMembers'
  BY <1>1, SentKeeps DEF IInv, CachedWasReal
<1> QED BY <1>1, <1>2, <1>3, <1>4, <1>5, HandlerStep

LEMMA WriteMembersStep ==
  ASSUME IInv, NEW h \in Handlers, WriteMembers(h) PROVE IInv'
<1> DEFINE t == task[h]
           T == [t EXCEPT !.pc = "populate",
                          !.snap = [members |-> conv'.members, last |-> conv.last]]
<1>1. /\ t.pc = "write" /\ Become(h, T) /\ ever' = ever \union {conv'.members}
      /\ conv' = [conv EXCEPT !.members = MembersAfter(t), !.roles = RolesAfter(t)]
      /\ UNCHANGED <<stored, expired, author, lost, cache, confirmed, sent, overlap, calls,
                      faults>>
  BY DEF WriteMembers, Redis, Rest
<1>2. /\ t \in Task /\ t.msg = None /\ t.old.last \in Known /\ conv.last \in Known
      /\ conv.last \in MsgId /\ TaskInv(t, ever, author, lost)
  BY <1>1, HandlerFacts DEF TaskInv, Posting
<1>3. /\ conv' \in [members: SUBSET Users, roles: [Users -> Roles \union {"none"}],
                    last: MsgId]
      /\ conv'.last = conv.last /\ RolesMatchMembers'
  BY <1>1, <1>2, ChangeAgrees DEF IInv, TypeOK, RolesMatchMembers
<1>4. T \in Task /\ T.msg = None /\ T.snap.last \in Known /\ T.old.last \in Known
  <2>1. [members |-> conv'.members, last |-> conv.last] \in Value
    BY <1>2, <1>3 DEF Value
  <2> QED BY <1>2, <2>1 DEF Task
<1>5. TaskInv(T, ever', author, lost)
  BY <1>1, <1>2 DEF TaskInv, Posting, Task
<1> QED BY <1>1, <1>2, <1>3, <1>4, <1>5, HandlerFacts, DocumentStep

LEMMA PopulateStep ==
  ASSUME IInv, NEW h \in Handlers, Populate(h) PROVE IInv'
<1> DEFINE t == task[h]
           T == [t EXCEPT !.snap.last = Populated(@), !.key = "conversation",
                          !.pc = IF t.op = "post" THEN "fill" ELSE "refresh"]
<1>1. t.pc = "populate" /\ Become(h, T) /\ UNCHANGED <<Store, Redis, Rest>>
  BY DEF Populate
<1>2. t \in Task /\ TaskInv(t, ever, author, lost) /\ t.old.last \in Known
  BY HandlerFacts
<1>3. Populated(t.snap.last) \in Known /\ Populated(t.snap.last) \in MsgId \union {"null"}
  BY <1>2 DEF Populated, Collection, Known, Task, Value
<1>4. T \in Task /\ T.msg = t.msg /\ T.snap.last \in Known /\ T.old.last \in Known
  <2>1. /\ [t.snap EXCEPT !.last = Populated(@)] \in Value
        /\ [t.snap EXCEPT !.last = Populated(@)].last = Populated(t.snap.last)
    BY <1>2, <1>3 DEF Task, Value, MsgId
  <2> QED BY <1>2, <1>3, <2>1 DEF Task, Keys
<1>5. TaskInv(T, ever, author, lost)
  BY <1>1, <1>2 DEF TaskInv, Posting, Task, Value
<1> QED BY <1>1, <1>4, <1>5, TaskStep

-------------------------------------------------------------------------------
(* The refresh of the entries *)

LEMMA NextKeyIsFine ==
  ASSUME IInv, NEW h \in Handlers, task[h].pc \in {"refresh", "merge"}, NextKey(h)
  PROVE  \E T \in Task :
            /\ Become(h, T) /\ TaskInv(T, ever, author, lost)
            /\ task[h].msg = None /\ T.snap.last \in Known /\ T.old.last \in Known
<1> DEFINE T == [task[h] EXCEPT !.pc = "refresh", !.key = "message"]
<1>1. task[h].msg = None
  BY HandlerFacts DEF TaskInv, Posting
<1>2. T \in Task /\ T.snap.last \in Known /\ T.old.last \in Known
  BY HandlerFacts DEF Task, Keys
<1>3. TaskInv(T, ever, author, lost)
  BY HandlerFacts DEF Task, TaskInv, Posting
<1> QED BY <1>1, <1>2, <1>3, IdleFine DEF NextKey, Leave

LEMMA RefreshStep ==
  ASSUME IInv, NEW h \in Handlers, RefreshFinds(h) \/ RefreshMisses(h) PROVE IInv'
<1>1. CASE RefreshMisses(h)
  <2>1. task[h].pc = "refresh" /\ NextKey(h) /\ UNCHANGED <<Store, Redis, Rest>>
    BY <1>1 DEF RefreshMisses
  <2> QED BY <2>1, NextKeyIsFine, TaskStep
<1>2. CASE RefreshFinds(h)
  <2> DEFINE t == task[h]
             T == [t EXCEPT !.pc = "merge", !.old = cache[t.key]]
  <2>1. /\ t.pc = "refresh" /\ cache[t.key] # Miss /\ Become(h, T)
        /\ UNCHANGED <<Store, Redis, Rest>>
    BY <1>2 DEF RefreshFinds
  <2>2. t \in Task /\ TaskInv(t, ever, author, lost) /\ t.snap.last \in Known
    BY HandlerFacts
  <2>3. /\ cache[t.key] \in Value /\ cache[t.key].members \in ever
        /\ cache[t.key].last \in Known
    BY <2>1, <2>2, EntryFacts DEF Task
  <2>4. T \in Task /\ T.msg = t.msg /\ T.snap.last \in Known /\ T.old.last \in Known
    BY <2>2, <2>3 DEF Task
  <2>5. TaskInv(T, ever, author, lost)
    BY <2>1, <2>2, <2>3 DEF TaskInv, Posting, Task
  <2> QED BY <2>1, <2>4, <2>5, TaskStep
<1> QED BY <1>1, <1>2

LEMMA MergeIntoCacheStep ==
  ASSUME IInv, NEW h \in Handlers, MergeIntoCache(h) PROVE IInv'
<1> DEFINE t == task[h]
           new == Merge(t.old, t.snap)
<1>1. /\ t.pc = "merge" /\ NextKey(h) /\ cache' = [cache EXCEPT ![t.key] = new]
      /\ UNCHANGED <<conv, stored, expired, ever, author, lost, confirmed, sent, overlap, calls, faults>>
  BY DEF MergeIntoCache, Store, Rest
<1>2. /\ t \in Task /\ TaskInv(t, ever, author, lost)
      /\ t.snap.last \in Known /\ t.old.last \in Known
  BY HandlerFacts
<1>3. new \in Value /\ new.members \in ever /\ new.last \in Known
  BY <1>1, <1>2 DEF Merge, Task, Value, TaskInv, Posting
<1>4. CacheOK(cache')
  BY <1>1, <1>2, <1>3, WrittenIsOK DEF Task
<1> QED BY <1>1, <1>4, NextKeyIsFine, HandlerFacts, CacheStep

-------------------------------------------------------------------------------
(* Posting *)

LEMMA BeginPostStep ==
  ASSUME IInv, NEW h \in Handlers, NEW u \in Users, BeginPost(h, u) PROVE IInv'
<1> DEFINE T == [Idle EXCEPT !.op = "post", !.pc = "get", !.user = u]
<1>1. T \in Task /\ TaskInv(T, ever, author, lost)
  BY IdleFine DEF Idle, Task, TaskInv, Posting
<1>2. T.msg = None /\ T.snap.last \in Known /\ T.old.last \in Known
  BY IdleFine DEF Idle
<1>3. task[h].msg = None /\ Become(h, T) /\ overlap' \in BOOLEAN
  BY EnterFacts, HandlerFacts DEF BeginPost, TaskInv, Posting
<1>4. UNCHANGED <<conv, stored, expired, cache, sent, ever, author, confirmed, lost, calls, faults>>
  BY DEF BeginPost, Store, Redis
<1> QED BY <1>1, <1>2, <1>3, <1>4, HandlerFacts, QuietStep

(* A handler in the hook or before the insert.                             *)
LEMMA PostingFacts ==
  ASSUME IInv, NEW h \in Handlers, task[h].pc \in Posting
  PROVE  /\ task[h] \in Task /\ task[h].msg \in MsgIds /\ task[h].msg \in Known
         /\ task[h].snap.members \in ever /\ task[h].snap.members \in SUBSET Users
         /\ task[h].user \in Users
         /\ task[h].pc = "abort" => task[h].msg \in lost
         /\ task[h].pc \in {"save", "insert"} =>
               /\ author[task[h].msg] = task[h].user
               /\ task[h].user \in task[h].snap.members
<1>1. task[h] \in Task /\ TaskInv(task[h], ever, author, lost) /\ ever \subseteq SUBSET Users
  BY HandlerFacts
<1>2. task[h].msg \in Known
  BY DEF Known
<1> QED BY <1>1, <1>2 DEF TaskInv, Posting

LEMMA HookWritesLastStep ==
  ASSUME IInv, NEW h \in Handlers, HookWritesLast(h) PROVE IInv'
<1> DEFINE t == task[h]
           T == [t EXCEPT !.todo = @ \ {"database"}]
<1>1. /\ t.pc \in {"save", "abort"} /\ conv' = [conv EXCEPT !.last = t.msg] /\ Become(h, T)
      /\ UNCHANGED <<stored, expired, cache, confirmed, author, sent, ever, lost, overlap,
                     calls, faults>>
  BY DEF HookWritesLast, Redis, Rest
<1>2. /\ t \in Task /\ TaskInv(t, ever, author, lost) /\ t.msg \in MsgIds
      /\ t.msg \in Known /\ t.snap.last \in Known /\ t.old.last \in Known
      /\ conv.last \in Known /\ conv.members \in ever
  BY <1>1, HandlerFacts, PostingFacts DEF Posting
<1>3. /\ conv' \in [members: SUBSET Users, roles: [Users -> Roles \union {"none"}],
                    last: MsgId]
      /\ conv'.last \in Known /\ conv'.members = conv.members /\ RolesMatchMembers'
  BY <1>1, <1>2 DEF IInv, TypeOK, RolesMatchMembers, MsgId
<1>4. ever' = ever \union {conv'.members}
  BY <1>1, <1>2, <1>3
<1>5. T \in Task /\ T.msg = t.msg /\ T.snap.last \in Known /\ T.old.last \in Known
  BY <1>2 DEF Task
<1>6. TaskInv(T, ever, author, lost)
  BY <1>1, <1>2 DEF TaskInv, Posting, Task
<1> QED BY <1>1, <1>2, <1>3, <1>4, <1>5, <1>6, HandlerFacts, DocumentStep

(* A half of the hook fails, applied or not: the message is lost.          *)
LEMMA HookErrsStep ==
  ASSUME IInv, NEW h \in Handlers, HookErrs(h) PROVE IInv'
<1> DEFINE t == task[h]
           T(part) == [t EXCEPT !.pc = "abort", !.todo = @ \ {part}]
<1>1. PICK part \in t.todo :
        /\ Become(h, T(part))
        /\ conv' = conv \/ conv' = [conv EXCEPT !.last = t.msg]
        /\ \/ cache' = cache
           \/ part = "set" /\ cache' = [cache EXCEPT !["message"] = WithLast(t)]
  BY DEF HookErrs
<1>2. /\ t.pc \in {"save", "abort"} /\ lost' = lost \union {t.msg} /\ faults' \in 0..MaxFaults
      /\ UNCHANGED <<stored, expired, ever, author, confirmed, sent, overlap, calls>>
  BY BoundsAssumption DEF HookErrs, Fault, IInv, TypeOK
<1>3. /\ t \in Task /\ TaskInv(t, ever, author, lost) /\ t.msg \in MsgIds
      /\ t.msg \in Known /\ t.snap.last \in Known /\ t.old.last \in Known
      /\ conv.last \in Known /\ conv.members \in ever
  BY <1>2, HandlerFacts, PostingFacts DEF Posting
<1>4. /\ conv' \in [members: SUBSET Users, roles: [Users -> Roles \union {"none"}],
                    last: MsgId]
      /\ conv'.last \in Known /\ conv'.members = conv.members /\ RolesMatchMembers'
  BY <1>1, <1>3 DEF IInv, TypeOK, RolesMatchMembers, MsgId
<1>5. CacheOK(cache')
  <2>1. CASE part = "set" /\ cache' = [cache EXCEPT !["message"] = WithLast(t)]
    <3>1. /\ WithLast(t) \in Value /\ WithLast(t).members \in ever
          /\ WithLast(t).last \in Known
      BY <1>3, <2>1 DEF WithLast, Task, Value, MsgId, TaskInv
    <3> QED BY <2>1, <3>1, WrittenIsOK DEF Keys
  <2> QED BY <1>1, <2>1, CacheIsOK
<1>6. T(part) \in Task /\ T(part).msg = t.msg /\ T(part).pc = "abort"
      /\ T(part).snap = t.snap /\ T(part).old = t.old /\ T(part).todo \subseteq t.todo
      /\ T(part).user = t.user
  BY <1>3 DEF Task
<1> HIDE DEF T
<1>7. Grows
  BY <1>2 DEF Grows
<1>8. Known \subseteq Known' /\ T(part).msg \in Known'
  BY <1>1, <1>2, <1>6, <1>7, KnownKeeps DEF IInv
<1>9. TaskInv(T(part), ever', author', lost')
  BY <1>2, <1>3, <1>6 DEF TaskInv, Posting
<1>10. DataOK'
  BY <1>2, <1>3, <1>4, <1>5 DEF DataOK, IInv, TypeOK, CacheOK
<1>11. EntriesAreKnown' /\ MembersOnRecord'
  BY <1>2, <1>3, <1>4, <1>5, <1>8 DEF IInv, EntriesAreKnown, MembersOnRecord, CacheOK
<1>12. CachedWasReal' /\ SentToMembers'
  BY <1>2, <1>5, <1>7, SentKeeps DEF IInv, CachedWasReal, CacheOK
<1> QED BY <1>1, <1>2, <1>3, <1>4, <1>6, <1>7, <1>8, <1>9, <1>10, <1>11, <1>12, HandlerStep

LEMMA HookReadsCacheStep ==
  ASSUME IInv, NEW h \in Handlers, HookReadsCache(h) PROVE IInv'
<1> DEFINE t == task[h]
           A == [t EXCEPT !.todo = @ \ {"get"}]
           B == [t EXCEPT !.todo = (@ \ {"get"}) \union {"set"}, !.old = cache["message"]]
<1>1. /\ t.pc \in {"save", "abort"} /\ UNCHANGED <<Store, Redis, Rest>>
      /\ Become(h, IF cache["message"] = Miss THEN A ELSE B)
  BY DEF HookReadsCache
<1>2. /\ t \in Task /\ TaskInv(t, ever, author, lost)
      /\ t.snap.last \in Known /\ t.old.last \in Known
  BY HandlerFacts
<1>3. CASE cache["message"] = Miss
  <2>1. A \in Task /\ A.msg = t.msg /\ A.snap.last \in Known /\ A.old.last \in Known
    BY <1>2 DEF Task
  <2>2. TaskInv(A, ever, author, lost)
    BY <1>1, <1>2 DEF TaskInv, Posting, Task
  <2> QED BY <1>1, <1>3, <2>1, <2>2, TaskStep
<1>4. CASE cache["message"] # Miss
  <2>1. /\ cache["message"] \in Value /\ cache["message"].members \in ever
        /\ cache["message"].last \in Known
    BY <1>4, EntryFacts DEF Keys
  <2>2. B \in Task /\ B.msg = t.msg /\ B.snap.last \in Known /\ B.old.last \in Known
    BY <1>2, <2>1 DEF Task
  <2>3. TaskInv(B, ever, author, lost)
    BY <1>1, <1>2, <2>1 DEF TaskInv, Posting, Task
  <2> QED BY <1>1, <1>4, <2>2, <2>3, TaskStep
<1> QED BY <1>3, <1>4

LEMMA HookWritesCacheStep ==
  ASSUME IInv, NEW h \in Handlers, HookWritesCache(h) PROVE IInv'
<1> DEFINE t == task[h]
           T == [t EXCEPT !.todo = @ \ {"set"}]
           new == WithLast(t)
<1>1. /\ t.pc \in {"save", "abort"} /\ "set" \in t.todo /\ Become(h, T)
      /\ cache' = [cache EXCEPT !["message"] = new]
      /\ UNCHANGED <<conv, stored, expired, ever, author, lost, confirmed, sent, overlap, calls, faults>>
  BY DEF HookWritesCache, Store, Rest
<1>2. /\ t \in Task /\ TaskInv(t, ever, author, lost) /\ t.msg \in MsgIds
      /\ t.msg \in Known /\ t.snap.last \in Known /\ t.old.last \in Known
  BY <1>1, HandlerFacts, PostingFacts DEF Posting
<1>3. new \in Value /\ new.members \in ever /\ new.last \in Known
  BY <1>1, <1>2 DEF WithLast, Task, Value, MsgId, TaskInv
<1>4. CacheOK(cache')
  BY <1>1, <1>3, WrittenIsOK DEF Keys
<1>5. T \in Task /\ T.msg = t.msg /\ T.snap.last \in Known /\ T.old.last \in Known
  BY <1>2 DEF Task
<1>6. TaskInv(T, ever, author, lost)
  BY <1>1, <1>2 DEF TaskInv, Posting, Task
<1> QED BY <1>1, <1>4, <1>5, <1>6, HandlerFacts, CacheStep

LEMMA HookEndsStep ==
  ASSUME IInv, NEW h \in Handlers, HookEnds(h) PROVE IInv'
<1> DEFINE t == task[h]
           T == [t EXCEPT !.pc = "insert"]
<1>1. /\ t.pc \in {"save", "abort"} /\ UNCHANGED <<Store, Redis, Rest>>
      /\ IF t.pc = "save" THEN Become(h, T) ELSE Leave(h)
  BY DEF HookEnds, Goto
<1>2. CASE t.pc = "save"
  <2>1. T \in Task /\ T.msg = t.msg /\ T.snap.last \in Known /\ T.old.last \in Known
    BY HandlerFacts DEF Task
  <2>2. TaskInv(T, ever, author, lost)
    BY <1>2, HandlerFacts DEF TaskInv, Posting, Task
  <2> QED BY <1>1, <1>2, <2>1, <2>2, TaskStep
<1>3. CASE t.pc = "abort"
  <2>1. t.msg \in lost
    BY <1>3, PostingFacts DEF Posting
  <2>2. Leave(h) /\ UNCHANGED <<Store, Redis, sent, overlap, calls>> /\ faults' = faults
    BY <1>1, <1>3 DEF Rest
  <2> QED BY <2>1, <2>2, HandlerFacts, LeaveStep
<1> QED BY <1>1, <1>2, <1>3

(* The insert, with its event or with an error.                            *)
LEMMA InsertStep ==
  ASSUME IInv, NEW h \in Handlers, InsertMessage(h) \/ InsertErrs(h) PROVE IInv'
<1> DEFINE t == task[h]
<1>1. /\ t.pc = "insert" /\ Become(h, Idle)
      /\ UNCHANGED <<conv, expired, cache, confirmed, ever, author, overlap, calls>>
      /\ stored' = stored \/ stored' = stored \union {t.msg}
      /\ lost' = lost \/ lost' = lost \union {t.msg}
      /\ t.msg \in stored' \union lost' /\ faults' \in 0..MaxFaults
  BY BoundsAssumption DEF InsertMessage, InsertErrs, Leave, Redis, Fault, IInv, TypeOK
<1>2. /\ t \in Task /\ t.msg \in MsgIds /\ t.user \in Users
      /\ author[t.msg] = t.user /\ t.user \in t.snap.members
      /\ t.snap.members \in ever /\ t.snap.members \in SUBSET Users
  BY <1>1, PostingFacts DEF Posting
<1>3. Recipients(t) = t.snap.members \ {t.user}
  BY DEF Recipients
<1>4. sent' = sent \/ sent' = [sent EXCEPT ![t.msg] = Recipients(t)]
  BY DEF InsertMessage, InsertErrs
<1>5. Grows
  BY <1>1 DEF Grows
<1>6. Known \subseteq Known'
  BY <1>1, <1>5, IdleFine, KnownKeeps DEF IInv
<1>7. DataOK'
  BY <1>1, <1>2, <1>3, <1>4 DEF DataOK, IInv, TypeOK
<1>8. EntriesAreKnown' /\ MembersOnRecord' /\ RolesMatchMembers' /\ CachedWasReal'
  BY <1>1, <1>6 DEF IInv, EntriesAreKnown, MembersOnRecord, RolesMatchMembers, CachedWasReal
<1>9. SentToMembers'
  BY <1>1, <1>2, <1>3, <1>4 DEF IInv, TypeOK, SentToMembers
<1>10. /\ TaskInv(Idle, ever', author', lost')
       /\ Idle.snap.last \in Known' /\ Idle.old.last \in Known'
  BY <1>5, <1>6, IdleFine, TaskInvKeeps DEF IInv
<1> QED BY <1>1, <1>5, <1>7, <1>8, <1>9, <1>10, IdleFine, HandlerStep

-------------------------------------------------------------------------------
(* The environment *)

LEMMA ReadErrsStep ==
  ASSUME IInv, NEW h \in Handlers, ReadErrs(h) PROVE IInv'
<1>1. /\ Leave(h) /\ faults' \in 0..MaxFaults /\ task[h].pc \notin Posting
      /\ UNCHANGED <<Store, Redis, sent, overlap, calls>>
  BY BoundsAssumption DEF ReadErrs, Fault, Posting, IInv, TypeOK
<1>2. task[h].msg = None
  BY <1>1, HandlerFacts DEF TaskInv
<1> QED BY <1>1, <1>2, LeaveStep

(* A Redis command that fails has written what it would have, or nothing.  *)
LEMMA CacheErrsStep ==
  ASSUME IInv, NEW h \in Handlers, CacheErrs(h) PROVE IInv'
<1> DEFINE t == task[h]
<1>1. /\ t.pc \in {"approve", "fill", "merge"} /\ Become(h, Idle) /\ faults' \in 0..MaxFaults
      /\ UNCHANGED <<conv, stored, expired, ever, author, lost, sent, overlap, calls>>
  BY BoundsAssumption DEF CacheErrs, Fault, Leave, Store, IInv, TypeOK
<1>2. /\ t \in Task /\ TaskInv(t, ever, author, lost) /\ t.msg = None
      /\ t.snap.last \in Known /\ t.old.last \in Known
  BY <1>1, HandlerFacts DEF TaskInv, Posting
<1>3. confirmed' \subseteq Users /\ confirmed' \subseteq UNION ever
  <2>1. CASE confirmed' = confirmed
    BY <2>1, HandlerFacts
  <2>2. CASE t.pc = "approve" /\ confirmed' = confirmed \union {t.user}
    <3>1. t.user \in UNION ever /\ t.user \in Users
      BY <1>2, <2>2 DEF TaskInv
    <3> QED BY <2>2, <3>1, HandlerFacts
  <2> QED BY <2>1, <2>2 DEF CacheErrs, Redis
<1>4. CacheOK(cache')
  <2>1. CASE cache' = cache
    BY <2>1, CacheIsOK
  <2>2. CASE t.pc = "fill" /\ cache' = [cache EXCEPT ![NeedsKey(t.op)] = t.snap]
    <3>1. t.snap \in Value /\ t.snap.members \in ever /\ NeedsKey(t.op) \in Keys
      BY <1>2, <2>2 DEF Task, TaskInv, NeedsKey, Keys
    <3> QED BY <1>2, <2>2, <3>1, WrittenIsOK
  <2>3. CASE t.pc = "merge" /\ cache' = [cache EXCEPT ![t.key] = Merge(t.old, t.snap)]
    <3> DEFINE new == Merge(t.old, t.snap)
    <3>1. new \in Value /\ new.members \in ever /\ new.last \in Known
      BY <1>2, <2>3 DEF Merge, Task, Value, TaskInv, Posting
    <3>2. t.key \in Keys
      BY <1>2 DEF Task
    <3> QED BY <2>3, <3>1, <3>2, WrittenIsOK
  <2> QED BY <2>1, <2>2, <2>3 DEF CacheErrs, Redis
<1> QED BY <1>1, <1>2, <1>3, <1>4, IdleFine, CacheStep

LEMMA WriteErrsStep ==
  ASSUME IInv, NEW h \in Handlers, WriteErrs(h) PROVE IInv'
<1> DEFINE t == task[h]
<1>1. /\ Become(h, Idle) /\ faults' \in 0..MaxFaults /\ t.pc = "write"
      /\ UNCHANGED <<stored, expired, cache, confirmed, author, sent, lost, overlap, calls>>
      /\ ever' = ever \union {conv'.members}
      /\ \/ conv' = conv
         \/ conv' = [conv EXCEPT !.members = MembersAfter(t), !.roles = RolesAfter(t)]
  BY BoundsAssumption DEF WriteErrs, Fault, Leave, Redis, IInv, TypeOK
<1>2. t \in Task /\ t.msg = None
  BY <1>1, HandlerFacts DEF TaskInv, Posting
<1>3. /\ conv' \in [members: SUBSET Users, roles: [Users -> Roles \union {"none"}],
                    last: MsgId]
      /\ conv'.last = conv.last /\ RolesMatchMembers'
  <2>1. CASE conv' = conv
    BY <2>1 DEF IInv, TypeOK, RolesMatchMembers
  <2>2. CASE conv' = [conv EXCEPT !.members = MembersAfter(t), !.roles = RolesAfter(t)]
    BY <2>2, <1>2, ChangeAgrees DEF IInv, TypeOK, RolesMatchMembers
  <2> QED BY <1>1, <2>1, <2>2
<1>4. TaskInv(Idle, ever', author, lost)
  BY DEF TaskInv, Idle, Posting
<1> QED BY <1>1, <1>2, <1>3, <1>4, IdleFine, HandlerFacts, DocumentStep

LEMMA CrashStep ==
  ASSUME IInv, Crash PROVE IInv'
<1>1. /\ task' = [h \in Handlers |-> Idle] /\ faults' \in 0..MaxFaults
      /\ lost' = lost \union ({task[h].msg : h \in Handlers} \ {None})
      /\ UNCHANGED <<conv, stored, expired, ever, author, cache, confirmed, sent, overlap,
                     calls>>
  BY BoundsAssumption DEF Crash, Fault, Redis, IInv, TypeOK
<1>2. \A h \in Handlers : task[h].msg \in MsgId
  BY DEF IInv, TypeOK, Task
<1>3. Grows
  BY <1>1 DEF Grows
<1>4. Known \subseteq Known'
  BY <1>1 DEF Known
<1>5. TypeOK'
  BY <1>1, <1>2, IdleFine DEF IInv, TypeOK, MsgId
<1>6. TasksInv' /\ HeldIsKnown'
  <2>1. TaskInv(Idle, ever', author', lost')
    BY <1>3, IdleFine, TaskInvKeeps
  <2> QED BY <1>1, <1>4, <2>1, IdleFine DEF TasksInv, HeldIsKnown
<1>7. EntriesAreKnown' /\ MembersOnRecord' /\ RolesMatchMembers' /\ CachedWasReal'
  BY <1>1, <1>4 DEF IInv, EntriesAreKnown, MembersOnRecord, RolesMatchMembers, CachedWasReal
<1>8. SentToMembers'
  BY <1>1, <1>3, SentKeeps DEF IInv
<1> QED BY <1>5, <1>6, <1>7, <1>8 DEF IInv

LEMMA ExpireStep ==
  ASSUME IInv,
         \/ \E k \in Keys : ExpireEntry(k)
         \/ \E u \in Users : ExpireConfirm(u)
         \/ \E m \in MsgIds : ExpireMessage(m)
  PROVE  IInv'
<1>1. /\ UNCHANGED <<conv, stored, ever, author, lost, task, sent, overlap, calls, faults>>
      /\ confirmed' \subseteq confirmed /\ expired' \subseteq stored
  BY DEF ExpireEntry, ExpireConfirm, ExpireMessage, Collection, Store, Redis, Rest, IInv,
     TypeOK
<1>2. /\ cache' \in [Keys -> Value \union {Miss}]
      /\ \A k \in Keys : cache'[k] = cache[k] \/ cache'[k] = Miss
  BY DEF ExpireEntry, ExpireConfirm, ExpireMessage, Redis, IInv, TypeOK
<1>3. TypeOK'
  BY <1>1, <1>2 DEF IInv, TypeOK
<1>4. TasksInv' /\ HeldIsKnown' /\ EntriesAreKnown'
  BY <1>1, <1>2 DEF IInv, TasksInv, HeldIsKnown, EntriesAreKnown, Known
<1>5. MembersOnRecord' /\ RolesMatchMembers' /\ CachedWasReal' /\ SentToMembers'
  BY <1>1, <1>2
     DEF IInv, MembersOnRecord, RolesMatchMembers, CachedWasReal, SentToMembers
<1> QED BY <1>3, <1>4, <1>5 DEF IInv

-------------------------------------------------------------------------------
(* The invariant is inductive *)

LEMMA InitInv == ASSUME Init PROVE IInv
<1>1. TypeOK
  <2>1. conv \in [members: SUBSET Users, roles: [Users -> Roles \union {"none"}],
                  last: MsgId]
    BY UsersAssumption DEF Init, Roles, MsgId
  <2>2. task \in [Handlers -> Task]
    BY IdleFine DEF Init
  <2>3. cache \in [Keys -> Value \union {Miss}] /\ ever \subseteq SUBSET Users
    BY UsersAssumption DEF Init
  <2>4. overlap \in BOOLEAN
    BY Zenon DEF Init
  <2>5. /\ stored = {} /\ expired = {} /\ confirmed = {} /\ lost = {}
        /\ sent = [m \in MsgIds |-> {None}] /\ author = [m \in MsgIds |-> None]
        /\ calls = 0 /\ faults = 0
    BY DEF Init
  <2> QED BY <2>1, <2>2, <2>3, <2>4, <2>5, BoundsAssumption DEF TypeOK
<1>2. TasksInv /\ HeldIsKnown /\ EntriesAreKnown
  BY IdleFine DEF Init, TasksInv, HeldIsKnown, EntriesAreKnown, Known
<1>3. MembersOnRecord /\ RolesMatchMembers /\ CachedWasReal /\ SentToMembers
  BY UsersAssumption
     DEF Init, MembersOnRecord, RolesMatchMembers, CachedWasReal, SentToMembers
<1> QED BY <1>1, <1>2, <1>3 DEF IInv

LEMMA NextInv == ASSUME IInv, [Next]_vars PROVE IInv'
<1>1. CASE UNCHANGED vars
  <2>1. UNCHANGED <<conv, stored, expired, cache, confirmed, task, sent, ever, author, lost,
                    overlap, calls, faults>>
    BY <1>1 DEF vars
  <2>2. TypeOK' /\ TasksInv' /\ HeldIsKnown' /\ EntriesAreKnown'
    BY <2>1 DEF IInv, TypeOK, TasksInv, HeldIsKnown, EntriesAreKnown, Known
  <2>3. MembersOnRecord' /\ RolesMatchMembers' /\ CachedWasReal' /\ SentToMembers'
    BY <2>1 DEF IInv, MembersOnRecord, RolesMatchMembers, CachedWasReal, SentToMembers
  <2> QED BY <2>2, <2>3 DEF IInv
<1>2. ASSUME NEW h \in Handlers, Step(h) PROVE IInv'
  BY <1>2, ReadConfirmStep, CheckPermissionStep, SetConfirmStep, CacheHitStep,
     CacheMissStep, ReadConversationStep, FillCacheStep, WriteMembersStep,
     PopulateStep, RefreshStep, MergeIntoCacheStep, HookWritesLastStep,
     HookReadsCacheStep, HookWritesCacheStep, HookEndsStep, InsertStep DEF Step
<1>3. ASSUME NEW h \in Handlers,
             \/ Begin(h) \/ ReadErrs(h) \/ CacheErrs(h) \/ WriteErrs(h)
             \/ HookErrs(h) \/ InsertErrs(h) \/ \E u \in Users : BeginPost(h, u)
      PROVE  IInv'
  BY <1>3, BeginStep, ReadErrsStep, CacheErrsStep, WriteErrsStep, HookErrsStep, InsertStep,
     BeginPostStep
<1>4. CASE \/ \E k \in Keys : ExpireEntry(k)
           \/ \E u \in Users : ExpireConfirm(u)
           \/ \E m \in MsgIds : ExpireMessage(m)
           \/ Crash
  BY <1>4, ExpireStep, CrashStep
<1> QED BY <1>1, <1>2, <1>3, <1>4 DEF Next

THEOREM Invariant == Spec => []IInv
<1> QED BY InitInv, NextInv, PTL DEF Spec

-------------------------------------------------------------------------------
(* What it gives *)

(* The variables keep their types, whatever fails and whatever expires.    *)
THEOREM Types == Spec => []TypeOK
<1>1. IInv => TypeOK
  BY DEF IInv
<1> QED BY Invariant, <1>1, PTL

(* The members and the roles of a conversation name the same people, for   *)
(* every interleaving of additions, removals and leaves.                   *)
THEOREM MembersAndRoles == Spec => []RolesMatchMembers
<1>1. IInv => RolesMatchMembers
  BY DEF IInv
<1> QED BY Invariant, <1>1, PTL

(* A cached conversation has members that the document really had.         *)
THEOREM CachedMembers == Spec => []CachedWasReal
<1>1. IInv => CachedWasReal
  BY DEF IInv
<1> QED BY Invariant, <1>1, PTL

(* A message is announced to the other members of one state of the group.  *)
THEOREM Announced == Spec => []SentToMembers
<1>1. IInv => SentToMembers
  BY DEF IInv
<1> QED BY Invariant, <1>1, PTL

(* A lastMessage, of the document or of an entry, names a message that is  *)
(* stored or was until it expired, is being stored, or failed to be.       *)
THEOREM LastMessages == Spec => []LastIsAccounted
<1>1. IInv => LastIsAccounted
  BY DEF IInv, EntriesAreKnown, LastIsAccounted, Known, Collection
<1> QED BY Invariant, <1>1, PTL

-------------------------------------------------------------------------------
(* Refinement of GroupRecord *)

(* What the mapping of a message's fate relies on: au, st and lo are       *)
(* author, stored and lost.                                                *)
RecordTask(t, au, st, lo) ==
    /\ t.pc \in {"save", "insert"} => t.msg \notin st \union lo
    /\ "database" \in t.todo => t.pc \in {"save", "abort"}
    /\ t.pc = "write" => Valid(t, t.snap)
    /\ t.msg # None => au[t.msg] # None
    /\ t.pc # "idle" => t.op # "none"
    /\ t.op \in {"remove", "leave"} => \E u \in Users : t.targets = {u}

OneSaver ==
    \A g, h \in Handlers : g # h /\ task[g].msg # None => task[g].msg # task[h].msg

RecordInv ==
    /\ IInv
    /\ \A h \in Handlers : RecordTask(task[h], author, stored, lost)
    /\ OneSaver
    /\ \A m \in stored \union lost : author[m] # None
    /\ \A m \in MsgIds : author[m] # None =>
          m \in stored \union lost \union {task[h].msg : h \in Handlers}

SameCall(T, t) == T.msg = t.msg /\ T.op = t.op /\ T.targets = t.targets

RecordVars == <<conv, ever, stored, expired, sent>>

LEMMA RecordFacts ==
  ASSUME RecordInv, NEW h \in Handlers
  PROVE  /\ task \in [Handlers -> Task] /\ task[h] \in Task
         /\ TaskInv(task[h], ever, author, lost)
         /\ RecordTask(task[h], author, stored, lost)
         /\ None \notin MsgIds /\ task[h].msg \in MsgIds \union {None}
         /\ author \in [MsgIds -> Users \union {None}] /\ None \notin Users
         /\ stored \subseteq MsgIds /\ lost \subseteq MsgIds /\ expired \subseteq stored
  BY NoneAssumption DEF RecordInv, IInv, TypeOK, TasksInv, Task, MsgId

(* The invariant after a step of h, which may take a fresh id, store its   *)
(* message or lose it.                                                     *)
LEMMA RecordStep ==
  ASSUME RecordInv, IInv', NEW h \in Handlers, NEW T \in Task, Become(h, T),
         \A m \in MsgIds : author[m] # None => author'[m] # None,
         RecordTask(T, author', stored', lost'),
         T.msg \in {None, task[h].msg} \/ author[T.msg] = None,
         task[h].msg \in stored' \union lost' \union {T.msg, None},
         stored \subseteq stored', lost \subseteq lost',
         \A m \in MsgIds \ {T.msg} : author'[m] = author[m],
         stored' \subseteq stored \union {task[h].msg},
         lost' \subseteq lost \union {task[h].msg}
  PROVE  RecordInv'
<1>1. /\ task \in [Handlers -> Task] /\ task'[h] = T
      /\ \A g \in Handlers \ {h} : task'[g] = task[g]
  BY RecordFacts DEF Become
<1>2. \A g \in Handlers \ {h} : task[g].msg # None => task[g].msg # task[h].msg
  BY DEF RecordInv, OneSaver
<1>3. ASSUME NEW g \in Handlers PROVE RecordTask(task'[g], author', stored', lost')
  <2>1. CASE g = h
    BY <1>1, <2>1
  <2>2. CASE g # h
    <3>1. task[g].pc \in {"save", "insert"} => task[g].msg \in MsgIds
      BY RecordFacts DEF TaskInv, Posting
    <3> QED BY <1>1, <1>2, <2>2, <3>1, RecordFacts DEF RecordTask
  <2> QED BY <2>1, <2>2
<1>4. OneSaver'
  <2> SUFFICES ASSUME NEW f \in Handlers, NEW g \in Handlers, f # g, task'[f].msg # None
               PROVE  task'[f].msg # task'[g].msg
    BY DEF OneSaver
  <2>1. \A k \in Handlers : task[k].msg # None => author[task[k].msg] # None
    BY RecordFacts DEF RecordTask
  <2> QED BY <1>1, <1>2, <2>1 DEF RecordInv, OneSaver
<1>5. \A m \in stored' \union lost' : author'[m] # None
  <2>1. stored' \union lost' \subseteq MsgIds
    BY DEF IInv, TypeOK
  <2>2. \A m \in stored \union lost : author[m] # None
    BY DEF RecordInv
  <2>3. task[h].msg # None => author[task[h].msg] # None
    BY RecordFacts DEF RecordTask
  <2> QED BY <2>1, <2>2, <2>3, RecordFacts
<1>6. ASSUME NEW m \in MsgIds, author'[m] # None
      PROVE  m \in (stored \union lost \union {task[g].msg : g \in Handlers})'
  <2>1. CASE m = T.msg
    BY <1>1, <2>1
  <2>2. CASE m # T.msg
    <3>1. m \in stored \union lost \union {task[g].msg : g \in Handlers}
      BY <1>6, <2>2 DEF RecordInv
    <3> QED BY <1>1, <2>2, <3>1, NoneAssumption
  <2> QED BY <2>1, <2>2
<1> QED BY <1>3, <1>4, <1>5, <1>6 DEF RecordInv

(* Nothing happens to the messages other than m.                           *)
LEMMA OthersKeepFate ==
  ASSUME RecordInv, NEW h \in Handlers, NEW T \in Task, Become(h, T), NEW m,
         task[h].msg \in {m, None}, T.msg \in {m, None},
         \A n \in MsgIds \ {m} : /\ author'[n] = author[n]
                                 /\ n \in stored' <=> n \in stored
                                 /\ n \in expired' <=> n \in expired
                                 /\ n \in lost' <=> n \in lost
  PROVE  \A n \in MsgIds \ {m} : Posts'[n] = Posts[n]
<1>1. /\ task \in [Handlers -> Task] /\ task'[h] = T
      /\ \A g \in Handlers \ {h} : task'[g] = task[g]
  BY RecordFacts DEF Become
<1> SUFFICES ASSUME NEW n \in MsgIds \ {m} PROVE Posts'[n] = Posts[n]
  OBVIOUS
<1>2. n \in Drafted' <=> n \in Drafted
  BY <1>1, NoneAssumption DEF Drafted
<1>3. Fate(n)' = Fate(n)
  BY <1>2 DEF Fate
<1> QED BY <1>3 DEF Posts

(* A step of h that the messages do not show.                              *)
LEMMA PostsKept ==
  ASSUME RecordInv, NEW h \in Handlers, NEW T \in Task, Become(h, T),
         UNCHANGED <<author, stored, expired, lost>>,
         T.msg \in {None, task[h].msg},
         "database" \in T.todo <=> "database" \in task[h].todo,
         T.msg = None => "database" \notin T.todo
  PROVE  Posts' = Posts
<1>1. /\ task \in [Handlers -> Task] /\ task'[h] = T
      /\ \A g \in Handlers \ {h} : task'[g] = task[g]
  BY RecordFacts DEF Become
<1>2. Drafted' = Drafted
  BY <1>1 DEF Drafted
<1>3. \A m \in MsgIds : Fate(m)' = Fate(m)
  BY <1>2 DEF Fate
<1> QED BY <1>3 DEF Posts

(* A step of h that the record does not see.                               *)
LEMMA Unseen ==
  ASSUME RecordInv, IInv', NEW h \in Handlers, NEW T \in Task, Become(h, T),
         UNCHANGED <<author, lost, RecordVars>>,
         RecordTask(T, author, stored, lost), T.msg \in {None, task[h].msg},
         task[h].msg \in stored \union lost \union {T.msg, None},
         "database" \in T.todo <=> "database" \in task[h].todo,
         T.msg = None => "database" \notin T.todo
  PROVE  RecordInv' /\ UNCHANGED Record!vars
<1>1. UNCHANGED <<conv, ever, stored, expired, sent>>
  BY DEF RecordVars
<1>2. RecordInv'
  BY <1>1, RecordStep
<1>3. Posts' = Posts
  BY <1>1, PostsKept
<1> QED BY <1>1, <1>2, <1>3 DEF Record!vars, Collection

LEMMA Becomes ==
  ASSUME RecordInv, NEW h \in Handlers, NEW T, Become(h, T)
  PROVE  task'[h] = T /\ Become(h, task'[h])
  BY RecordFacts DEF Become

LEMMA IdleUnseen ==
  ASSUME RecordInv, IInv', NEW h \in Handlers, Leave(h), "database" \notin task[h].todo,
         task[h].msg \in lost \union {None},
         UNCHANGED <<author, lost, RecordVars>>
  PROVE  RecordInv' /\ UNCHANGED Record!vars
<1>1. /\ Idle \in Task /\ Idle.msg = None /\ "database" \notin Idle.todo
      /\ RecordTask(Idle, author, stored, lost)
  BY IdleFine DEF Idle, RecordTask
<1> QED BY <1>1, Unseen DEF Leave

(* Before a call holds a message, its steps are not seen but for the write.*)
LEMMA PermissionUnseen ==
  ASSUME RecordInv, IInv', NEW h \in Handlers,
         \/ Begin(h) \/ (\E u \in Users : BeginPost(h, u))
         \/ ReadConfirm(h) \/ CheckPermission(h) \/ SetConfirm(h)
         \/ CacheMiss(h) \/ ReadErrs(h) \/ CacheErrs(h)
  PROVE  RecordInv' /\ UNCHANGED Record!vars
<1> DEFINE t == task[h]
           To(pc) == [t EXCEPT !.pc = pc]
<1>1. /\ UNCHANGED <<author, lost, RecordVars>>
      /\ t.pc \notin Posting
  BY DEF Begin, BeginChange, BeginPost, Enter, ReadConfirm, CheckPermission, SetConfirm,
     CacheMiss, ReadErrs, CacheErrs, Store, Redis, Rest, RecordVars, Posting
<1>2. t \in Task /\ t.msg = None /\ "database" \notin t.todo
  BY <1>1, RecordFacts DEF TaskInv, Posting, RecordTask
<1>3. ASSUME NEW pc \in {"check", "approve", "get", "read"}, Goto(h, pc), t.pc # "idle"
      PROVE  RecordInv' /\ UNCHANGED Record!vars
  <2>1. To(pc) \in Task /\ To(pc).msg = t.msg /\ To(pc).todo = t.todo /\ To(pc).pc = pc
        /\ To(pc).op = t.op /\ To(pc).targets = t.targets
    BY <1>2 DEF Task
  <2>2. RecordTask(To(pc), author, stored, lost)
    BY <1>1, <1>2, <1>3, <2>1, RecordFacts DEF RecordTask
  <2> QED BY <1>1, <1>2, <1>3, <2>1, <2>2, Unseen DEF Goto
<1>4. CASE \/ ReadConfirm(h) \/ CheckPermission(h) \/ SetConfirm(h) \/ CacheMiss(h)
           \/ ReadErrs(h) \/ CacheErrs(h)
  <2>1. \/ Leave(h)
        \/ t.pc # "idle" /\ \E pc \in {"check", "approve", "get", "read"} : Goto(h, pc)
    BY <1>4 DEF ReadConfirm, CheckPermission, SetConfirm, CacheMiss, ReadErrs, CacheErrs
  <2> QED BY <1>1, <1>2, <1>3, <2>1, IdleUnseen
<1>5. CASE Begin(h) \/ \E u \in Users : BeginPost(h, u)
  <2> DEFINE T == task'[h]
  <2>1. /\ Become(h, T) /\ T.msg = None /\ T.todo = {} /\ T.pc \in {"confirm", "get"}
        /\ T.op # "none"
        /\ T.op \in {"remove", "leave"} => \E u \in Users : T.targets = {u}
    <3>1. CASE Begin(h)
      <4>1. ASSUME NEW op, NEW u, NEW targets, BeginChange(h, u, op, targets)
            PROVE  /\ Become(h, T) /\ T.msg = None /\ T.todo = {} /\ T.pc = "confirm"
                   /\ T.op = op /\ T.targets = targets
        <5> DEFINE X == [Idle EXCEPT !.op = op, !.pc = "confirm", !.user = u,
                                     !.targets = targets]
        <5>1. Become(h, X)
          BY <4>1 DEF BeginChange, Enter
        <5>2. X.msg = None /\ X.todo = {} /\ X.pc = "confirm" /\ X.op = op
              /\ X.targets = targets
          BY DEF Idle
        <5> QED BY <5>1, <5>2, Becomes
      <4>2. PICK u \in Users :
              \/ \E targets \in Invites : BeginChange(h, u, "add", targets)
              \/ \E v \in Users : BeginChange(h, u, "remove", {v})
              \/ BeginChange(h, u, "leave", {u})
        BY <3>1 DEF Begin
      <4> HIDE DEF T
      <4>3. CASE \E targets \in Invites : BeginChange(h, u, "add", targets)
        BY <4>1, <4>3
      <4>4. CASE \E v \in Users : BeginChange(h, u, "remove", {v})
        BY <4>1, <4>4
      <4>5. CASE BeginChange(h, u, "leave", {u})
        BY <4>1, <4>5
      <4> QED BY <4>2, <4>3, <4>4, <4>5
    <3>2. ASSUME NEW u \in Users, BeginPost(h, u)
          PROVE  /\ Become(h, T) /\ T.msg = None /\ T.todo = {} /\ T.pc = "get"
                 /\ T.op = "post"
      <4> DEFINE X == [Idle EXCEPT !.op = "post", !.pc = "get", !.user = u]
      <4>1. Become(h, X)
        BY <3>2 DEF BeginPost, Enter
      <4>2. X.msg = None /\ X.todo = {} /\ X.pc = "get" /\ X.op = "post"
        BY DEF Idle
      <4> QED BY <4>1, <4>2, Becomes
    <3> QED BY <1>5, <3>1, <3>2
  <2>2. T \in Task
    BY DEF IInv, TypeOK
  <2>3. RecordTask(T, author, stored, lost)
    BY <2>1 DEF RecordTask
  <2> QED BY <1>1, <1>2, <2>1, <2>2, <2>3, Unseen
<1> QED BY <1>4, <1>5

LEMMA ReadUnseen ==
  ASSUME RecordInv, IInv', NEW h \in Handlers, ReadConversation(h) \/ Populate(h)
  PROVE  RecordInv' /\ UNCHANGED Record!vars
<1> DEFINE t == task[h]
<1>1. /\ UNCHANGED <<author, lost, RecordVars>> /\ t.pc \in {"read", "populate"}
  BY DEF ReadConversation, Populate, Store, Rest, RecordVars
<1>2. t \in Task /\ t.msg = None /\ "database" \notin t.todo
  BY <1>1, RecordFacts DEF TaskInv, Posting, RecordTask
<1> DEFINE T == task'[h]
<1>3. T \in Task
  BY DEF IInv, TypeOK
<1>4. /\ Become(h, T) /\ SameCall(T, t) /\ T.todo = t.todo
      /\ T.pc \in {"populate", "fill", "refresh"}
  <2>1. CASE ReadConversation(h)
    <3> DEFINE X == [t EXCEPT !.snap = [members |-> conv.members, last |-> conv.last],
                              !.pc = IF t.op = "post" THEN "populate" ELSE "fill"]
    <3>1. Become(h, X)
      BY <2>1 DEF ReadConversation
    <3>2. SameCall(X, t) /\ X.todo = t.todo /\ X.pc \in {"populate", "fill"}
      BY <1>2 DEF Task, SameCall
    <3> QED BY <3>1, <3>2, Becomes
  <2>2. CASE Populate(h)
    <3> DEFINE X == [t EXCEPT !.snap.last = Populated(@), !.key = "conversation",
                              !.pc = IF t.op = "post" THEN "fill" ELSE "refresh"]
    <3>1. Become(h, X)
      BY <2>2 DEF Populate
    <3>2. SameCall(X, t) /\ X.todo = t.todo /\ X.pc \in {"fill", "refresh"}
      BY <1>2 DEF Task, SameCall
    <3> QED BY <3>1, <3>2, Becomes
  <2> QED BY <2>1, <2>2
<1>6. RecordTask(T, author, stored, lost)
  BY <1>1, <1>2, <1>4, RecordFacts DEF RecordTask, SameCall
<1> QED BY <1>1, <1>2, <1>3, <1>4, <1>6, Unseen DEF SameCall

LEMMA RefreshUnseen ==
  ASSUME RecordInv, IInv', NEW h \in Handlers,
         RefreshFinds(h) \/ RefreshMisses(h) \/ MergeIntoCache(h)
  PROVE  RecordInv' /\ UNCHANGED Record!vars
<1> DEFINE t == task[h]
<1>1. /\ UNCHANGED <<author, lost, RecordVars>> /\ t.pc \in {"refresh", "merge"}
  BY DEF RefreshFinds, RefreshMisses, MergeIntoCache, Store, Rest, RecordVars
<1>2. t \in Task /\ t.msg = None /\ "database" \notin t.todo
  BY <1>1, RecordFacts DEF TaskInv, Posting, RecordTask
<1> DEFINE T == task'[h]
<1>3. T \in Task
  BY DEF IInv, TypeOK
<1>4. CASE Leave(h)
  BY <1>1, <1>2, <1>4, IdleUnseen
<1>5. CASE ~Leave(h)
  <2>1. /\ Become(h, T) /\ SameCall(T, t) /\ T.todo = t.todo
        /\ T.pc \in {"refresh", "merge"}
    <3>1. CASE RefreshFinds(h)
      <4> DEFINE X == [t EXCEPT !.pc = "merge", !.old = cache[t.key]]
      <4>1. Become(h, X)
        BY <3>1 DEF RefreshFinds
      <4>2. SameCall(X, t) /\ X.todo = t.todo /\ X.pc = "merge"
        BY <1>2 DEF Task, SameCall
      <4> QED BY <4>1, <4>2, Becomes
    <3>2. CASE NextKey(h)
      <4> DEFINE X == [t EXCEPT !.pc = "refresh", !.key = "message"]
      <4>1. Become(h, X)
        BY <1>5, <3>2 DEF NextKey
      <4>2. SameCall(X, t) /\ X.todo = t.todo /\ X.pc = "refresh"
        BY <1>2 DEF Task, SameCall
      <4> QED BY <4>1, <4>2, Becomes
    <3> QED BY <3>1, <3>2 DEF RefreshMisses, MergeIntoCache
  <2>2. RecordTask(T, author, stored, lost)
    BY <1>1, <1>2, <2>1, RecordFacts DEF RecordTask, SameCall
  <2> QED BY <1>1, <1>2, <1>3, <2>1, <2>2, Unseen DEF SameCall
<1> QED BY <1>4, <1>5

(* The cache half of the hook, and its end.                                *)
LEMMA HookUnseen ==
  ASSUME RecordInv, IInv', NEW h \in Handlers,
         HookReadsCache(h) \/ HookWritesCache(h) \/ HookEnds(h)
  PROVE  RecordInv' /\ UNCHANGED Record!vars
<1> DEFINE t == task[h]
<1>1. /\ UNCHANGED <<author, lost, RecordVars>> /\ t.pc \in {"save", "abort"}
  BY DEF HookReadsCache, HookWritesCache, HookEnds, Store, Rest, RecordVars
<1>2. /\ t \in Task /\ t.msg # None /\ RecordTask(t, author, stored, lost)
      /\ task'[h] \in Task /\ task \in [Handlers -> Task]
  <2>1. task'[h] \in Task
    BY DEF IInv, TypeOK
  <2> QED BY <1>1, <2>1, RecordFacts DEF TaskInv, Posting
<1>3. CASE HookReadsCache(h) \/ HookWritesCache(h)
  <2> DEFINE T == task'[h]
  <2>1. /\ Become(h, T) /\ SameCall(T, t) /\ T.pc = t.pc
        /\ "database" \in T.todo <=> "database" \in t.todo
    <3>1. CASE HookReadsCache(h)
      <4> DEFINE A == [t EXCEPT !.todo = @ \ {"get"}]
                 B == [t EXCEPT !.todo = (@ \ {"get"}) \union {"set"},
                                !.old = cache["message"]]
      <4>1. Become(h, A) \/ Become(h, B)
        BY <3>1 DEF HookReadsCache
      <4>2. /\ SameCall(A, t) /\ A.pc = t.pc /\ A.todo = t.todo \ {"get"}
            /\ SameCall(B, t) /\ B.pc = t.pc /\ B.todo = (t.todo \ {"get"}) \union {"set"}
        BY <1>2 DEF Task, SameCall
      <4> QED BY <4>1, <4>2, Becomes
    <3>2. CASE HookWritesCache(h)
      <4> DEFINE X == [t EXCEPT !.todo = @ \ {"set"}]
      <4>1. Become(h, X)
        BY <3>2 DEF HookWritesCache
      <4>2. SameCall(X, t) /\ X.pc = t.pc /\ X.todo = t.todo \ {"set"}
        BY <1>2 DEF Task, SameCall
      <4> QED BY <4>1, <4>2, Becomes
    <3> QED BY <1>3, <3>1, <3>2
  <2>2. T \in Task
    BY <1>2
  <2>3. RecordTask(T, author, stored, lost)
    BY <1>1, <1>2, <2>1 DEF RecordTask, SameCall
  <2> QED BY <1>1, <1>2, <2>1, <2>2, <2>3, Unseen DEF SameCall
<1>4. CASE HookEnds(h) /\ t.pc = "abort"
  BY <1>1, <1>4, RecordFacts, IdleUnseen DEF HookEnds, TaskInv
<1>5. CASE HookEnds(h) /\ t.pc = "save"
  <2> DEFINE T == [t EXCEPT !.pc = "insert"]
  <2>1. T \in Task /\ SameCall(T, t) /\ T.pc = "insert" /\ T.todo = t.todo
    BY <1>2 DEF Task, SameCall
  <2>2. "database" \notin t.todo /\ Become(h, T)
    BY <1>5 DEF HookEnds, Goto
  <2>3. RecordTask(T, author, stored, lost)
    BY <1>2, <1>5, <2>1, <2>2 DEF RecordTask, SameCall
  <2> QED BY <1>1, <1>2, <2>1, <2>2, <2>3, Unseen DEF SameCall
<1> QED BY <1>1, <1>3, <1>4, <1>5

LEMMA ExpireUnseen ==
  ASSUME RecordInv, IInv',
         (\E k \in Keys : ExpireEntry(k)) \/ (\E u \in Users : ExpireConfirm(u))
  PROVE  RecordInv' /\ UNCHANGED Record!vars
<1>1. UNCHANGED <<conv, stored, expired, ever, author, lost, task, sent>>
  BY DEF ExpireEntry, ExpireConfirm, Store, Rest
<1>2. RecordInv'
  BY <1>1 DEF RecordInv, OneSaver
<1>3. Posts' = Posts
  <2>1. \A m \in MsgIds : Fate(m)' = Fate(m)
    BY <1>1 DEF Fate, Drafted
  <2> QED BY <1>1, <2>1 DEF Posts
<1> QED BY <1>1, <1>2, <1>3 DEF Record!vars, Collection

(* A message leaves the collection: it was announced, or its caller has    *)
(* been refused.                                                           *)
LEMMA ExpireRecorded ==
  ASSUME RecordInv, IInv', NEW m \in MsgIds, ExpireMessage(m)
  PROVE  RecordInv' /\ Record!Next
<1>1. /\ m \in stored \ expired /\ expired' = expired \union {m}
      /\ UNCHANGED <<conv, stored, ever, author, lost, task, sent>>
  BY DEF ExpireMessage, Collection, Rest
<1>2. RecordInv'
  BY <1>1 DEF RecordInv, OneSaver
<1>3. Collection' = Collection \ {m} /\ m \in Collection
  BY <1>1 DEF Collection
<1>4. /\ \A n \in MsgIds \ {m} : Fate(n)' = Fate(n)
      /\ Fate(m)' = IF Fate(m) = "kept" THEN "expired" ELSE Fate(m)
  <2>1. Drafted' = Drafted
    BY <1>1 DEF Drafted
  <2>2. author[m] # None
    BY <1>1 DEF RecordInv
  <2> QED BY <1>1, <2>1, <2>2 DEF Fate
<1>5. \A n \in MsgIds : /\ Posts[n] = [by |-> author[n], fate |-> Fate(n)]
                        /\ Posts'[n] = [by |-> author[n], fate |-> Fate(n)']
  BY <1>1 DEF Posts
<1>6. IF Posts[m].fate = "kept" THEN Posts' = [Posts EXCEPT ![m].fate = "expired"]
      ELSE Posts' = Posts
  BY <1>4, <1>5 DEF Posts
<1>7. Record!Expire(m)
  BY <1>1, <1>3, <1>6 DEF Record!Expire, Record!Goes, Record!group
<1> QED BY <1>2, <1>7 DEF Record!Next

LEMMA PostIsDraft ==
  ASSUME RecordInv, IInv', NEW h \in Handlers, NEW T \in Task, Become(h, T),
         NEW m \in MsgIds, NEW u \in Users, u \in UNION ever,
         Fresh(m), author' = [author EXCEPT ![m] = u], task[h].msg = None,
         T.msg = m, T.pc = "save", "database" \in T.todo, T.op = "post",
         UNCHANGED <<lost, RecordVars>>
  PROVE  RecordInv' /\ Record!Draft(m, u)
<1>1. UNCHANGED <<conv, ever, stored, expired, sent, lost>>
  BY DEF RecordVars
<1>2. /\ author'[m] = u /\ u # None /\ author[m] = None
      /\ \A n \in MsgIds \ {m} : author'[n] = author[n]
  BY RecordFacts DEF Fresh
<1>3. m \notin stored \union lost
  BY <1>2 DEF RecordInv
<1>4. RecordTask(T, author', stored', lost')
  BY <1>1, <1>2, <1>3 DEF RecordTask
<1>5. RecordInv'
  BY <1>1, <1>2, <1>4, RecordStep
<1>6. \A n \in MsgIds \ {m} : Posts'[n] = Posts[n]
  BY <1>1, <1>2, OthersKeepFate
<1>7. Fate(m) = "none" /\ Fate(m)' = "drafted"
  <2>1. m \in Drafted'
    BY RecordFacts DEF Drafted, Become
  <2> QED BY <1>1, <1>2, <1>3, <2>1 DEF Fate
<1>8. Posts' = [Posts EXCEPT ![m] = [by |-> u, fate |-> "drafted"]]
  BY <1>2, <1>6, <1>7 DEF Posts
<1>9. Posts[m].fate = "none"
  BY <1>7 DEF Posts
<1> QED BY <1>1, <1>5, <1>8, <1>9 DEF Record!Draft, Record!group, Collection

(* What ModelCache's caller does with the conversation it is given.        *)
LEMMA ContinueRecorded ==
  ASSUME RecordInv, IInv', NEW h \in Handlers, NEW snap \in Value, snap.members \in ever,
         task[h].pc \in {"get", "fill"}, Continue(h, snap), UNCHANGED <<lost, RecordVars>>
  PROVE  RecordInv' /\ [Record!Next]_Record!vars
<1> DEFINE t == task[h]
           s == [t EXCEPT !.snap = snap]
           W == [s EXCEPT !.pc = "write"]
           S(m) == [s EXCEPT !.pc = "save", !.msg = m, !.todo = {"database", "get"}]
<1>1. /\ t \in Task /\ t.msg = None /\ t.op # "none" /\ "database" \notin t.todo
      /\ t.op \in {"remove", "leave"} => \E u \in Users : t.targets = {u}
      /\ t.user \in Users
  BY RecordFacts DEF TaskInv, RecordTask, Posting
<1>2. CASE Leave(h) /\ UNCHANGED author
  BY <1>1, <1>2, IdleUnseen
<1>3. CASE Valid(s, snap) /\ s.op # "post" /\ UNCHANGED author /\ Become(h, W)
  <2>1. /\ W \in Task /\ W.snap = snap /\ W.pc = "write" /\ W.todo = t.todo
        /\ SameCall(W, t) /\ W.user = s.user /\ W.op = s.op /\ W.targets = s.targets
    BY <1>1 DEF Task, SameCall
  <2>2. Valid(W, W.snap)
    BY <1>3, <2>1 DEF Valid, MayPost
  <2>3. RecordTask(W, author, stored, lost)
    BY <1>1, <2>1, <2>2 DEF RecordTask, SameCall
  <2> QED BY <1>1, <1>3, <2>1, <2>3, Unseen DEF SameCall
<1>4. ASSUME Valid(s, snap), s.op = "post", NEW m \in MsgIds, Fresh(m),
             author' = [author EXCEPT ![m] = s.user], Become(h, S(m))
      PROVE  RecordInv' /\ [Record!Next]_Record!vars
  <2>1. s.user = t.user /\ s.user \in snap.members
    BY <1>1, <1>4 DEF Valid, MayPost, Task
  <2>2. /\ S(m) \in Task /\ S(m).msg = m /\ S(m).pc = "save" /\ S(m).op = "post"
        /\ S(m).todo = {"database", "get"}
    BY <1>1, <1>4 DEF Task, MsgId
  <2>3. RecordInv' /\ Record!Draft(m, s.user)
    BY <1>1, <1>4, <2>1, <2>2, PostIsDraft
  <2> QED BY <1>1, <2>1, <2>3 DEF Record!Next
<1> QED BY <1>2, <1>3, <1>4 DEF Continue

LEMMA CacheRecorded ==
  ASSUME RecordInv, IInv', NEW h \in Handlers, CacheHit(h) \/ FillCache(h)
  PROVE  RecordInv' /\ [Record!Next]_Record!vars
<1> DEFINE k == NeedsKey(task[h].op)
<1>1. UNCHANGED <<lost, RecordVars>>
  BY DEF CacheHit, FillCache, Rest, RecordVars
<1>2. IInv /\ k \in Keys
  BY DEF RecordInv, NeedsKey, Keys
<1>3. CASE CacheHit(h)
  <2>1. cache[k] # Miss /\ task[h].pc = "get" /\ Continue(h, cache[k])
    BY <1>3 DEF CacheHit
  <2> QED BY <1>1, <1>2, <2>1, EntryFacts, ContinueRecorded
<1>4. CASE FillCache(h)
  <2>1. task[h].pc = "fill" /\ Continue(h, task[h].snap)
    BY <1>4 DEF FillCache
  <2>2. task[h].snap \in Value /\ task[h].snap.members \in ever
    BY <2>1, RecordFacts DEF Task, TaskInv, Posting
  <2> QED BY <1>1, <2>1, <2>2, ContinueRecorded
<1> QED BY <1>3, <1>4

(* A change of members that was found valid on a list of some time ago.    *)
LEMMA ChangeIsRecorded ==
  ASSUME RecordInv, NEW h \in Handlers, task[h].pc = "write",
         conv' = [conv EXCEPT !.members = MembersAfter(task[h]),
                              !.roles = RolesAfter(task[h])],
         ever' = ever \union {conv'.members}, UNCHANGED <<Collection, sent, Posts>>
  PROVE  Record!Next
<1> DEFINE t == task[h]
           P == t.snap.members
<1>1. /\ t \in Task /\ P \in ever /\ Valid(t, t.snap) /\ t.op \in Changes
      /\ t.op \in {"remove", "leave"} => \E u \in Users : t.targets = {u}
      /\ t.targets \in SUBSET Users
  BY RecordFacts DEF TaskInv, RecordTask, Posting, Task
<1>2. /\ conv'.members = MembersAfter(t) /\ conv'.roles = RolesAfter(t)
      /\ conv'.last = conv.last
  BY DEF RecordInv, IInv, TypeOK
<1>3. CASE t.op = "add"
  <2>1. ~(t.targets \subseteq P) /\ P \union t.targets \subseteq Registered
    BY <1>1, <1>3 DEF Valid
  <2>2. Record!Become(t.targets, "Member")
    BY <1>2, <1>3 DEF Record!Become, Record!messages, MembersAfter, RolesAfter
  <2> QED BY <1>1, <2>1, <2>2 DEF Record!Next, Record!Add
<1>4. CASE t.op # "add"
  <2>1. PICK u \in Users : t.targets = {u}
    BY <1>1, <1>4 DEF Changes
  <2>2. u \in P /\ P \subseteq Registered
    BY <1>1, <1>4, <2>1 DEF Valid, Changes
  <2>3. Record!Become({u}, "none")
    BY <1>2, <1>4, <2>1 DEF Record!Become, Record!messages, MembersAfter, RolesAfter
  <2> QED BY <1>1, <2>2, <2>3 DEF Record!Next, Record!Remove
<1> QED BY <1>3, <1>4

LEMMA WriteRecorded ==
  ASSUME RecordInv, IInv', NEW h \in Handlers, WriteMembers(h) \/ WriteErrs(h)
  PROVE  RecordInv' /\ [Record!Next]_Record!vars
<1> DEFINE t == task[h]
           T == task'[h]
<1>1. /\ t.pc = "write" /\ UNCHANGED <<stored, expired, sent, author, lost>>
      /\ ever' = ever \union {conv'.members} /\ Collection' = Collection
  BY DEF WriteMembers, WriteErrs, Rest, Collection
<1>2. /\ t \in Task /\ t.msg = None /\ "database" \notin t.todo
      /\ t.op # "none"
      /\ t.op \in {"remove", "leave"} => \E u \in Users : t.targets = {u}
  BY <1>1, RecordFacts DEF TaskInv, Posting, RecordTask
<1>3. /\ T \in Task /\ Become(h, T) /\ T.msg = None /\ "database" \notin T.todo
      /\ RecordTask(T, author, stored, lost)
  <2>1. T \in Task
    BY DEF IInv, TypeOK
  <2>2. CASE WriteMembers(h)
    <3> DEFINE X == [t EXCEPT !.pc = "populate",
                              !.snap = [members |-> conv'.members, last |-> conv.last]]
    <3>1. Become(h, X)
      BY <2>2 DEF WriteMembers
    <3>2. SameCall(X, t) /\ X.todo = t.todo /\ X.pc = "populate"
      BY <1>2 DEF Task, SameCall
    <3> HIDE DEF X
    <3>3. RecordTask(X, author, stored, lost)
      BY <1>2, <3>2 DEF RecordTask, SameCall
    <3> QED BY <1>2, <2>1, <3>1, <3>2, <3>3, Becomes DEF SameCall
  <2>3. CASE WriteErrs(h)
    <3>1. Become(h, Idle)
      BY <2>3 DEF WriteErrs, Leave
    <3>2. Idle.msg = None /\ Idle.todo = {} /\ RecordTask(Idle, author, stored, lost)
      BY DEF Idle, RecordTask
    <3> QED BY <2>1, <3>1, <3>2, Becomes
  <2> QED BY <2>2, <2>3
<1>4. RecordInv'
  BY <1>1, <1>2, <1>3, RecordStep
<1>5. Posts' = Posts
  BY <1>1, <1>2, <1>3, PostsKept
<1>6. CASE conv' = conv
  <2>1. ever' = ever
    BY <1>1, <1>6 DEF RecordInv, IInv, MembersOnRecord
  <2> QED BY <1>1, <1>4, <1>5, <1>6, <2>1 DEF Record!vars
<1>7. CASE conv' = [conv EXCEPT !.members = MembersAfter(t), !.roles = RolesAfter(t)]
  BY <1>1, <1>4, <1>5, <1>7, ChangeIsRecorded
<1> QED BY <1>4, <1>6, <1>7 DEF WriteMembers, WriteErrs

-------------------------------------------------------------------------------
(* The steps of a message *)

(* A message being saved is in the hands of one handler: what becomes of   *)
(* it is what that handler does.                                           *)
LEMMA SaverStep ==
  ASSUME RecordInv, NEW h \in Handlers, NEW T \in Task, Become(h, T),
         task[h].pc \in Posting, NEW m, m = task[h].msg, T.msg \in {None, m},
         UNCHANGED <<author, expired>>,
         stored' \in {stored, stored \union {m}}, lost' \in {lost, lost \union {m}}
  PROVE  /\ Posts' = [Posts EXCEPT ![m].fate = Fate(m)']
         /\ author[m] # None /\ author'[m] # None
         /\ m \in Drafted' <=> (T.msg = m /\ "database" \in T.todo)
<1>1. m \in MsgIds /\ author[m] # None
  BY RecordFacts DEF TaskInv, Posting, RecordTask
<1>2. \A g \in Handlers \ {h} : task[g].msg # m
  BY <1>1, RecordFacts DEF RecordInv, OneSaver
<1>3. /\ task \in [Handlers -> Task] /\ task'[h] = T
      /\ \A g \in Handlers \ {h} : task'[g] = task[g]
  BY RecordFacts DEF Become
<1>4. m \in Drafted' <=> (T.msg = m /\ "database" \in T.todo)
  BY <1>1, <1>2, <1>3 DEF Drafted
<1>5. \A n \in MsgIds \ {m} : Posts'[n] = Posts[n]
  BY <1>1, OthersKeepFate
<1>6. /\ Posts[m] = [by |-> author[m], fate |-> Fate(m)]
      /\ Posts'[m] = [by |-> author[m], fate |-> Fate(m)']
  BY <1>1 DEF Posts
<1>7. Posts' = [Posts EXCEPT ![m].fate = Fate(m)']
  BY <1>1, <1>5, <1>6 DEF Posts
<1> QED BY <1>1, <1>4, <1>7

(* What has become of it so far.                                           *)
LEMMA SaverFate ==
  ASSUME RecordInv, NEW h \in Handlers, task[h].pc \in Posting, NEW m, m = task[h].msg
  PROVE  /\ m \in MsgIds /\ Posts[m].by = author[m]
         /\ task[h].pc = "abort" =>
              /\ m \in lost
              /\ Posts[m].fate = IF "database" \in task[h].todo THEN "failing" ELSE "lost"
         /\ task[h].pc # "abort" =>
              /\ m \notin stored \union lost
              /\ Posts[m] = [by |-> task[h].user,
                             fate |-> IF "database" \in task[h].todo THEN "drafted"
                                      ELSE "leading"]
<1>1. /\ m \in MsgIds /\ author[m] # None
      /\ task[h].pc = "abort" => m \in lost
      /\ task[h].pc # "abort" => m \notin stored \union lost /\ author[m] = task[h].user
  BY RecordFacts DEF TaskInv, Posting, RecordTask
<1>2. \A g \in Handlers \ {h} : task[g].msg # m
  BY <1>1, RecordFacts DEF RecordInv, OneSaver
<1>3. m \in Drafted <=> "database" \in task[h].todo
  BY <1>1, <1>2 DEF Drafted
<1>4. Posts[m] = [by |-> author[m], fate |-> Fate(m)]
  BY <1>1 DEF Posts
<1>5. /\ task[h].pc = "abort" =>
           Fate(m) = IF "database" \in task[h].todo THEN "failing" ELSE "lost"
      /\ task[h].pc # "abort" =>
           Fate(m) = IF "database" \in task[h].todo THEN "drafted" ELSE "leading"
  BY <1>1, <1>3 DEF Fate
<1> QED BY <1>1, <1>4, <1>5

(* The write of lastMessage, before or after the other half has failed.    *)
LEMMA HookWritesRecorded ==
  ASSUME RecordInv, IInv', NEW h \in Handlers, HookWritesLast(h)
  PROVE  RecordInv' /\ Record!Next
<1> DEFINE t == task[h]
           W == [t EXCEPT !.todo = @ \ {"database"}]
<1>1. /\ t.pc \in {"save", "abort"} /\ "database" \in t.todo /\ Become(h, W)
      /\ UNCHANGED <<stored, expired, ever, author, sent, lost>>
  BY DEF HookWritesLast, Rest
<1>2. /\ t \in Task /\ t.msg \in MsgIds /\ t.msg # None
      /\ RecordTask(t, author, stored, lost)
  BY <1>1, RecordFacts DEF TaskInv, Posting
<1>0. PICK m \in MsgIds : m = t.msg
  BY <1>2
<1>3. W \in Task /\ SameCall(W, t) /\ W.pc = t.pc /\ W.todo = t.todo \ {"database"}
  BY <1>2 DEF Task, SameCall
<1> HIDE DEF W
<1>4. RecordTask(W, author', stored', lost')
  BY <1>1, <1>2, <1>3 DEF RecordTask, SameCall
<1>5. RecordInv'
  BY <1>0, <1>1, <1>3, <1>4, RecordStep DEF SameCall
<1>6. /\ Posts' = [Posts EXCEPT ![m].fate = Fate(m)'] /\ author'[m] # None
      /\ m \notin Drafted'
  <2>1. stored' \in {stored, stored \union {m}} /\ lost' \in {lost, lost \union {m}}
        /\ W.msg = m /\ t.pc \in Posting
    BY <1>0, <1>1, <1>3 DEF SameCall, Posting
  <2> QED BY <1>0, <1>1, <1>3, <2>1, SaverStep
<1>7. /\ t.pc = "abort" => m \in lost /\ Posts[m].fate = "failing"
      /\ t.pc = "save" => m \notin stored \union lost /\ Posts[m].fate = "drafted"
  <2>1. /\ t.pc = "abort" =>
             /\ m \in lost
             /\ Posts[m].fate = IF "database" \in t.todo THEN "failing" ELSE "lost"
        /\ t.pc # "abort" =>
             /\ m \notin stored \union lost
             /\ Posts[m] = [by |-> t.user, fate |-> IF "database" \in t.todo THEN "drafted"
                                                   ELSE "leading"]
    BY <1>0, <1>1, SaverFate DEF Posting
  <2> QED BY <1>1, <2>1
<1>8. /\ conv'.last = m /\ conv'.members = conv.members /\ conv'.roles = conv.roles
  BY <1>0 DEF HookWritesLast, RecordInv, IInv, TypeOK
<1>9. Collection' = Collection
  BY <1>1 DEF Collection
<1>10. CASE t.pc = "save"
  <2>1. Fate(m)' = "leading"
    BY <1>1, <1>6, <1>7, <1>10 DEF Fate
  <2>2. Record!Lead(m)
    BY <1>1, <1>6, <1>7, <1>8, <1>9, <1>10, <2>1 DEF Record!Lead, Record!Goes, Record!group
  <2> QED BY <1>5, <2>2 DEF Record!Next
<1>11. CASE t.pc = "abort"
  <2>1. Fate(m)' = "lost"
    BY <1>1, <1>6, <1>7, <1>11 DEF Fate
  <2>2. Record!FailToLead(m)
    BY <1>1, <1>6, <1>7, <1>8, <1>9, <1>11, <2>1
       DEF Record!FailToLead, Record!Goes, Record!group
  <2> QED BY <1>5, <2>2 DEF Record!Next
<1> QED BY <1>1, <1>10, <1>11

(* A half of the hook fails, first or second, applied or not.              *)
LEMMA HookErrsRecorded ==
  ASSUME RecordInv, IInv', NEW h \in Handlers, HookErrs(h)
  PROVE  RecordInv' /\ [Record!Next]_Record!vars
<1> DEFINE t == task[h]
           E(part) == [t EXCEPT !.pc = "abort", !.todo = @ \ {part}]
<1>1. /\ t.pc \in {"save", "abort"} /\ lost' = lost \union {t.msg}
      /\ UNCHANGED <<stored, expired, ever, author, sent>>
  BY DEF HookErrs
<1>2. /\ t \in Task /\ t.msg \in MsgIds /\ t.msg # None
      /\ RecordTask(t, author, stored, lost)
  BY <1>1, RecordFacts DEF TaskInv, Posting
<1>0. PICK m \in MsgIds : m = t.msg
  BY <1>2
<1>3. PICK part \in t.todo :
        /\ Become(h, E(part))
        /\ \/ conv' = conv
           \/ part = "database" /\ conv' = [conv EXCEPT !.last = t.msg]
  BY DEF HookErrs
<1>4. /\ E(part) \in Task /\ SameCall(E(part), t) /\ E(part).pc = "abort"
      /\ E(part).todo = t.todo \ {part}
  BY <1>2 DEF Task, SameCall
<1> HIDE DEF E
<1>5. RecordTask(E(part), author', stored', lost')
  BY <1>1, <1>2, <1>4 DEF RecordTask, SameCall
<1>6. RecordInv'
  BY <1>0, <1>1, <1>3, <1>4, <1>5, RecordStep DEF SameCall
<1>7. /\ Posts' = [Posts EXCEPT ![m].fate = Fate(m)'] /\ author'[m] # None
      /\ m \in Drafted' <=> "database" \in t.todo \ {part}
  <2>1. stored' \in {stored, stored \union {m}} /\ lost' \in {lost, lost \union {m}}
        /\ E(part).msg = m /\ t.pc \in Posting
    BY <1>0, <1>1, <1>4 DEF SameCall, Posting
  <2> QED BY <1>0, <1>1, <1>3, <1>4, <2>1, SaverStep
<1>8. /\ t.pc = "abort" => Posts[m].fate = IF "database" \in t.todo THEN "failing" ELSE "lost"
      /\ t.pc = "save" => Posts[m].fate = IF "database" \in t.todo THEN "drafted" ELSE "leading"
  <2>1. /\ t.pc = "abort" =>
             /\ m \in lost
             /\ Posts[m].fate = IF "database" \in t.todo THEN "failing" ELSE "lost"
        /\ t.pc # "abort" =>
             /\ m \notin stored \union lost
             /\ Posts[m] = [by |-> t.user, fate |-> IF "database" \in t.todo THEN "drafted"
                                                   ELSE "leading"]
    BY <1>0, <1>1, SaverFate DEF Posting
  <2> QED BY <1>1, <2>1
<1>9. Collection' = Collection
  BY <1>1 DEF Collection
<1>10. Fate(m)' = IF "database" \in t.todo \ {part} THEN "failing" ELSE "lost"
  BY <1>0, <1>1, <1>7 DEF Fate
<1>11. CASE part = "database"
  <2>1. /\ conv'.last \in {conv.last, m}
        /\ conv'.members = conv.members /\ conv'.roles = conv.roles
    BY <1>0, <1>3 DEF RecordInv, IInv, TypeOK
  <2>2. Posts[m].fate \in {"drafted", "failing"} /\ Fate(m)' = "lost"
    BY <1>1, <1>8, <1>10, <1>11
  <2>3. Record!FailToLead(m)
    BY <1>1, <1>7, <1>9, <2>1, <2>2 DEF Record!FailToLead, Record!Goes, Record!group
  <2> QED BY <1>6, <2>3 DEF Record!Next
<1>12. CASE part # "database" /\ t.pc = "save"
  <2>1. conv' = conv
    BY <1>3, <1>12
  <2>2. CASE "database" \in t.todo
    <3>1. Posts[m].fate = "drafted" /\ Fate(m)' = "failing"
      BY <1>8, <1>10, <1>12, <2>2
    <3>2. Record!GiveUp(m)
      BY <1>1, <1>7, <1>9, <2>1, <3>1 DEF Record!GiveUp, Record!Goes, Record!group
    <3> QED BY <1>6, <3>2 DEF Record!Next
  <2>3. CASE "database" \notin t.todo
    <3>1. Posts[m].fate = "leading" /\ Fate(m)' = "lost"
      BY <1>8, <1>10, <1>12, <2>3
    <3>2. Record!FailToKeep(m)
      BY <1>1, <1>7, <1>9, <2>1, <3>1 DEF Record!FailToKeep, Record!Goes, Record!group
    <3> QED BY <1>6, <3>2 DEF Record!Next
  <2> QED BY <2>2, <2>3
<1>13. CASE part # "database" /\ t.pc = "abort"
  <2>1. conv' = conv
    BY <1>3, <1>13
  <2>2. Fate(m)' = Posts[m].fate
    BY <1>8, <1>10, <1>13
  <2>3. Posts' = Posts
    BY <1>7, <2>2 DEF Posts
  <2> QED BY <1>1, <1>6, <1>9, <2>1, <2>3 DEF Record!vars
<1> QED BY <1>1, <1>11, <1>12, <1>13

(* The insert, done or failed.                                             *)
LEMMA InsertRecorded ==
  ASSUME RecordInv, IInv', NEW h \in Handlers, InsertMessage(h) \/ InsertErrs(h)
  PROVE  RecordInv' /\ Record!Next
<1> DEFINE t == task[h]
<1>1. /\ t.pc = "insert" /\ Become(h, Idle) /\ UNCHANGED <<conv, expired, ever, author>>
  BY DEF InsertMessage, InsertErrs, Leave
<1>2. /\ t \in Task /\ t.msg \in MsgIds /\ "database" \notin t.todo /\ t.msg # None
      /\ author[t.msg] = t.user /\ t.user \in Users /\ t.user \in t.snap.members
      /\ t.snap.members \in ever
  BY <1>1, RecordFacts DEF TaskInv, Posting, RecordTask
<1>0. PICK m \in MsgIds : m = t.msg
  BY <1>2
<1>3. /\ Idle \in Task /\ Idle.msg = None
      /\ RecordTask(Idle, author', stored', lost')
  BY IdleFine DEF Idle, RecordTask
<1>4. CASE InsertMessage(h)
  <2>1. /\ stored' = stored \union {m} /\ lost' = lost
        /\ sent' = [sent EXCEPT ![m] = Recipients(t)]
    BY <1>0, <1>4 DEF InsertMessage
  <2>2. RecordInv'
    BY <1>0, <1>1, <1>3, <2>1, RecordStep
  <2>3. /\ Posts[m] = [by |-> t.user, fate |-> "leading"]
        /\ Posts' = [Posts EXCEPT ![m].fate = Fate(m)'] /\ author'[m] # None
        /\ m \notin stored \union lost
    BY <1>0, <1>1, <1>2, <1>3, <2>1, SaverStep, SaverFate DEF Posting
  <2>4. Fate(m)' = "kept"
    BY <1>1, <2>1, <2>3, RecordFacts DEF Fate
  <2>5. Posts[m].by = t.user /\ Recipients(t) = t.snap.members \ {t.user}
    BY <2>3 DEF Recipients
  <2>6. \E S \in ever : /\ Posts[m].by \in S
                         /\ sent' = [sent EXCEPT ![m] = S \ {Posts[m].by}]
    <3>1. sent' = [sent EXCEPT ![m] = t.snap.members \ {t.user}]
      BY <2>1, <2>5
    <3> QED BY <1>2, <2>5, <3>1
  <2>7. Record!Keep(m)
    <3>1. Posts' = [Posts EXCEPT ![m].fate = "kept"] /\ Posts[m].fate = "leading"
      BY <2>3, <2>4
    <3>2. Collection' = Collection \union {m} /\ UNCHANGED <<conv, ever>>
      BY <1>1, <2>1, <2>3, RecordFacts DEF Collection
    <3> QED BY <2>6, <3>1, <3>2 DEF Record!Keep, Record!Goes, Record!group
  <2> QED BY <1>2, <2>2, <2>7 DEF Record!Next
<1>5. CASE InsertErrs(h)
  <2>1. /\ stored' = stored \/ stored' = stored \union {m}
        /\ lost' = lost \union {m} /\ sent' = sent
    BY <1>0, <1>5 DEF InsertErrs
  <2>2. RecordInv'
    BY <1>0, <1>1, <1>3, <2>1, RecordStep
  <2>3. /\ Posts[m] = [by |-> t.user, fate |-> "leading"]
        /\ Posts' = [Posts EXCEPT ![m].fate = Fate(m)'] /\ author'[m] # None
        /\ m \notin stored \union lost /\ m \notin Drafted'
    BY <1>0, <1>1, <1>2, <1>3, <2>1, SaverStep, SaverFate DEF Posting
  <2>4. Fate(m)' = "lost"
    BY <2>1, <2>3 DEF Fate
  <2>5. Collection' \in {Collection, Collection \union {m}}
    BY <1>1, <2>1, <2>3, RecordFacts DEF Collection
  <2>6. Record!FailToKeep(m)
    BY <1>1, <2>1, <2>3, <2>4, <2>5 DEF Record!FailToKeep, Record!Goes, Record!group
  <2> QED BY <1>2, <2>2, <2>6 DEF Record!Next
<1> QED BY <1>4, <1>5

(* A crash loses what a handler holds and nothing else.                    *)
LEMMA CrashRecorded ==
  ASSUME RecordInv, IInv', Crash
  PROVE  RecordInv' /\ Record!Next
<1> DEFINE Held == {task[h].msg : h \in Handlers}
<1>1. /\ task' = [h \in Handlers |-> Idle] /\ lost' = lost \union (Held \ {None})
      /\ UNCHANGED <<conv, stored, expired, ever, author, sent>>
  BY DEF Crash
<1>2. /\ Idle.msg = None /\ Idle.todo = {}
      /\ RecordTask(Idle, author', stored', lost')
  BY DEF Idle, RecordTask
<1>3. ASSUME NEW h \in Handlers, task[h].msg # None
      PROVE  /\ author[task[h].msg] # None
             /\ task[h].msg \in lost \/ task[h].msg \notin stored
  BY <1>3, RecordFacts DEF RecordTask, TaskInv, Posting
<1>4. RecordInv'
  <2>1. \A h \in Handlers : task'[h] = Idle
    BY <1>1
  <2>2. \A h \in Handlers : RecordTask(task[h], author, stored, lost)'
    BY <1>2, <2>1
  <2>3. OneSaver'
    BY <1>2, <2>1 DEF OneSaver
  <2>4. \A m \in stored \union lost \union (Held \ {None}) : author[m] # None
    BY <1>3 DEF RecordInv
  <2>5. \A m \in MsgIds : author[m] # None => m \in stored \union lost \union Held
    BY DEF RecordInv
  <2> QED BY <1>1, <2>2, <2>3, <2>4, <2>5, NoneAssumption DEF RecordInv
<1>5. Drafted' = {}
  BY <1>1, <1>2 DEF Drafted
<1>6. ASSUME NEW m \in MsgIds
      PROVE  Fate(m)' = IF Fate(m) \in {"drafted", "leading", "failing"} THEN "lost"
                        ELSE Fate(m)
  <2>1. CASE author[m] = None
    BY <1>1, <2>1 DEF Fate
  <2>2. CASE author[m] # None /\ m \in lost
    BY <1>1, <1>5, <2>2 DEF Fate
  <2>3. CASE author[m] # None /\ m \in stored \ lost
    <3>1. m \notin lost'
      BY <1>1, <1>3, <2>3
    <3> QED BY <1>1, <2>3, <3>1 DEF Fate
  <2>4. CASE author[m] # None /\ m \notin stored \union lost
    <3>1. m \in lost'
      BY <1>1, <2>4, NoneAssumption DEF RecordInv
    <3>2. Fate(m) \in {"drafted", "leading"}
      BY <2>4 DEF Fate
    <3> QED BY <1>1, <1>5, <2>4, <3>1, <3>2 DEF Fate
  <2> QED BY <2>1, <2>2, <2>3, <2>4
<1>7. \A m \in MsgIds : /\ Posts[m] = [by |-> author[m], fate |-> Fate(m)]
                        /\ Posts'[m] = [by |-> author[m], fate |-> Fate(m)']
  BY <1>1 DEF Posts
<1>8. Posts' = [m \in MsgIds |-> IF m \in Record!Underway
                                 THEN [Posts[m] EXCEPT !.fate = "lost"] ELSE Posts[m]]
  BY <1>6, <1>7 DEF Posts, Record!Underway
<1>9. Record!Stop
  BY <1>1, <1>8 DEF Record!Stop, Record!group, Collection
<1> QED BY <1>4, <1>9 DEF Record!Next

-------------------------------------------------------------------------------

LEMMA InitRecord == ASSUME Init PROVE RecordInv /\ Record!Init
<1>1. IInv
  BY InitInv
<1>2. RecordInv
  <2>1. \A h \in Handlers : RecordTask(task[h], author, stored, lost) /\ task[h].msg = None
    BY DEF Init, RecordTask, Idle
  <2> QED BY <1>1, <2>1 DEF Init, RecordInv, OneSaver
<1>3. Posts = [m \in MsgIds |-> [by |-> None, fate |-> "none"]]
  BY DEF Init, Posts, Fate
<1> QED BY <1>2, <1>3 DEF Init, Record!Init, Collection

LEMMA NextRecord ==
  ASSUME RecordInv, [Next]_vars PROVE RecordInv' /\ [Record!Next]_Record!vars
<1>1. IInv'
  BY NextInv DEF RecordInv
<1>2. CASE UNCHANGED vars
  <2>1. UNCHANGED <<conv, stored, expired, ever, author, lost, task, sent>>
    BY <1>2 DEF vars
  <2>2. RecordInv'
    BY <1>1, <2>1 DEF RecordInv, OneSaver
  <2>3. Posts' = Posts
    <3>1. \A m \in MsgIds : Fate(m)' = Fate(m)
      BY <2>1 DEF Fate, Drafted
    <3> QED BY <2>1, <3>1 DEF Posts
  <2> QED BY <2>1, <2>2, <2>3 DEF Record!vars, Collection
<1>3. ASSUME NEW h \in Handlers, Step(h)
      PROVE  RecordInv' /\ [Record!Next]_Record!vars
  BY <1>1, <1>3, PermissionUnseen, ReadUnseen, RefreshUnseen, HookUnseen,
     CacheRecorded, WriteRecorded, HookWritesRecorded, InsertRecorded DEF Step
<1>4. ASSUME NEW h \in Handlers,
             \/ Begin(h) \/ ReadErrs(h) \/ CacheErrs(h) \/ WriteErrs(h)
             \/ HookErrs(h) \/ InsertErrs(h) \/ \E u \in Users : BeginPost(h, u)
      PROVE  RecordInv' /\ [Record!Next]_Record!vars
  BY <1>1, <1>4, PermissionUnseen, WriteRecorded, HookErrsRecorded, InsertRecorded
<1>5. CASE \/ \E k \in Keys : ExpireEntry(k)
           \/ \E u \in Users : ExpireConfirm(u)
           \/ \E m \in MsgIds : ExpireMessage(m)
           \/ Crash
  BY <1>1, <1>5, ExpireUnseen, ExpireRecorded, CrashRecorded
<1> QED BY <1>2, <1>3, <1>4, <1>5 DEF Next

(* Every behaviour of the handlers, their caches and the database, with    *)
(* every fault and every interleaving, is a behaviour of GroupRecord.      *)
THEOREM Implements == Spec => ImplementsRecord
<1>1. Init => RecordInv /\ Record!Init
  BY InitRecord
<1>2. RecordInv /\ [Next]_vars => RecordInv' /\ [Record!Next]_Record!vars
  BY NextRecord
<1> QED BY <1>1, <1>2, PTL DEF Spec, ImplementsRecord, Record!Spec

-------------------------------------------------------------------------------
(* What GroupRecord promises *)

(* The two halves of Record!Sound.                                         *)
GroupSound ==
    /\ \A u \in Users : /\ conv.roles[u] # "none" <=> u \in conv.members
                        /\ conv.roles[u] = "Admin" => u = Creator
    /\ conv.members \in ever /\ conv.members \subseteq Registered

PostSound(m) ==
    /\ Posts[m].fate # "none" => Posts[m].by \in UNION ever
    /\ Posts[m].fate = "kept" => m \in Collection
    /\ m \in Collection => Posts[m].fate \in {"kept", "lost"}
    /\ sent[m] # {None} <=> Posts[m].fate \in {"kept", "expired"}
    /\ sent[m] # {None} =>
          \E S \in ever : Posts[m].by \in S /\ sent[m] = S \ {Posts[m].by}

LastSound ==
    conv.last # None => Posts[conv.last].fate \notin {"none", "drafted", "failing"}

LEMMA SoundParts ==
  Record!Sound <=> GroupSound /\ LastSound /\ \A m \in MsgIds : PostSound(m)
BY DEF Record!Sound, GroupSound, LastSound, PostSound

LEMMA RecordTypes ==
  ASSUME Record!TypeOK
  PROVE  /\ Posts \in [MsgIds -> [by: Users \union {None}, fate: Record!Fates]]
         /\ sent \in [MsgIds -> (SUBSET Users) \union {{None}}]
         /\ conv.last \in MsgIds \union {None} /\ None \notin MsgIds /\ None \notin Users
         /\ ever \subseteq SUBSET Users /\ conv.members \subseteq Users
         /\ conv.roles \in [Users -> {"Admin", "Member", "none"}]
BY NoneAssumption DEF Record!TypeOK, Record!Roles

(* Changes of members leave the messages as they are, and the other way    *)
(* round.                                                                  *)
LEMMA MembersSound ==
  ASSUME Record!TypeOK, Record!Sound,
         (\E S \in SUBSET Users : Record!Add(S)) \/ (\E u \in Users : Record!Remove(u))
  PROVE  Record!Sound'
<1>1. PICK S \in SUBSET Users, r \in {"Member", "none"} :
        /\ Record!Become(S, r)
        /\ r = "Member" => S \subseteq Registered
  BY DEF Record!Add, Record!Remove
<1>2. /\ conv.roles' = [u \in Users |-> IF u \in S THEN r ELSE conv.roles[u]]
      /\ conv.members' = IF r = "none" THEN conv.members \ S ELSE conv.members \union S
      /\ ever' = ever \union {conv.members'}
      /\ UNCHANGED <<conv.last, Posts, Collection, sent>>
  BY <1>1 DEF Record!Become, Record!messages
<1>3. GroupSound'
  BY <1>1, <1>2, SoundParts, RecordTypes DEF GroupSound
<1>4. ASSUME NEW m \in MsgIds PROVE PostSound(m)'
  <2>1. PostSound(m)
    BY SoundParts
  <2>2. ever \subseteq ever' /\ Posts' = Posts /\ sent' = sent /\ Collection' = Collection
    BY <1>2
  <2> QED BY <2>1, <2>2 DEF PostSound
<1>5. LastSound'
  BY <1>2, SoundParts DEF LastSound
<1> QED BY <1>3, <1>4, <1>5 DEF Record!Sound, GroupSound, LastSound, PostSound

LEMMA MessagesSound ==
  ASSUME Record!TypeOK, Record!Sound, NEW m \in MsgIds,
         \/ \E u \in Users : Record!Draft(m, u)
         \/ Record!Lead(m) \/ Record!Keep(m)
         \/ Record!GiveUp(m) \/ Record!FailToLead(m) \/ Record!FailToKeep(m)
         \/ Record!Expire(m)
  PROVE  Record!Sound'
<1>1. UNCHANGED <<conv.members, conv.roles, ever>>
  BY DEF Record!Draft, Record!Lead, Record!Keep, Record!GiveUp, Record!FailToLead,
     Record!FailToKeep, Record!Expire, Record!group
<1>2. GroupSound'
  BY <1>1, SoundParts DEF GroupSound
<1>3. /\ \A n \in MsgIds \ {m} : Posts'[n] = Posts[n] /\ sent'[n] = sent[n]
      /\ \A n \in MsgIds \ {m} : n \in Collection' <=> n \in Collection
  BY RecordTypes DEF Record!Draft, Record!Lead, Record!Keep, Record!GiveUp,
     Record!FailToLead, Record!FailToKeep, Record!Expire, Record!Goes
<1>4. ASSUME NEW n \in MsgIds \ {m} PROVE PostSound(n)'
  <2>1. PostSound(n)
    BY SoundParts
  <2> QED BY <1>1, <1>3, <2>1 DEF PostSound
<1>5. PostSound(m) /\ LastSound
  BY SoundParts
<1>6. ASSUME NEW u \in Users, Record!Draft(m, u) PROVE PostSound(m)' /\ LastSound'
  <2>1. /\ Posts[m].fate = "none" /\ u \in UNION ever
        /\ Posts'[m] = [by |-> u, fate |-> "drafted"]
        /\ UNCHANGED <<conv.last, Collection, sent>>
    BY <1>6, RecordTypes DEF Record!Draft
  <2>2. PostSound(m)'
    BY <1>1, <1>5, <2>1 DEF PostSound
  <2>3. LastSound'
    BY <1>3, <1>5, <2>1, RecordTypes DEF LastSound
  <2> QED BY <2>2, <2>3
<1>7. ASSUME Record!Lead(m) \/ Record!GiveUp(m) \/ Record!FailToLead(m)
      PROVE  PostSound(m)' /\ LastSound'
  <2>1. /\ Posts[m].fate \in {"drafted", "failing"} /\ Posts'[m].by = Posts[m].by
        /\ \/ /\ Posts'[m].fate \in {"leading", "lost"} /\ conv.last' \in {conv.last, m}
           \/ Posts'[m].fate = "failing" /\ conv.last' = conv.last
        /\ UNCHANGED <<Collection, sent>>
    BY <1>7, RecordTypes DEF Record!Lead, Record!GiveUp, Record!FailToLead, Record!Goes
  <2>2. PostSound(m)'
    BY <1>1, <1>5, <2>1 DEF PostSound
  <2>3. LastSound'
    BY <1>3, <1>5, <2>1, RecordTypes DEF LastSound
  <2> QED BY <2>2, <2>3
<1>8. ASSUME Record!Keep(m)
      PROVE  PostSound(m)' /\ LastSound'
  <2>1. /\ Posts[m].fate = "leading" /\ Posts'[m].by = Posts[m].by
        /\ Posts'[m].fate = "kept" /\ m \in Collection' /\ conv.last' = conv.last
    BY <1>8, RecordTypes DEF Record!Keep, Record!Goes
  <2>2. PICK S \in ever : Posts[m].by \in S /\ sent'[m] = S \ {Posts[m].by}
    BY <1>8, RecordTypes DEF Record!Keep
  <2>3. sent'[m] # {None}
    BY <2>2, RecordTypes
  <2>4. PostSound(m)'
    BY <1>1, <1>5, <2>1, <2>2, <2>3 DEF PostSound
  <2>5. LastSound'
    BY <1>3, <1>5, <2>1, RecordTypes DEF LastSound
  <2> QED BY <2>4, <2>5
<1>9. ASSUME Record!FailToKeep(m)
      PROVE  PostSound(m)' /\ LastSound'
  <2>1. /\ Posts[m].fate = "leading" /\ Posts'[m].by = Posts[m].by
        /\ Posts'[m].fate = "lost" /\ UNCHANGED <<conv.last, sent>>
    BY <1>9, RecordTypes DEF Record!FailToKeep, Record!Goes
  <2>2. PostSound(m)'
    BY <1>1, <1>5, <2>1 DEF PostSound
  <2>3. LastSound'
    BY <1>3, <1>5, <2>1, RecordTypes DEF LastSound
  <2> QED BY <2>2, <2>3
<1>10. ASSUME Record!Expire(m)
       PROVE  PostSound(m)' /\ LastSound'
  <2>1. /\ m \in Collection /\ m \notin Collection' /\ Posts'[m].by = Posts[m].by
        /\ Posts'[m].fate = IF Posts[m].fate = "kept" THEN "expired" ELSE Posts[m].fate
        /\ UNCHANGED <<conv.last, sent>>
    BY <1>10, RecordTypes DEF Record!Expire, Record!Goes
  <2>2. PostSound(m)'
    BY <1>1, <1>5, <2>1 DEF PostSound
  <2>3. LastSound'
    BY <1>3, <1>5, <2>1, RecordTypes DEF LastSound
  <2> QED BY <2>2, <2>3
<1>11. PostSound(m)' /\ LastSound'
  BY <1>6, <1>7, <1>8, <1>9, <1>10
<1> QED BY <1>2, <1>4, <1>11 DEF Record!Sound, GroupSound, LastSound, PostSound

LEMMA StopSound ==
  ASSUME Record!TypeOK, Record!Sound, Record!Stop PROVE Record!Sound'
<1>1. /\ UNCHANGED <<conv.members, conv.roles, ever, conv.last, Collection, sent>>
      /\ \A m \in MsgIds :
           \/ Posts'[m] = Posts[m]
           \/ /\ Posts[m].fate \in {"drafted", "leading", "failing"}
              /\ Posts'[m].by = Posts[m].by /\ Posts'[m].fate = "lost"
  BY RecordTypes DEF Record!Stop, Record!group, Record!Underway
<1>2. GroupSound'
  BY <1>1, SoundParts DEF GroupSound
<1>3. ASSUME NEW m \in MsgIds PROVE PostSound(m)'
  BY <1>1, SoundParts DEF PostSound
<1>4. LastSound'
  BY <1>1, SoundParts, RecordTypes DEF LastSound
<1> QED BY <1>2, <1>3, <1>4 DEF Record!Sound, GroupSound, LastSound, PostSound

LEMMA RecordIsSound ==
  ASSUME Record!TypeOK, Record!Sound, [Record!Next]_Record!vars PROVE Record!Sound'
<1>1. CASE UNCHANGED Record!vars
  BY <1>1 DEF Record!vars, Record!Sound
<1> QED BY <1>1, MembersSound, MessagesSound, StopSound DEF Record!Next

(* So, whatever the interleaving: a role is a membership, nobody but the   *)
(* creator is Admin, members are registered accounts, lastMessage is never *)
(* a draft, and of a message in the collection those in the group with     *)
(* its author were told, or its caller that it failed.                     *)
THEOREM PromiseKept == Spec => []Record!Sound
<1>1. RecordInv => Record!TypeOK
  BY NoneAssumption DEF RecordInv, IInv, TypeOK, Record!TypeOK, MsgId, Roles, Record!Roles,
     Posts, Fate, Record!Fates, Collection
<1>2. Init => RecordInv /\ Record!Sound
  <2> SUFFICES ASSUME Init PROVE RecordInv /\ Record!Sound
    OBVIOUS
  <2>1. RecordInv /\ Record!Init
    BY InitRecord
  <2> QED BY <2>1, UsersAssumption DEF Record!Init, Record!Sound
<1>3. RecordInv /\ Record!Sound /\ [Next]_vars => RecordInv' /\ Record!Sound'
  BY <1>1, NextRecord, RecordIsSound
<1> QED BY <1>2, <1>3, PTL DEF Spec

-------------------------------------------------------------------------------
(* The two entries while the calls are made one at a time *)

Cached(k) == cache[k] # Miss
MembersFit(k) == Cached(k) => cache[k].members = conv.members

(* lastMessage, as it is and as populate gives it                          *)
LastNow == {conv.last, Populated(conv.last)}

LastFits == Cached("message") => cache["message"].last \in LastNow
Fits == MembersFit("conversation") /\ MembersFit("message") /\ LastFits

SnapFits(t) == t.snap.members = conv.members /\ t.snap.last \in LastNow

(* Reading: nothing has been changed yet.                                  *)
Calm(t) ==
    /\ t.pc \in {"idle", "confirm", "check", "approve", "get", "read", "write"} => Fits
    /\ t.pc = "populate" /\ t.op = "post" => Fits /\ SnapFits(t)
    /\ t.pc = "fill" => Fits /\ SnapFits(t)

(* After the write of the members: the entries are refreshed in turn, and  *)
(* the last message in them has not become wrong.                          *)
Refreshing(t) ==
    /\ t.pc = "populate" /\ t.op # "post" => SnapFits(t) /\ LastFits
    /\ t.pc \in {"refresh", "merge"} =>
         /\ SnapFits(t) /\ LastFits
         /\ t.key = "message" => MembersFit("conversation")
    /\ t.pc = "merge" /\ t.key = "message" => t.old.last \in LastNow

(* Between the hook's two writes the last message differs; when both are   *)
(* done it is the new one, which is about to be stored.                    *)
Saving(t) ==
    /\ t.pc = "save" =>
         /\ MembersFit("conversation") /\ MembersFit("message")
         /\ "database" \notin t.todo => conv.last = t.msg
         /\ "set" \in t.todo => t.old.members = conv.members
         /\ t.todo \intersect {"get", "set"} = {} =>
              (Cached("message") => cache["message"].last = t.msg)
    /\ t.pc = "insert" =>
         /\ MembersFit("conversation") /\ MembersFit("message")
         /\ conv.last = t.msg
         /\ Cached("message") => cache["message"].last = t.msg

SerialTask(t) == t.pc # "abort" /\ Calm(t) /\ Refreshing(t) /\ Saving(t)

(* Nobody is at work, or one handler alone is.                             *)
AtRest == \A h \in Handlers : task[h].pc = "idle"
Alone(h) == \A g \in Handlers \ {h} : task[g].pc = "idle"

SerialInv ==
    (faults = 0 /\ ~overlap) =>
        \/ AtRest /\ Fits
        \/ \E h \in Handlers : Alone(h) /\ SerialTask(task[h])

Settled == <<conv, stored, expired, cache>>

(* The handlers' data is well formed, and so is what they look at.         *)
LEMMA Formed ==
  ASSUME IInv, NEW h \in Handlers
  PROVE  /\ task[h] \in Task
         /\ conv.last \in MsgIds \union {None} /\ stored \subseteq MsgIds
         /\ \A k \in Keys : cache[k] \in Value \union {Miss}
         /\ \A T : Become(h, T) => task'[h] = T
  BY DEF IInv, TypeOK, MsgId, Become

LEMMA SettledKeeps ==
  ASSUME UNCHANGED Settled
  PROVE  /\ LastNow' = LastNow /\ LastFits' = LastFits /\ Fits' = Fits
         /\ \A k : MembersFit(k)' = MembersFit(k) /\ Cached(k)' = Cached(k)
<1>1. conv' = conv /\ stored' = stored /\ expired' = expired /\ cache' = cache
  BY DEF Settled
<1>2. LastNow' = LastNow
  BY <1>1 DEF LastNow, Populated, Collection
<1> QED BY <1>1, <1>2 DEF LastFits, Fits, MembersFit, Cached

LEMMA IdleSerial ==
  ASSUME Fits', NEW h \in Handlers, task'[h] = Idle
  PROVE  SerialTask(task[h])'
  BY DEF SerialTask, Calm, Refreshing, Saving, Idle

(* Steps of a call that has changed nothing so far.                        *)
LEMMA CalmSerial ==
  ASSUME Fits, UNCHANGED Settled, NEW h \in Handlers,
         task'[h].pc \in {"idle", "confirm", "check", "approve", "get", "read", "write"}
  PROVE  SerialTask(task[h])'
<1>1. Fits'
  BY SettledKeeps
<1> QED BY <1>1 DEF SerialTask, Calm, Refreshing, Saving

LEMMA BeginSerial ==
  ASSUME IInv, NEW h \in Handlers, Fits,
         Begin(h) \/ \E u \in Users : BeginPost(h, u)
  PROVE  SerialTask(task[h])'
<1>1. UNCHANGED Settled
  BY DEF Begin, BeginChange, BeginPost, Store, Redis, Settled
<1>2. task'[h].pc \in {"confirm", "get"}
  <2>1. ASSUME NEW u, BeginPost(h, u) PROVE task'[h].pc = "get"
    BY <2>1 DEF BeginPost, Enter, Idle, Become, IInv, TypeOK
  <2>2. ASSUME NEW u, NEW op, NEW targets, BeginChange(h, u, op, targets)
        PROVE  task'[h].pc = "confirm"
    BY <2>2 DEF BeginChange, Enter, Idle, Become, IInv, TypeOK
  <2> QED BY <2>1, <2>2 DEF Begin
<1> QED BY <1>1, <1>2, CalmSerial

LEMMA PermissionSerial ==
  ASSUME IInv, NEW h \in Handlers, SerialTask(task[h]),
         ReadConfirm(h) \/ CheckPermission(h) \/ SetConfirm(h) \/ CacheMiss(h)
  PROVE  SerialTask(task[h])'
<1>1. Fits /\ UNCHANGED Settled
  BY DEF SerialTask, Calm, ReadConfirm, CheckPermission, SetConfirm, CacheMiss, Store,
     Redis, Settled
<1>2. task'[h].pc \in {"idle", "get", "check", "approve", "read"}
  BY Formed DEF ReadConfirm, CheckPermission, SetConfirm, CacheMiss, Goto, Leave, Idle, Task
<1> QED BY <1>1, <1>2, CalmSerial

(* validateMembers and validateMessage: the change or the post begins.     *)
LEMMA ContinueSerial ==
  ASSUME IInv, NEW h \in Handlers, NEW snap \in Value, Continue(h, snap), Fits',
         conv' = conv
  PROVE  SerialTask(task[h])'
<1>1. CASE Leave(h)
  BY <1>1, Formed, IdleSerial DEF Leave
<1>2. CASE Become(h, [[task[h] EXCEPT !.snap = snap] EXCEPT !.pc = "write"])
  <2>1. task'[h].pc = "write"
    BY <1>2 DEF Become, IInv, TypeOK, Task
  <2> QED BY <2>1 DEF SerialTask, Calm, Refreshing, Saving
<1>3. ASSUME NEW m \in MsgIds,
             Become(h, [[task[h] EXCEPT !.snap = snap] EXCEPT !.pc = "save", !.msg = m,
                                !.todo = {"database", "get"}])
      PROVE  SerialTask(task[h])'
  <2>1. task'[h].pc = "save" /\ task'[h].todo = {"database", "get"}
    BY <1>3 DEF Become, IInv, TypeOK, Task
  <2> QED BY <2>1 DEF SerialTask, Calm, Refreshing, Saving, Fits
<1> QED BY <1>1, <1>2, <1>3 DEF Continue

LEMMA CacheHitSerial ==
  ASSUME IInv, NEW h \in Handlers, SerialTask(task[h]), CacheHit(h)
  PROVE  SerialTask(task[h])'
<1>1. Fits /\ UNCHANGED Settled
  BY DEF SerialTask, Calm, CacheHit, Redis, Settled
<1>2. Fits'
  BY <1>1, SettledKeeps
<1>3. cache[NeedsKey(task[h].op)] \in Value
  BY Formed DEF CacheHit, NeedsKey, Keys
<1> QED BY <1>1, <1>2, <1>3, ContinueSerial DEF CacheHit, Settled

LEMMA ReadSerial ==
  ASSUME IInv, NEW h \in Handlers, SerialTask(task[h]), ReadConversation(h)
  PROVE  SerialTask(task[h])'
<1>1. Fits /\ UNCHANGED Settled
  BY DEF SerialTask, Calm, ReadConversation, Store, Redis, Settled
<1>2. Fits'
  BY <1>1, SettledKeeps
<1>3. /\ task'[h].pc = IF task'[h].op = "post" THEN "populate" ELSE "fill"
      /\ task'[h].snap = [members |-> conv.members, last |-> conv.last]
  BY DEF ReadConversation, Become, IInv, TypeOK, Task
<1>4. SnapFits(task[h])'
  BY <1>1, <1>3, SettledKeeps DEF SnapFits, LastNow, Settled
<1> QED BY <1>2, <1>3, <1>4 DEF SerialTask, Calm, Refreshing, Saving

LEMMA FillSerial ==
  ASSUME IInv, NEW h \in Handlers, SerialTask(task[h]), FillCache(h)
  PROVE  SerialTask(task[h])'
<1>1. /\ Fits /\ SnapFits(task[h]) /\ UNCHANGED <<conv, stored, expired>>
      /\ NeedsKey(task[h].op) \in Keys /\ task[h].snap \in Value
      /\ cache' = [cache EXCEPT ![NeedsKey(task[h].op)] = task[h].snap]
      /\ Continue(h, task[h].snap)
  BY Formed DEF SerialTask, Calm, FillCache, NeedsKey, Keys, Task
<1>2. LastNow' = LastNow
  BY <1>1 DEF LastNow, Populated, Collection
<1>3. Fits'
  BY <1>1, <1>2 DEF Fits, MembersFit, LastFits, Cached, SnapFits, Keys, IInv, TypeOK
<1> QED BY <1>1, <1>3, ContinueSerial

-------------------------------------------------------------------------------
(* The write of the members and the refreshes after it *)

LEMMA WriteSerial ==
  ASSUME IInv, NEW h \in Handlers, SerialTask(task[h]), WriteMembers(h)
  PROVE  SerialTask(task[h])'
<1>1. /\ Fits /\ task[h].op # "post" /\ UNCHANGED <<stored, expired, cache>>
      /\ conv'.last = conv.last
  BY HandlerFacts DEF SerialTask, Calm, WriteMembers, Redis, TaskInv, IInv, TypeOK
<1>2. /\ task'[h].pc = "populate" /\ task'[h].op = task[h].op
      /\ task'[h].snap = [members |-> conv'.members, last |-> conv.last]
  BY DEF WriteMembers, Become, IInv, TypeOK, Task
<1>3. LastNow' = LastNow /\ conv.last \in LastNow
  BY <1>1 DEF LastNow, Populated, Collection
<1>4. SnapFits(task[h])' /\ LastFits'
  BY <1>1, <1>2, <1>3 DEF SnapFits, Fits, LastFits, Cached
<1> QED BY <1>1, <1>2, <1>3, <1>4 DEF SerialTask, Calm, Refreshing, Saving

LEMMA PopulateSerial ==
  ASSUME IInv, NEW h \in Handlers, SerialTask(task[h]), Populate(h)
  PROVE  SerialTask(task[h])'
<1>1. /\ SnapFits(task[h]) /\ LastFits /\ UNCHANGED Settled
      /\ task[h].op = "post" => Fits
  BY DEF SerialTask, Calm, Refreshing, Populate, Store, Redis, Settled, Fits
<1>2. /\ task'[h].op = task[h].op /\ task'[h].key = "conversation"
      /\ task'[h].pc = IF task[h].op = "post" THEN "fill" ELSE "refresh"
      /\ task'[h].snap.members = task[h].snap.members
      /\ task'[h].snap.last = Populated(task[h].snap.last)
  BY DEF Populate, Become, IInv, TypeOK, Task, Value
<1>3. SnapFits(task[h])'
  <2>1. Populated(task[h].snap.last) \in LastNow
    BY <1>1 DEF SnapFits, LastNow, Populated
  <2> QED BY <1>1, <1>2, <2>1, SettledKeeps DEF SnapFits, Settled
<1>4. LastFits' /\ (task[h].op = "post" => Fits')
  BY <1>1, SettledKeeps
<1> QED BY <1>2, <1>3, <1>4 DEF SerialTask, Calm, Refreshing, Saving

(* An entry has been dealt with: the next one, or the answer.              *)
LEMMA NextKeySerial ==
  ASSUME IInv, NEW h \in Handlers, task[h].pc \in {"refresh", "merge"}, NextKey(h),
         SnapFits(task[h]), UNCHANGED <<conv, stored, expired>>,
         LastFits', MembersFit("conversation")',
         task[h].key = "message" => MembersFit("message")'
  PROVE  SerialTask(task[h])'
<1>1. LastNow' = LastNow
  BY DEF LastNow, Populated, Collection
<1>2. CASE task[h].key = "conversation"
  <2>1. /\ task'[h].pc = "refresh" /\ task'[h].key = "message"
        /\ task'[h].snap = task[h].snap
    <3>1. task' = [task EXCEPT ![h] = [task[h] EXCEPT !.pc = "refresh", !.key = "message"]]
      BY <1>2 DEF NextKey, Become
    <3>2. task'[h] = [task[h] EXCEPT !.pc = "refresh", !.key = "message"]
      BY <3>1 DEF IInv, TypeOK
    <3> QED BY <3>2, Formed DEF Task
  <2>2. SnapFits(task[h])'
    BY <1>1, <2>1 DEF SnapFits
  <2> QED BY <2>1, <2>2 DEF SerialTask, Calm, Refreshing, Saving
<1>3. CASE task[h].key = "message"
  <2>1. task'[h] = Idle
    BY <1>3, Formed DEF NextKey, Leave
  <2>2. Fits'
    BY <1>3 DEF Fits
  <2> QED BY <2>1, <2>2, IdleSerial
<1> QED BY <1>2, <1>3, Formed DEF Task, Keys

LEMMA RefreshSerial ==
  ASSUME IInv, NEW h \in Handlers, SerialTask(task[h]), RefreshFinds(h) \/ RefreshMisses(h)
  PROVE  SerialTask(task[h])'
<1>1. /\ task[h].pc = "refresh" /\ task[h].key \in Keys /\ UNCHANGED Settled
      /\ SnapFits(task[h]) /\ LastFits
      /\ task[h].key = "message" => MembersFit("conversation")
  BY Formed DEF SerialTask, Refreshing, RefreshFinds, RefreshMisses, Store, Redis, Settled,
     Task
<1>2. /\ LastFits' /\ LastNow' = LastNow
      /\ MembersFit("conversation")' = MembersFit("conversation")
      /\ MembersFit("message")' = MembersFit("message")
  BY <1>1, SettledKeeps
<1>3. CASE RefreshMisses(h)
  <2>1. NextKey(h) /\ MembersFit(task[h].key)
    BY <1>3 DEF RefreshMisses, MembersFit, Cached
  <2> QED BY <1>1, <1>2, <2>1, NextKeySerial DEF Settled, Keys
<1>4. CASE RefreshFinds(h)
  <2>1. /\ task'[h].pc = "merge" /\ task'[h].key = task[h].key
        /\ task'[h].snap = task[h].snap /\ task'[h].old = cache[task[h].key]
    BY <1>4 DEF RefreshFinds, Become, IInv, TypeOK, Task
  <2>2. task[h].key = "message" => cache["message"].last \in LastNow
    BY <1>1, <1>4 DEF RefreshFinds, LastFits, Cached
  <2>3. SnapFits(task[h])'
    BY <1>1, <1>2, <2>1 DEF SnapFits, Settled
  <2> QED BY <1>1, <1>2, <2>1, <2>2, <2>3 DEF SerialTask, Calm, Refreshing, Saving, Settled
<1> QED BY <1>3, <1>4

LEMMA MergeSerial ==
  ASSUME IInv, NEW h \in Handlers, SerialTask(task[h]), MergeIntoCache(h)
  PROVE  SerialTask(task[h])'
<1> DEFINE key == task[h].key
           entry == Merge(task[h].old, task[h].snap)
<1>1. /\ task[h].pc = "merge" /\ key \in Keys /\ UNCHANGED <<conv, stored, expired>>
      /\ cache' = [cache EXCEPT ![key] = entry] /\ NextKey(h)
      /\ SnapFits(task[h]) /\ LastFits
      /\ key = "message" => MembersFit("conversation") /\ task[h].old.last \in LastNow
  BY Formed DEF SerialTask, Refreshing, MergeIntoCache, Store, Task
<1>2. entry.members = conv.members /\ (key = "message" => entry.last \in LastNow)
  <2>1. task[h].snap \in Value /\ task[h].old \in Value
    BY Formed DEF Task
  <2> QED BY <1>1, <2>1 DEF Merge, Value, SnapFits
<1>3. /\ cache'[key] = entry /\ \A k \in Keys \ {key} : cache'[k] = cache[k]
  BY <1>1 DEF IInv, TypeOK
<1> HIDE DEF entry
<1>4. LastFits'
  <2>1. LastNow' = LastNow
    BY <1>1 DEF LastNow, Populated, Collection
  <2> QED BY <1>1, <1>2, <1>3, <2>1 DEF LastFits, Cached, Keys
<1>5. MembersFit("conversation")' /\ (key = "message" => MembersFit("message")')
  BY <1>1, <1>2, <1>3 DEF MembersFit, Cached, Keys
<1> QED BY <1>1, <1>4, <1>5, NextKeySerial

-------------------------------------------------------------------------------
(* A post *)

LEMMA HookWritesLastSerial ==
  ASSUME IInv, NEW h \in Handlers, SerialTask(task[h]), HookWritesLast(h)
  PROVE  SerialTask(task[h])'
<1>1. /\ task[h].pc = "save" /\ UNCHANGED cache /\ conv'.members = conv.members
      /\ conv'.last = task[h].msg
  BY DEF HookWritesLast, SerialTask, Redis, IInv, TypeOK
<1>2. /\ task'[h].pc = "save" /\ task'[h].msg = task[h].msg /\ task'[h].old = task[h].old
      /\ task'[h].todo = task[h].todo \ {"database"}
  BY <1>1 DEF HookWritesLast, Become, IInv, TypeOK, Task
<1> QED BY <1>1, <1>2 DEF SerialTask, Calm, Refreshing, Saving, MembersFit, Cached

LEMMA HookReadsCacheSerial ==
  ASSUME IInv, NEW h \in Handlers, SerialTask(task[h]), HookReadsCache(h)
  PROVE  SerialTask(task[h])'
<1>1. task[h].pc = "save" /\ UNCHANGED Settled
  BY DEF HookReadsCache, SerialTask, Store, Redis, Settled
<1>2. task'[h].pc = "save" /\ task'[h].msg = task[h].msg
  BY <1>1 DEF HookReadsCache, Become, IInv, TypeOK, Task
<1>3. CASE cache["message"] = Miss
  <2>1. task'[h].todo = task[h].todo \ {"get"} /\ task'[h].old = task[h].old
    BY <1>3 DEF HookReadsCache, Become, IInv, TypeOK, Task
  <2> QED BY <1>1, <1>2, <1>3, <2>1
      DEF SerialTask, Calm, Refreshing, Saving, MembersFit, Cached, Settled
<1>4. CASE cache["message"] # Miss
  <2>1. /\ task'[h].todo = (task[h].todo \ {"get"}) \union {"set"}
        /\ task'[h].old = cache["message"]
    BY <1>4 DEF HookReadsCache, Become, IInv, TypeOK, Task
  <2> QED BY <1>1, <1>2, <1>4, <2>1
      DEF SerialTask, Calm, Refreshing, Saving, MembersFit, Cached, Settled
<1> QED BY <1>3, <1>4

LEMMA HookWritesCacheSerial ==
  ASSUME IInv, NEW h \in Handlers, SerialTask(task[h]), HookWritesCache(h)
  PROVE  SerialTask(task[h])'
<1>1. /\ task[h].pc = "save" /\ UNCHANGED <<conv, stored>> /\ "set" \in task[h].todo
      /\ cache' = [cache EXCEPT !["message"] = WithLast(task[h])]
  BY DEF HookWritesCache, SerialTask, Store
<1>2. /\ task'[h].pc = "save" /\ task'[h].msg = task[h].msg /\ task'[h].old = task[h].old
      /\ task'[h].todo = task[h].todo \ {"set"}
  BY <1>1 DEF HookWritesCache, Become, IInv, TypeOK, Task
<1>3. /\ WithLast(task[h]).members = task[h].old.members
      /\ WithLast(task[h]).last = task[h].msg
  BY Formed DEF WithLast, Task, Value
<1>4. cache'["message"] = WithLast(task[h]) /\ cache'["conversation"] = cache["conversation"]
  BY <1>1 DEF IInv, TypeOK, Keys
<1> QED BY <1>1, <1>2, <1>3, <1>4
    DEF SerialTask, Calm, Refreshing, Saving, MembersFit, Cached

LEMMA HookEndsSerial ==
  ASSUME IInv, NEW h \in Handlers, SerialTask(task[h]), HookEnds(h)
  PROVE  SerialTask(task[h])'
<1>1. task[h].pc = "save" /\ task[h].todo = {} /\ UNCHANGED Settled /\ Goto(h, "insert")
  BY DEF HookEnds, SerialTask, Store, Redis, Settled
<1>2. task'[h].pc = "insert" /\ task'[h].msg = task[h].msg
  BY <1>1 DEF Goto, Become, IInv, TypeOK, Task
<1> QED BY <1>1, <1>2
    DEF SerialTask, Calm, Refreshing, Saving, MembersFit, Cached, Settled

LEMMA InsertSerial ==
  ASSUME IInv, NEW h \in Handlers, SerialTask(task[h]), InsertMessage(h)
  PROVE  SerialTask(task[h])'
<1>1. /\ task[h].pc = "insert" /\ UNCHANGED <<conv, cache>> /\ Leave(h)
      /\ stored' = stored \union {task[h].msg}
  BY DEF InsertMessage, Redis
<1>2. Fits'
  BY <1>1 DEF SerialTask, Saving, Fits, MembersFit, LastFits, LastNow, Cached
<1>3. task'[h] = Idle
  BY <1>1, Formed DEF Leave
<1> QED BY <1>2, <1>3, IdleSerial

-------------------------------------------------------------------------------
(* The others *)

(* An entry that has expired claims nothing, and a message that has leaves *)
(* null in what is read from now on.                                       *)
LEMMA ExpiryKeeps ==
  ASSUME IInv,
         \/ \E k \in Keys : ExpireEntry(k)
         \/ \E u \in Users : ExpireConfirm(u)
         \/ \E m \in MsgIds : ExpireMessage(m)
         \/ UNCHANGED vars
  PROVE  /\ UNCHANGED <<conv, task, overlap>>
         /\ \A k \in Keys : cache'[k] = cache[k] \/ cache'[k] = Miss
         /\ LastNow \subseteq LastNow'
         /\ MembersFit("conversation") => MembersFit("conversation")'
         /\ MembersFit("message") => MembersFit("message")'
         /\ LastFits => LastFits'
         /\ Fits => Fits'
<1>1. /\ UNCHANGED <<conv, stored, task, overlap>> /\ expired \subseteq expired'
      /\ \A k \in Keys : cache'[k] = cache[k] \/ cache'[k] = Miss
  BY DEF ExpireEntry, ExpireConfirm, ExpireMessage, Store, Redis, Rest, vars, IInv, TypeOK
<1>2. LastNow \subseteq LastNow'
  BY <1>1 DEF LastNow, Populated, Collection
<1>3. /\ MembersFit("conversation") => MembersFit("conversation")'
      /\ MembersFit("message") => MembersFit("message")'
      /\ LastFits => LastFits'
  BY <1>1, <1>2 DEF MembersFit, LastFits, Cached, Keys
<1> QED BY <1>1, <1>2, <1>3 DEF Fits

LEMMA ExpireSerial ==
  ASSUME IInv, NEW h \in Handlers, SerialTask(task[h]),
         \/ \E k \in Keys : ExpireEntry(k)
         \/ \E u \in Users : ExpireConfirm(u)
         \/ \E m \in MsgIds : ExpireMessage(m)
         \/ UNCHANGED vars
  PROVE  SerialTask(task[h])'
<1>1. /\ UNCHANGED <<conv, task>>
      /\ \A k \in Keys : cache'[k] = cache[k] \/ cache'[k] = Miss
      /\ LastNow \subseteq LastNow'
      /\ MembersFit("conversation") => MembersFit("conversation")'
      /\ MembersFit("message") => MembersFit("message")'
      /\ LastFits => LastFits'
      /\ Fits => Fits'
  BY ExpiryKeeps
<1>2. Calm(task[h])'
  BY <1>1 DEF SerialTask, Calm, SnapFits
<1>3. Refreshing(task[h])'
  BY <1>1 DEF SerialTask, Refreshing, SnapFits
<1>4. Saving(task[h])'
  BY <1>1 DEF SerialTask, Saving, Cached, Keys
<1> QED BY <1>1, <1>2, <1>3, <1>4 DEF SerialTask

LEMMA StepSerial ==
  ASSUME IInv, NEW h \in Handlers, SerialTask(task[h]), Step(h)
  PROVE  SerialTask(task[h])'
BY PermissionSerial, CacheHitSerial, ReadSerial, FillSerial, WriteSerial, PopulateSerial,
   RefreshSerial, MergeSerial, HookWritesLastSerial, HookReadsCacheSerial,
   HookWritesCacheSerial, HookEndsSerial, InsertSerial DEF Step

(* A handler that takes a step is at work, and the others keep theirs.     *)
LEMMA StepIsOfOne ==
  ASSUME IInv, NEW h \in Handlers, Step(h)
  PROVE  /\ task[h].pc # "idle" /\ overlap' = overlap /\ faults' = faults
         /\ \A g \in Handlers \ {h} : task'[g] = task[g]
<1>1. \E T : Become(h, T)
  BY DEF Step, ReadConfirm, CheckPermission, SetConfirm, CacheHit, CacheMiss,
     ReadConversation, FillCache, WriteMembers, Populate, RefreshFinds, RefreshMisses,
     MergeIntoCache, HookWritesLast, HookReadsCache, HookWritesCache, HookEnds,
     InsertMessage, Continue, NextKey, Goto, Leave
<1>2. \A g \in Handlers \ {h} : task'[g] = task[g]
  BY <1>1 DEF Become, IInv, TypeOK
<1>3. task[h].pc # "idle"
  BY DEF Step, ReadConfirm, CheckPermission, SetConfirm, CacheHit, CacheMiss,
     ReadConversation, FillCache, WriteMembers, Populate, RefreshFinds, RefreshMisses,
     MergeIntoCache, HookWritesLast, HookReadsCache, HookWritesCache, HookEnds,
     InsertMessage
<1>4. overlap' = overlap /\ faults' = faults
  BY DEF Step, ReadConfirm, CheckPermission, SetConfirm, CacheHit, CacheMiss,
     ReadConversation, FillCache, WriteMembers, Populate, RefreshFinds, RefreshMisses,
     MergeIntoCache, HookWritesLast, HookReadsCache, HookWritesCache, HookEnds,
     InsertMessage, Rest
<1> QED BY <1>2, <1>3, <1>4

(* A call that begins while another is under way is remembered.            *)
LEMMA BeginIsSeen ==
  ASSUME IInv, NEW h \in Handlers, Begin(h) \/ \E u \in Users : BeginPost(h, u)
  PROVE  /\ faults' = faults /\ overlap' = (overlap \/ ~AtRest)
         /\ \A g \in Handlers \ {h} : task'[g] = task[g]
<1>1. PICK T : Enter(h, T) /\ faults' = faults
  BY DEF Begin, BeginChange, BeginPost
<1>2. \A g \in Handlers \ {h} : task'[g] = task[g]
  BY <1>1 DEF Enter, Become, IInv, TypeOK
<1> QED BY <1>1, <1>2 DEF Enter, AtRest

(* Errors only ever become more, and end the claim.                        *)
LEMMA FaultsGrow ==
  ASSUME IInv, [Next]_vars, faults' = 0
  PROVE  /\ faults = 0
         /\ \/ \E h \in Handlers :
                 Step(h) \/ Begin(h) \/ \E u \in Users : BeginPost(h, u)
            \/ \E k \in Keys : ExpireEntry(k)
            \/ \E u \in Users : ExpireConfirm(u)
            \/ \E m \in MsgIds : ExpireMessage(m)
            \/ UNCHANGED vars
<1>1. faults \in Nat /\ faults + 1 # 0
  BY BoundsAssumption DEF IInv, TypeOK
<1>2. ASSUME NEW h \in Handlers,
             ReadErrs(h) \/ CacheErrs(h) \/ WriteErrs(h) \/ HookErrs(h) \/ InsertErrs(h)
      PROVE  FALSE
  BY <1>1, <1>2 DEF ReadErrs, CacheErrs, WriteErrs, HookErrs, InsertErrs, Fault
<1>3. ~Crash
  BY <1>1 DEF Crash, Fault
<1>4. \/ \E h \in Handlers :
           Step(h) \/ Begin(h) \/ \E u \in Users : BeginPost(h, u)
      \/ \E k \in Keys : ExpireEntry(k)
      \/ \E u \in Users : ExpireConfirm(u)
      \/ \E m \in MsgIds : ExpireMessage(m)
      \/ UNCHANGED vars
  BY <1>2, <1>3 DEF Next
<1>5. faults' = faults
  BY <1>4, StepIsOfOne, BeginIsSeen
     DEF ExpireEntry, ExpireConfirm, ExpireMessage, Rest, vars
<1> QED BY <1>4, <1>5

LEMMA NextSerial ==
  ASSUME IInv, SerialInv, [Next]_vars
  PROVE  SerialInv'
<1> SUFFICES ASSUME faults' = 0, ~overlap'
             PROVE  \/ (AtRest /\ Fits)'
                    \/ \E h \in Handlers : Alone(h)' /\ SerialTask(task[h])'
  BY DEF SerialInv
<1>1. faults = 0
  BY FaultsGrow
<1>2. CASE \/ \E k \in Keys : ExpireEntry(k)
           \/ \E u \in Users : ExpireConfirm(u)
           \/ \E m \in MsgIds : ExpireMessage(m)
           \/ UNCHANGED vars
  <2>1. task' = task /\ overlap' = overlap /\ (Fits => Fits')
    BY <1>2, ExpiryKeeps
  <2>2. CASE AtRest /\ Fits
    BY <2>1, <2>2 DEF AtRest
  <2>3. ASSUME NEW h \in Handlers, Alone(h), SerialTask(task[h])
        PROVE  Alone(h)' /\ SerialTask(task[h])'
    BY <1>2, <2>1, <2>3, ExpireSerial DEF Alone
  <2> QED BY <1>1, <2>1, <2>2, <2>3 DEF SerialInv
<1>3. ASSUME NEW g \in Handlers, Step(g)
      PROVE  \E h \in Handlers : Alone(h)' /\ SerialTask(task[h])'
  <2>1. /\ task[g].pc # "idle" /\ overlap' = overlap
        /\ \A i \in Handlers \ {g} : task'[i] = task[i]
    BY <1>3, StepIsOfOne
  <2>2. Alone(g) /\ SerialTask(task[g])
    BY <1>1, <2>1 DEF SerialInv, AtRest, Alone
  <2>3. Alone(g)'
    BY <2>1, <2>2 DEF Alone
  <2>4. SerialTask(task[g])'
    BY <1>3, <2>2, StepSerial
  <2> QED BY <2>3, <2>4
<1>4. ASSUME NEW g \in Handlers, Begin(g) \/ \E u \in Users : BeginPost(g, u)
      PROVE  \E h \in Handlers : Alone(h)' /\ SerialTask(task[h])'
  <2>1. ~overlap /\ AtRest /\ \A i \in Handlers \ {g} : task'[i] = task[i]
    BY <1>4, BeginIsSeen
  <2>2. Fits
    BY <1>1, <2>1 DEF SerialInv, AtRest, SerialTask, Calm
  <2>3. Alone(g)'
    BY <2>1 DEF Alone, AtRest
  <2>4. SerialTask(task[g])'
    BY <1>4, <2>2, BeginSerial
  <2> QED BY <2>3, <2>4
<1> QED BY <1>2, <1>3, <1>4, FaultsGrow

(* As long as calls were made one at a time and nothing failed, the        *)
(* entries agree with the document whenever no call is under way: each     *)
(* change refreshes both, each post brings its message into the one that   *)
(* posts use, whatever expires meanwhile.                                  *)
THEOREM Coherent == Spec => []CoherentAtRest
<1>1. Init => SerialInv
  <2> SUFFICES ASSUME Init PROVE AtRest /\ Fits
    BY DEF SerialInv
  <2> QED BY DEF Init, AtRest, Fits, MembersFit, LastFits, Cached, Keys, Idle
<1>2. IInv /\ SerialInv /\ [Next]_vars => SerialInv'
  BY NextSerial
<1>3. SerialInv => CoherentAtRest
  <2> SUFFICES ASSUME SerialInv, faults = 0, ~overlap, AtRest
               PROVE  /\ \A k \in Keys : cache[k] # Miss => cache[k].members = conv.members
                      /\ cache["message"] # Miss => cache["message"].last \in LastNow
    BY DEF CoherentAtRest, AtRest, LastNow
  <2>1. Fits
    BY DEF SerialInv, AtRest, SerialTask, Calm
  <2> QED BY <2>1 DEF Fits, MembersFit, LastFits, Cached, Keys
<1> QED BY <1>1, <1>2, <1>3, Invariant, PTL DEF Spec

===============================================================================
