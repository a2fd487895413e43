------------------------- MODULE FriendRequestsProofs -------------------------
(***************************************************************************)
(* Theorems about FriendRequests for every set of users, ids and handlers. *)
(***************************************************************************)
EXTENDS FriendRequests, TLAPS

-------------------------------------------------------------------------------
(* The inductive invariant *)

(* The snapshot a handler holds names the parties of a request that was    *)
(* really made.                                                            *)
Snapshot(t, led) ==
    /\ t.doc \in Doc /\ t.req \in ReqIds
    /\ led[t.req].fate # "unused"
    /\ led[t.req].author = t.doc.author
    /\ led[t.req].friend = t.doc.friend

Entitled(t) == t.user = IF t.op = "respond" THEN t.doc.friend ELSE t.doc.author

Pushed(t, fr, side) == fr[Owner(t.doc, side)][<<Other(t.doc, side), t.req>>] > 0

(* What a handler may rely on at each of its awaits.                       *)
TaskInv(t, led, fr) ==
    /\ t.pc = "lookup" =>
          /\ t.op = "create" /\ t.user \in Users /\ t.peer \in Users
          /\ t.todo \subseteq Lookups
          /\ t.doc = NoDoc \/ Snapshot(t, led)
    /\ t.pc \in {"fetch", "write"} =>
          /\ t.user \in Users /\ t.req \in ReqIds
          /\ \/ t.op = "respond" /\ t.answer \in Answers
             \/ t.op = "cancel" /\ t.answer = None
    /\ t.pc = "write" => Snapshot(t, led) /\ Entitled(t)
    /\ t.pc = "push" =>
          /\ t.op = "respond" /\ t.answer = "Accept" /\ t.todo \subseteq Sides
          /\ Snapshot(t, led) /\ led[t.req].fate = "accepted"
          /\ led[t.req].by = led[t.req].friend
          /\ \A side \in Sides : side \in t.todo \/ t.failed \/ Pushed(t, fr, side)
    /\ t.pc = "notify" =>
          /\ Snapshot(t, led)
          /\ \/ t.op = "create"
             \/ t.op = "cancel" /\ led[t.req].fate = "cancelled"
             \/ /\ t.op = "respond" /\ t.answer = "Reject"
                /\ led[t.req].fate = "rejected"
             \/ /\ t.op = "respond" /\ t.answer = "Accept"
                /\ led[t.req].fate = "accepted"
                /\ \A side \in Sides : Pushed(t, fr, side)

TasksInv == \A h \in Handlers : TaskInv(task[h], ledger, friends)

(* No request is being entered by two handlers.                            *)
OnePusher ==
    \A g, h \in Handlers :
        task[g].pc = "push" /\ task[h].pc = "push" /\ task[g].req = task[h].req
            => g = h

(* How often a handler will still push the entry <<v, id>> to u's list     *)
One(cond) == IF cond THEN 1 ELSE 0

Due(t, u, v, id) ==
    IF t.pc = "push" /\ t.req = id
    THEN One("author" \in t.todo /\ t.doc.author = u /\ t.doc.friend = v)
         + One("friend" \in t.todo /\ t.doc.friend = u /\ t.doc.author = v)
    ELSE 0

Limit(u, v) == IF u = v THEN 2 ELSE 1

(* What is in a list and what is still due to it stay within the limit.    *)
WithinLimit ==
    \A u, v \in Users, id \in ReqIds, h \in Handlers :
        friends[u][<<v, id>>] + Due(task[h], u, v, id) <= Limit(u, v)

(* A notice was built from a snapshot that agrees with the history.        *)
Truthful(n) ==
    LET was == ledger[n.req] IN
    /\ n.kind = "Accept"  => was.fate = "accepted"  /\ n.to = was.author
    /\ n.kind = "Reject"  => was.fate = "rejected"  /\ n.to = was.author
    /\ n.kind = "Cancel"  => was.fate = "cancelled" /\ n.to = was.friend
    /\ n.kind = "Request" => was.fate # "unused"    /\ n.to = was.friend

NoticesTruthful == \A n \in notices : Truthful(n)

IInv ==
    /\ TypeOK
    /\ TasksInv
    /\ RequestsOnRecord
    /\ EnteredByConsent
    /\ OnePusher
    /\ WithinLimit
    /\ OncePerAcceptance
    /\ AcceptedIsMutual
    /\ NoticesTruthful

-------------------------------------------------------------------------------
(* What every step keeps, and what follows for the handlers at rest *)

LedgerKeeps ==
    \A id \in ReqIds : ledger[id].fate # "unused" =>
        /\ ledger'[id].author = ledger[id].author
        /\ ledger'[id].friend = ledger[id].friend
        /\ ledger'[id].fate # "unused"
        /\ ledger[id].fate # "pending" => ledger'[id] = ledger[id]

FriendsKeep ==
    \A u, v \in Users, id \in ReqIds :
        friends[u][<<v, id>>] > 0 => friends'[u][<<v, id>>] > 0

(* What a handler relies on survives the steps of the others.              *)
LEMMA TaskInvKeeps ==
  ASSUME NEW t \in Task, TaskInv(t, ledger, friends), LedgerKeeps, FriendsKeep
  PROVE  TaskInv(t, ledger', friends')
<1>1. ASSUME Snapshot(t, ledger) PROVE Snapshot(t, ledger')
  BY <1>1 DEF Snapshot, LedgerKeeps
<1>2. ASSUME Snapshot(t, ledger), NEW side \in Sides, Pushed(t, friends, side)
      PROVE  Pushed(t, friends', side)
  BY <1>2 DEF Snapshot, Pushed, FriendsKeep, Owner, Other, Doc
<1>3. ASSUME Snapshot(t, ledger), ledger[t.req].fate \notin {"unused", "pending"}
      PROVE  ledger'[t.req] = ledger[t.req]
  BY <1>3 DEF Snapshot, LedgerKeeps
<1> QED
  BY <1>1, <1>2, <1>3 DEF TaskInv

(* A step that replaces the task of one handler.                           *)
LEMMA TasksStep ==
  ASSUME NEW h \in Handlers, NEW T \in Task, Become(h, T), TypeOK, TasksInv,
         LedgerKeeps, FriendsKeep, TaskInv(T, ledger', friends')
  PROVE  /\ task' \in [Handlers -> Task]
         /\ TasksInv'
         /\ task'[h] = T
         /\ \A g \in Handlers \ {h} : task'[g] = task[g]
<1>1. /\ task' \in [Handlers -> Task] /\ task'[h] = T
      /\ \A g \in Handlers \ {h} : task'[g] = task[g]
  BY DEF Become, TypeOK
<1>2. ASSUME NEW g \in Handlers PROVE TaskInv(task'[g], ledger', friends')
  <2>1. CASE g = h
    BY <2>1, <1>1
  <2>2. CASE g # h
    <3>1. task[g] \in Task /\ TaskInv(task[g], ledger, friends)
      BY DEF TypeOK, TasksInv
    <3> QED BY <3>1, <2>2, <1>1, TaskInvKeeps
  <2> QED BY <2>1, <2>2
<1> QED
  BY <1>1, <1>2 DEF TasksInv

LEMMA NothingLost ==
  ASSUME UNCHANGED <<ledger, friends>> PROVE LedgerKeeps /\ FriendsKeep
  BY DEF LedgerKeeps, FriendsKeep

(* A step of one handler, into or out of no push, that leaves the rest.    *)
LEMMA QuietStep ==
  ASSUME IInv, NEW h \in Handlers, NEW T \in Task, Become(h, T),
         UNCHANGED <<friends, ledger>>, TaskInv(T, ledger, friends),
         task[h].pc # "push", T.pc # "push",
         RequestsOnRecord', request' \in [ReqIds -> Doc \union {NoDoc}],
         torn' \in SUBSET ReqIds, torn \subseteq torn', faults' \in 0..MaxFaults,
         notices' \in SUBSET Notice, NoticesTruthful'
  PROVE  IInv'
<1>1. /\ task' \in [Handlers -> Task] /\ TasksInv'
      /\ task'[h] = T
      /\ \A g \in Handlers \ {h} : task'[g] = task[g]
  BY NothingLost, TasksStep DEF IInv
<1>2. TypeOK'
  BY <1>1 DEF IInv, TypeOK
<1>3. EnteredByConsent' /\ OncePerAcceptance'
  BY DEF IInv, EnteredByConsent, OncePerAcceptance, Entry
<1>4. OnePusher'
  BY <1>1 DEF IInv, OnePusher
<1>5. WithinLimit'
  <2> SUFFICES ASSUME NEW u \in Users, NEW v \in Users, NEW id \in ReqIds, NEW g \in Handlers
               PROVE  friends[u][<<v, id>>] + Due(task'[g], u, v, id) <= Limit(u, v)
    BY DEF WithinLimit
  <2>1. friends[u][<<v, id>>] + Due(task[g], u, v, id) <= Limit(u, v)
    BY DEF IInv, WithinLimit
  <2>2. g # h => task'[g] = task[g]
    BY <1>1
  <2>3. g = h => Due(task'[g], u, v, id) = 0 /\ Due(task[g], u, v, id) = 0
    BY <1>1 DEF Due
  <2> QED BY <2>1, <2>2, <2>3
<1>6. AcceptedIsMutual'
  <2>1. \A id \in ReqIds : BeingEntered(id) => BeingEntered(id)'
    BY <1>1 DEF BeingEntered
  <2> QED BY <2>1 DEF IInv, AcceptedIsMutual, BothEntered, Entry
<1> QED
  BY <1>1, <1>2, <1>3, <1>4, <1>5, <1>6 DEF IInv

(* The common case: nothing but the task of h changes.                     *)
LEMMA ReplyStep ==
  ASSUME IInv, NEW h \in Handlers, NEW T \in Task, Become(h, T),
         UNCHANGED <<request, friends, notices, ledger, torn, faults>>,
         TaskInv(T, ledger, friends), task[h].pc # "push", T.pc # "push"
  PROVE  IInv'
<1>1. RequestsOnRecord' /\ NoticesTruthful'
  <2>1. RequestsOnRecord'
    BY DEF IInv, RequestsOnRecord, Present, NoDoc, StatusOf
  <2>2. NoticesTruthful'
    BY DEF IInv, NoticesTruthful, Truthful
  <2> QED BY <2>1, <2>2
<1>2. /\ request' \in [ReqIds -> Doc \union {NoDoc}] /\ torn' \in SUBSET ReqIds
      /\ torn \subseteq torn' /\ faults' \in 0..MaxFaults /\ notices' \in SUBSET Notice
  BY DEF IInv, TypeOK
<1> QED BY <1>1, <1>2, QuietStep

LEMMA IdleFine == Idle \in Task /\ Idle.pc = "idle" /\ TaskInv(Idle, ledger, friends)
  BY DEF Idle, Task, TaskInv, NoDoc

LEMMA LeaveStep ==
  ASSUME IInv, NEW h \in Handlers, Leave(h), task[h].pc # "push",
         UNCHANGED <<request, friends, notices, ledger, torn, faults>>
  PROVE  IInv'
  BY IdleFine, ReplyStep DEF Leave

(* A document in the collection is a snapshot of what was really asked.    *)
LEMMA FoundIsSnapshot ==
  ASSUME IInv, NEW id \in ReqIds, request[id] # NoDoc
  PROVE  /\ request[id] \in Doc
         /\ ledger[id].fate # "unused"
         /\ ledger[id].author = request[id].author
         /\ ledger[id].friend = request[id].friend
         /\ request[id].status = StatusOf(ledger[id].fate)
<1>1. /\ request[id] \in Doc
      /\ request[id] = [author |-> ledger[id].author, friend |-> ledger[id].friend,
                        status |-> StatusOf(ledger[id].fate)]
  BY DEF IInv, TypeOK, RequestsOnRecord, Present
<1> QED BY <1>1 DEF Doc, Statuses, StatusOf

-------------------------------------------------------------------------------
(* One lemma per action *)

LEMMA BeginCreateStep ==
  ASSUME IInv, NEW h \in Handlers, NEW u \in Users, NEW v \in Users, BeginCreate(h, u, v)
  PROVE  IInv'
<1> DEFINE T == [Idle EXCEPT !.op = "create", !.pc = "lookup",
                             !.user = u, !.peer = v, !.todo = Lookups]
<1>1. T \in Task /\ T.pc = "lookup"
  BY DEF Task, Idle, NoDoc, Lookups
<1>2. TaskInv(T, ledger, friends)
  BY DEF TaskInv, Idle
<1> QED BY <1>1, <1>2, ReplyStep DEF BeginCreate

LEMMA BeginSettleStep ==
  ASSUME IInv, NEW h \in Handlers, NEW u \in Users, NEW id \in ReqIds,
         \/ BeginCancel(h, u, id)
         \/ \E answer \in Answers : BeginRespond(h, u, id, answer)
  PROVE  IInv'
<1>1. CASE BeginCancel(h, u, id)
  <2> DEFINE T == [Idle EXCEPT !.op = "cancel", !.pc = "fetch", !.user = u, !.req = id]
  <2>1. T \in Task /\ T.pc = "fetch" /\ TaskInv(T, ledger, friends)
    BY DEF Task, Idle, NoDoc, TaskInv
  <2> QED BY <2>1, <1>1, ReplyStep DEF BeginCancel
<1>2. ASSUME NEW answer \in Answers, BeginRespond(h, u, id, answer) PROVE IInv'
  <2> DEFINE T == [Idle EXCEPT !.op = "respond", !.pc = "fetch",
                               !.user = u, !.req = id, !.answer = answer]
  <2>1. T \in Task /\ T.pc = "fetch" /\ TaskInv(T, ledger, friends)
    BY DEF Task, Idle, NoDoc, TaskInv
  <2> QED BY <2>1, <1>2, ReplyStep DEF BeginRespond
<1> QED BY <1>1, <1>2

LEMMA LookupRelationshipStep ==
  ASSUME IInv, NEW h \in Handlers, LookupRelationship(h)
  PROVE  IInv'
<1> DEFINE t == task[h]
           After(id, d) == [t EXCEPT !.req = id, !.doc = d, !.todo = @ \ {"relationship"}]
<1>1. t \in Task /\ TaskInv(t, ledger, friends) /\ t.pc = "lookup"
  BY DEF IInv, TypeOK, TasksInv, LookupRelationship
<1>2. ASSUME NEW id \in ReqIds, request[id] # NoDoc, Become(h, After(id, request[id])) PROVE IInv'
  <2>1. /\ request[id] \in Doc /\ ledger[id].fate # "unused"
        /\ ledger[id].author = request[id].author
        /\ ledger[id].friend = request[id].friend
    BY <1>2, FoundIsSnapshot
  <2>2. After(id, request[id]) \in Task /\ After(id, request[id]).pc = "lookup"
    BY <1>1, <2>1 DEF Task
  <2>3. TaskInv(After(id, request[id]), ledger, friends)
    BY <1>1, <2>1 DEF Task, TaskInv, Snapshot
  <2> QED BY <1>1, <1>2, <2>2, <2>3, ReplyStep DEF LookupRelationship
<1>3. CASE Become(h, After(None, NoDoc))
  <2>1. After(None, NoDoc) \in Task /\ After(None, NoDoc).pc = "lookup"
    BY <1>1 DEF Task, NoDoc
  <2>2. TaskInv(After(None, NoDoc), ledger, friends)
    BY <1>1 DEF Task, TaskInv
  <2> QED BY <1>1, <1>3, <2>1, <2>2, ReplyStep DEF LookupRelationship
<1> QED BY <1>2, <1>3 DEF LookupRelationship, Present

LEMMA LookupAuthorStep ==
  ASSUME IInv, NEW h \in Handlers, LookupAuthor(h)
  PROVE  IInv'
<1> DEFINE t == task[h]
           T == [t EXCEPT !.todo = @ \ {"author"},
                          !.known = AlreadyFriends(t.user, t.peer)]
<1>1. t \in Task /\ TaskInv(t, ledger, friends) /\ t.pc = "lookup"
  BY DEF IInv, TypeOK, TasksInv, LookupAuthor
<1>2. T \in Task /\ T.pc = "lookup"
  BY <1>1 DEF Task, AlreadyFriends
<1>3. TaskInv(T, ledger, friends)
  BY <1>1 DEF Task, TaskInv, Snapshot
<1> QED BY <1>1, <1>2, <1>3, ReplyStep DEF LookupAuthor

LEMMA CreateEndsStep ==
  ASSUME IInv, NEW h \in Handlers,
         CreateRefused(h) \/ CreateReturnsExisting(h) \/ CreateConflicts(h)
  PROVE  IInv'
<1>1. task[h] \in Task /\ TaskInv(task[h], ledger, friends) /\ task[h].pc = "lookup"
  BY DEF IInv, TypeOK, TasksInv, CreateRefused, CreateReturnsExisting, CreateConflicts,
         MayInsert, Looked
<1>2. CASE CreateRefused(h) \/ CreateConflicts(h)
  BY <1>1, <1>2, LeaveStep DEF CreateRefused, CreateConflicts
<1>3. CASE CreateReturnsExisting(h)
  <2> DEFINE T == [task[h] EXCEPT !.pc = "notify"]
  <2>1. T \in Task /\ T.pc = "notify"
    BY <1>1 DEF Task
  <2>2. Snapshot(task[h], ledger)
    BY <1>1, <1>3 DEF TaskInv, CreateReturnsExisting, NoDoc
  <2>3. TaskInv(T, ledger, friends)
    BY <1>1, <2>2 DEF Task, TaskInv, Snapshot
  <2> QED BY <1>1, <1>3, <2>1, <2>3, ReplyStep DEF CreateReturnsExisting
<1> QED BY <1>2, <1>3

LEMMA FetchStep ==
  ASSUME IInv, NEW h \in Handlers, FetchRequest(h) \/ FetchRefused(h)
  PROVE  IInv'
<1> DEFINE t == task[h]
           T == [t EXCEPT !.pc = "write", !.doc = request[t.req]]
<1>1. t \in Task /\ TaskInv(t, ledger, friends) /\ t.pc = "fetch"
  BY DEF IInv, TypeOK, TasksInv, FetchRequest, FetchRefused
<1>2. CASE FetchRefused(h)
  BY <1>1, <1>2, LeaveStep DEF FetchRefused
<1>3. CASE FetchRequest(h)
  <2>1. t.req \in ReqIds /\ request[t.req] # NoDoc
    BY <1>1, <1>3 DEF TaskInv, FetchRequest, MaySettle, NoDoc
  <2>2. /\ request[t.req] \in Doc /\ ledger[t.req].fate # "unused"
        /\ ledger[t.req].author = request[t.req].author
        /\ ledger[t.req].friend = request[t.req].friend
    BY <2>1, FoundIsSnapshot
  <2>3. T \in Task /\ T.pc = "write"
    BY <1>1, <2>2 DEF Task
  <2>4. TaskInv(T, ledger, friends)
    BY <1>1, <1>3, <2>1, <2>2 DEF Task, TaskInv, Snapshot, Entitled, FetchRequest, MaySettle
  <2> QED BY <1>1, <1>3, <2>3, <2>4, ReplyStep DEF FetchRequest
<1> QED BY <1>2, <1>3

-------------------------------------------------------------------------------
(* The steps that write a request *)

LEMMA DueFacts ==
  ASSUME NEW t, NEW u, NEW v, NEW id
  PROVE  /\ Due(t, u, v, id) \in Nat
         /\ Due(t, u, v, id) <= Limit(u, v)
         /\ t.pc # "push" \/ t.req # id => Due(t, u, v, id) = 0
  BY DEF Due, One, Limit

(* A step that inserts or settles a request and leaves lists and notices.  *)
LEMMA LedgerStep ==
  ASSUME IInv, NEW h \in Handlers, NEW T \in Task, Become(h, T),
         UNCHANGED <<friends, notices>>, LedgerKeeps,
         TaskInv(T, ledger', friends), task[h].pc # "push",
         T.pc = "push" => T.req \in ReqIds /\ ledger[T.req].fate = "pending",
         RequestsOnRecord', request' \in [ReqIds -> Doc \union {NoDoc}],
         ledger' \in [ReqIds -> LedgerEntry],
         torn' \in SUBSET ReqIds, faults' \in 0..MaxFaults, torn \subseteq torn',
         \A id \in ReqIds : ledger'[id] # ledger[id] /\ ledger'[id].fate = "accepted" =>
             id \in torn' \/ (T.pc = "push" /\ T.req = id)
  PROVE  IInv'
<1>1. FriendsKeep
  BY DEF FriendsKeep
<1>2. /\ task' \in [Handlers -> Task] /\ TasksInv'
      /\ task'[h] = T
      /\ \A g \in Handlers \ {h} : task'[g] = task[g]
  BY <1>1, TasksStep DEF IInv
<1>3. TypeOK'
  BY <1>2 DEF IInv, TypeOK
<1>4. EnteredByConsent' /\ OncePerAcceptance'
  BY DEF IInv, EnteredByConsent, OncePerAcceptance, Entry, LedgerKeeps
<1>5. NoticesTruthful'
  <2> SUFFICES ASSUME NEW n \in notices PROVE Truthful(n)'
    BY DEF NoticesTruthful
  <2>1. n \in Notice /\ Truthful(n)
    BY DEF IInv, TypeOK, NoticesTruthful
  <2> QED BY <2>1 DEF Truthful, LedgerKeeps, Notice, Answers
<1>6. OnePusher'
  <2> SUFFICES ASSUME NEW g \in Handlers, task[g].pc = "push", T.pc = "push"
               PROVE  task[g].req # T.req
    BY <1>2 DEF IInv, OnePusher
  <2>1. ledger[task[g].req].fate = "accepted"
    BY DEF IInv, TasksInv, TaskInv
  <2> QED BY <2>1
<1>7. WithinLimit'
  <2> SUFFICES ASSUME NEW u \in Users, NEW v \in Users, NEW id \in ReqIds, NEW g \in Handlers
               PROVE  friends[u][<<v, id>>] + Due(task'[g], u, v, id) <= Limit(u, v)
    BY DEF WithinLimit
  <2>0. friends[u][<<v, id>>] \in Nat /\ friends[u][<<v, id>>] <= Limit(u, v)
    BY DEF IInv, TypeOK, Entries, OncePerAcceptance, Limit
  <2>1. CASE g # h
    BY <2>1, <1>2 DEF IInv, WithinLimit
  <2>2. CASE g = h /\ T.pc = "push" /\ T.req = id
    <3>1. friends[u][<<v, id>>] = 0
      BY <2>0, <2>2 DEF IInv, EnteredByConsent, Entry
    <3>2. Due(T, u, v, id) \in Nat /\ Due(T, u, v, id) <= Limit(u, v)
      BY DueFacts
    <3> QED BY <3>1, <3>2, <2>2, <1>2
  <2>3. CASE g = h /\ ~(T.pc = "push" /\ T.req = id)
    <3>1. Due(T, u, v, id) = 0
      BY <2>3, DueFacts
    <3> QED BY <3>1, <2>0, <2>3, <1>2
  <2> QED BY <2>1, <2>2, <2>3
<1>8. AcceptedIsMutual'
  <2> SUFFICES ASSUME NEW id \in ReqIds, ledger'[id].fate = "accepted", id \notin torn',
                      ~BeingEntered(id)'
               PROVE  BothEntered(id)'
    BY DEF AcceptedIsMutual
  <2>1. ~(T.pc = "push" /\ T.req = id)
    BY <1>2 DEF BeingEntered
  <2>2. ledger'[id] = ledger[id]
    BY <2>1
  <2>3. ~BeingEntered(id)
    BY <1>2 DEF BeingEntered
  <2>4. BothEntered(id)
    BY <2>2, <2>3 DEF IInv, AcceptedIsMutual
  <2> QED BY <2>2, <2>4 DEF BothEntered, Entry
<1> QED
  BY <1>2, <1>3, <1>4, <1>5, <1>6, <1>7, <1>8 DEF IInv

LEMMA InsertFacts ==
  ASSUME IInv, NEW id \in ReqIds, NEW a \in Users, NEW f \in Users, Insert(id, a, f)
  PROVE  /\ LedgerKeeps /\ RequestsOnRecord'
         /\ request' \in [ReqIds -> Doc \union {NoDoc}]
         /\ request'[id] = [author |-> a, friend |-> f, status |-> "Request"]
         /\ ledger'[id] = [author |-> a, friend |-> f, fate |-> "pending", by |-> None]
         /\ \A j \in ReqIds : ledger'[j] # ledger[j] => ledger'[j].fate # "accepted"
         /\ ledger' \in [ReqIds -> LedgerEntry]
<1>1. /\ request' = [request EXCEPT ![id] = [author |-> a, friend |-> f, status |-> "Request"]]
      /\ ledger' = [ledger EXCEPT ![id] = [author |-> a, friend |-> f,
                                           fate |-> "pending", by |-> None]]
      /\ ledger[id].fate = "unused"
  BY DEF Insert, Record
<1>2. /\ request' \in [ReqIds -> Doc \union {NoDoc}]
      /\ request'[id] = [author |-> a, friend |-> f, status |-> "Request"]
      /\ ledger'[id] = [author |-> a, friend |-> f, fate |-> "pending", by |-> None]
      /\ \A j \in ReqIds \ {id} : ledger'[j] = ledger[j] /\ request'[j] = request[j]
      /\ ledger' \in [ReqIds -> LedgerEntry]
  BY <1>1 DEF IInv, TypeOK, Doc, Statuses, LedgerEntry
<1>3. LedgerKeeps
  BY <1>1, <1>2 DEF LedgerKeeps
<1>4. RequestsOnRecord'
  <2> SUFFICES ASSUME NEW j \in ReqIds
      PROVE  /\ ledger'[j].fate = "pending" => request'[j] # NoDoc
             /\ request'[j] # NoDoc => request'[j] = [author |-> ledger'[j].author,
                                         friend |-> ledger'[j].friend,
                                         status |-> StatusOf(ledger'[j].fate)]
    BY DEF RequestsOnRecord, Present, NoDoc, StatusOf
  <2>1. CASE j = id
    BY <2>1, <1>2 DEF StatusOf, NoDoc
  <2>2. CASE j # id
    BY <2>2, <1>2 DEF IInv, RequestsOnRecord, Present
  <2> QED BY <2>1, <2>2
<1> QED BY <1>2, <1>3, <1>4

LEMMA CreateInsertsStep ==
  ASSUME IInv, NEW h \in Handlers, CreateInserts(h)
  PROVE  IInv'
<1>1. task[h] \in Task /\ TaskInv(task[h], ledger, friends) /\ task[h].pc = "lookup"
  BY DEF IInv, TypeOK, TasksInv, CreateInserts, MayInsert, Looked
<1>2. task[h].op = "create" /\ task[h].user \in Users /\ task[h].peer \in Users
  BY <1>1 DEF TaskInv
<1>3. PICK id \in ReqIds :
        /\ Insert(id, task[h].user, task[h].peer)
        /\ Become(h, [task[h] EXCEPT !.pc = "notify", !.req = id, !.doc = request'[id]])
  BY DEF CreateInserts
<1> DEFINE d == [author |-> task[h].user, friend |-> task[h].peer, status |-> "Request"]
           T == [task[h] EXCEPT !.pc = "notify", !.req = id, !.doc = d]
<1>4. /\ LedgerKeeps /\ RequestsOnRecord'
      /\ request' \in [ReqIds -> Doc \union {NoDoc}]
      /\ request'[id] = d
      /\ ledger'[id] = [author |-> task[h].user, friend |-> task[h].peer,
                        fate |-> "pending", by |-> None]
      /\ \A j \in ReqIds : ledger'[j] # ledger[j] => ledger'[j].fate # "accepted"
      /\ ledger' \in [ReqIds -> LedgerEntry]
  BY <1>2, <1>3, InsertFacts
<1>5. d \in Doc
  BY <1>2 DEF Doc, Statuses
<1>6. T \in Task /\ T.pc = "notify"
  BY <1>1, <1>5 DEF Task
<1>7. TaskInv(T, ledger', friends)
  BY <1>1, <1>2, <1>4, <1>5 DEF Task, TaskInv, Snapshot
<1>8. torn' \in SUBSET ReqIds /\ faults' \in 0..MaxFaults /\ torn \subseteq torn'
      /\ UNCHANGED <<friends, notices>>
  BY DEF IInv, TypeOK, CreateInserts
<1> HIDE DEF T, d
<1> QED BY <1>1, <1>3, <1>4, <1>6, <1>7, <1>8, LedgerStep DEF T

LEMMA CreateErrsStep ==
  ASSUME IInv, NEW h \in Handlers, CreateErrs(h)
  PROVE  IInv'
<1>1. task[h] \in Task /\ TaskInv(task[h], ledger, friends) /\ task[h].pc = "lookup"
  BY DEF IInv, TypeOK, TasksInv, CreateErrs, MayInsert, Looked
<1>2. task[h].user \in Users /\ task[h].peer \in Users
  BY <1>1 DEF TaskInv
<1>3. faults' \in 0..MaxFaults
  BY MaxFaultsAssumption DEF IInv, TypeOK, CreateErrs, Fault
<1>4. Become(h, Idle) /\ UNCHANGED <<friends, notices, torn>>
  BY DEF CreateErrs, Leave
<1>5. ASSUME NEW id \in ReqIds, Insert(id, task[h].user, task[h].peer) PROVE IInv'
  <2>1. /\ LedgerKeeps /\ RequestsOnRecord'
        /\ request' \in [ReqIds -> Doc \union {NoDoc}]
        /\ \A j \in ReqIds : ledger'[j] # ledger[j] => ledger'[j].fate # "accepted"
        /\ ledger' \in [ReqIds -> LedgerEntry]
    BY <1>2, <1>5, InsertFacts
  <2>2. Idle \in Task /\ Idle.pc = "idle" /\ TaskInv(Idle, ledger', friends)
    BY DEF Idle, Task, TaskInv, NoDoc
  <2>3. torn' \in SUBSET ReqIds /\ torn \subseteq torn'
    BY <1>4 DEF IInv, TypeOK
  <2> QED BY <1>1, <1>3, <1>4, <2>1, <2>2, <2>3, LedgerStep
<1>6. CASE UNCHANGED <<request, ledger>>
  <2>1. RequestsOnRecord'
    BY <1>6 DEF IInv, RequestsOnRecord, Present, NoDoc, StatusOf
  <2>2. NoticesTruthful'
    BY <1>4, <1>6 DEF IInv, NoticesTruthful, Truthful
  <2>3. /\ request' \in [ReqIds -> Doc \union {NoDoc}] /\ torn' \in SUBSET ReqIds
        /\ torn \subseteq torn' /\ notices' \in SUBSET Notice
    BY <1>4, <1>6 DEF IInv, TypeOK
  <2> QED BY <1>1, <1>3, <1>4, <1>6, <2>1, <2>2, <2>3, IdleFine, QuietStep
<1> QED BY <1>5, <1>6 DEF CreateErrs

LEMMA SettleFacts ==
  ASSUME IInv, NEW h \in Handlers, task[h].pc = "write", Settle(task[h])
  PROVE  LET t == task[h] IN
         /\ t.req \in ReqIds /\ ledger[t.req].fate = "pending"
         /\ LedgerKeeps /\ RequestsOnRecord'
         /\ request' \in [ReqIds -> Doc \union {NoDoc}]
         /\ ledger'[t.req] = [ledger[t.req] EXCEPT !.fate = Fate(t), !.by = t.user]
         /\ \A j \in ReqIds : ledger'[j] # ledger[j] => j = t.req
         /\ ledger' \in [ReqIds -> LedgerEntry]
<1> DEFINE t == task[h]
<1>1. /\ t \in Task /\ TaskInv(t, ledger, friends)
      /\ t.req \in ReqIds /\ t.user \in Users
      /\ (t.op = "respond" /\ t.answer \in Answers) \/ (t.op = "cancel" /\ t.answer = None)
  BY DEF IInv, TypeOK, TasksInv, TaskInv
<1>2. request[t.req].status = "Request" /\ request[t.req] # NoDoc
  BY DEF Settle, StillOpen, NoDoc
<1>3. /\ request[t.req] \in Doc
      /\ request[t.req] = [author |-> ledger[t.req].author, friend |-> ledger[t.req].friend,
                           status |-> "Request"]
      /\ ledger[t.req].fate = "pending"
  BY <1>1, <1>2 DEF IInv, TypeOK, RequestsOnRecord, Present, StatusOf, Doc
<1>4. ledger' = [ledger EXCEPT ![t.req].fate = Fate(t), ![t.req].by = t.user]
  BY DEF Settle
<1>5. Fate(t) \in {"accepted", "rejected", "cancelled"}
  BY DEF Fate
<1>6. /\ ledger'[t.req] = [ledger[t.req] EXCEPT !.fate = Fate(t), !.by = t.user]
      /\ \A j \in ReqIds : j # t.req => ledger'[j] = ledger[j]
      /\ ledger' \in [ReqIds -> LedgerEntry]
  BY <1>1, <1>4, <1>5 DEF IInv, TypeOK, LedgerEntry
<1>7. /\ ledger'[t.req].author = ledger[t.req].author
      /\ ledger'[t.req].friend = ledger[t.req].friend
      /\ ledger'[t.req].fate = Fate(t)
  BY <1>1, <1>6 DEF IInv, TypeOK, LedgerEntry
<1>8. LedgerKeeps
  BY <1>3, <1>5, <1>6, <1>7 DEF LedgerKeeps
<1>9. /\ request' \in [ReqIds -> Doc \union {NoDoc}]
      /\ \A j \in ReqIds : j # t.req => request'[j] = request[j]
      /\ request'[t.req] = IF t.op = "cancel" THEN NoDoc
                           ELSE [author |-> ledger[t.req].author,
                                 friend |-> ledger[t.req].friend, status |-> t.answer]
  <2>1. CASE t.op = "cancel"
    BY <1>1, <2>1 DEF Settle, IInv, TypeOK
  <2>2. CASE t.op = "respond"
    <3>1. request' = [request EXCEPT ![t.req].status = t.answer]
      BY <2>2 DEF Settle
    <3>2. [request[t.req] EXCEPT !.status = t.answer] \in Doc
      BY <1>1, <1>3, <2>2 DEF Doc, Answers, Statuses
    <3> QED BY <1>1, <1>3, <2>2, <3>1, <3>2 DEF IInv, TypeOK
  <2> QED BY <1>1, <2>1, <2>2
<1>10. RequestsOnRecord'
  <2> SUFFICES ASSUME NEW j \in ReqIds
      PROVE  /\ ledger'[j].fate = "pending" => request'[j] # NoDoc
             /\ request'[j] # NoDoc => request'[j] = [author |-> ledger'[j].author,
                                         friend |-> ledger'[j].friend,
                                         status |-> StatusOf(ledger'[j].fate)]
    BY DEF RequestsOnRecord, Present, NoDoc, StatusOf
  <2>1. CASE j = t.req
    BY <2>1, <1>1, <1>5, <1>7, <1>9 DEF StatusOf, Fate, Answers
  <2>2. CASE j # t.req
    BY <2>2, <1>6, <1>9 DEF IInv, RequestsOnRecord, Present
  <2> QED BY <2>1, <2>2
<1> QED BY <1>1, <1>3, <1>6, <1>8, <1>9, <1>10

LEMMA SettleWinsStep ==
  ASSUME IInv, NEW h \in Handlers, SettleWins(h)
  PROVE  IInv'
<1> DEFINE t == task[h]
           T == IF t.answer = "Accept" THEN [t EXCEPT !.pc = "push", !.todo = Sides]
                                       ELSE [t EXCEPT !.pc = "notify"]
<1>1. /\ t \in Task /\ TaskInv(t, ledger, friends) /\ t.pc = "write"
      /\ Settle(t) /\ Become(h, T) /\ UNCHANGED <<friends, notices, torn, faults>>
  BY DEF IInv, TypeOK, TasksInv, SettleWins
<1>2. /\ t.req \in ReqIds /\ ledger[t.req].fate = "pending"
      /\ LedgerKeeps /\ RequestsOnRecord'
      /\ request' \in [ReqIds -> Doc \union {NoDoc}]
      /\ ledger'[t.req] = [ledger[t.req] EXCEPT !.fate = Fate(t), !.by = t.user]
      /\ \A j \in ReqIds : ledger'[j] # ledger[j] => j = t.req
      /\ ledger' \in [ReqIds -> LedgerEntry]
  BY <1>1, SettleFacts
<1>3. /\ Snapshot(t, ledger) /\ Entitled(t)
      /\ (t.op = "respond" /\ t.answer \in Answers) \/ (t.op = "cancel" /\ t.answer = None)
  BY <1>1 DEF TaskInv
<1>4. /\ ledger'[t.req].author = t.doc.author /\ ledger'[t.req].friend = t.doc.friend
      /\ ledger'[t.req].fate = Fate(t) /\ ledger'[t.req].by = t.user
      /\ Fate(t) # "unused"
  BY <1>2, <1>3 DEF Snapshot, IInv, TypeOK, LedgerEntry, Fate
<1>5. T \in Task
  BY <1>1 DEF Task, Sides
<1>6. CASE t.answer = "Accept"
  <2>1. /\ T.pc = "push" /\ T.req = t.req /\ T.doc = t.doc /\ T.todo = Sides
        /\ T.op = t.op /\ T.answer = t.answer
    BY <1>1, <1>6 DEF Task
  <2>2. t.op = "respond" /\ Fate(t) = "accepted" /\ t.user = t.doc.friend
    BY <1>3, <1>6, NoneAssumption DEF Fate, Entitled
  <2>3. TaskInv(T, ledger', friends)
    BY <1>2, <1>3, <1>4, <1>6, <2>1, <2>2 DEF TaskInv, Snapshot
  <2>4. torn' \in SUBSET ReqIds /\ torn \subseteq torn' /\ faults' \in 0..MaxFaults
    BY <1>1 DEF IInv, TypeOK
  <2> HIDE DEF T
  <2> QED BY <1>1, <1>2, <1>5, <2>1, <2>3, <2>4, LedgerStep
<1>7. CASE t.answer # "Accept"
  <2>1. /\ T.pc = "notify" /\ T.req = t.req /\ T.doc = t.doc
        /\ T.op = t.op /\ T.answer = t.answer
    BY <1>1, <1>7 DEF Task
  <2>2. \/ t.op = "cancel" /\ Fate(t) = "cancelled"
        \/ t.op = "respond" /\ t.answer = "Reject" /\ Fate(t) = "rejected"
    BY <1>3, <1>7 DEF Fate, Answers
  <2>3. TaskInv(T, ledger', friends)
    BY <1>2, <1>3, <1>4, <2>1, <2>2 DEF TaskInv, Snapshot
  <2>4. torn' \in SUBSET ReqIds /\ torn \subseteq torn' /\ faults' \in 0..MaxFaults
    BY <1>1 DEF IInv, TypeOK
  <2>5. \A id \in ReqIds : ledger'[id] # ledger[id] => ledger'[id].fate # "accepted"
    BY <1>2, <1>4, <2>2
  <2> HIDE DEF T
  <2> QED BY <1>1, <1>2, <1>5, <2>1, <2>3, <2>4, <2>5, LedgerStep
<1> QED BY <1>6, <1>7

LEMMA SettleErrsStep ==
  ASSUME IInv, NEW h \in Handlers, SettleErrs(h)
  PROVE  IInv'
<1>1. task[h].pc = "write" /\ Become(h, Idle) /\ UNCHANGED <<friends, notices>>
  BY DEF SettleErrs, Leave
<1>2. faults' \in 0..MaxFaults
  BY MaxFaultsAssumption DEF IInv, TypeOK, SettleErrs, Fault
<1>3. CASE Settle(task[h]) /\ torn' = torn \union {task[h].req}
  <2>1. /\ task[h].req \in ReqIds
        /\ LedgerKeeps /\ RequestsOnRecord'
        /\ request' \in [ReqIds -> Doc \union {NoDoc}]
        /\ \A j \in ReqIds : ledger'[j] # ledger[j] => j = task[h].req
        /\ ledger' \in [ReqIds -> LedgerEntry]
    BY <1>1, <1>3, SettleFacts
  <2>2. Idle \in Task /\ Idle.pc = "idle" /\ TaskInv(Idle, ledger', friends)
    BY DEF Idle, Task, TaskInv, NoDoc
  <2>3. /\ torn' \in SUBSET ReqIds /\ torn \subseteq torn'
        /\ \A j \in ReqIds : ledger'[j] # ledger[j] => j \in torn'
    BY <1>3, <2>1 DEF IInv, TypeOK
  <2> QED BY <1>1, <1>2, <2>1, <2>2, <2>3, LedgerStep
<1>4. CASE UNCHANGED <<request, ledger, torn>>
  <2>1. RequestsOnRecord'
    BY <1>4 DEF IInv, RequestsOnRecord, Present, NoDoc, StatusOf
  <2>2. NoticesTruthful'
    BY <1>1, <1>4 DEF IInv, NoticesTruthful, Truthful
  <2>3. /\ request' \in [ReqIds -> Doc \union {NoDoc}] /\ torn' \in SUBSET ReqIds
        /\ torn \subseteq torn' /\ notices' \in SUBSET Notice
    BY <1>1, <1>4 DEF IInv, TypeOK
  <2> QED BY <1>1, <1>2, <1>4, <2>1, <2>2, <2>3, IdleFine, QuietStep
<1> QED BY <1>3, <1>4 DEF SettleErrs

LEMMA SettleLosesStep ==
  ASSUME IInv, NEW h \in Handlers, SettleLoses(h)
  PROVE  IInv'
  BY LeaveStep DEF SettleLoses

-------------------------------------------------------------------------------
(* The steps that push into the friend lists *)

LEMMA PushEffect ==
  ASSUME IInv, NEW t \in Task, Snapshot(t, ledger), NEW side \in Sides, Push(t, side)
  PROVE  /\ friends' \in [Users -> [Entries -> Nat]]
         /\ \A u, v \in Users, id \in ReqIds :
              friends'[u][<<v, id>>] =
                friends[u][<<v, id>>] +
                  One(u = Owner(t.doc, side) /\ v = Other(t.doc, side) /\ id = t.req)
<1> DEFINE ow == Owner(t.doc, side)
           ot == Other(t.doc, side)
<1>1. ow \in Users /\ ot \in Users /\ t.req \in ReqIds
  BY DEF Owner, Other, Snapshot, Doc
<1>2. friends \in [Users -> [Entries -> Nat]] /\ <<ot, t.req>> \in Entries
  BY <1>1 DEF IInv, TypeOK, Entries
<1>3. friends' = [friends EXCEPT ![ow][<<ot, t.req>>] = @ + 1]
  BY DEF Push
<1> HIDE DEF ow, ot
<1>4. friends' \in [Users -> [Entries -> Nat]]
  BY <1>1, <1>2, <1>3
<1>5. ASSUME NEW u \in Users, NEW v \in Users, NEW id \in ReqIds
      PROVE  friends'[u][<<v, id>>] =
               friends[u][<<v, id>>] + One(u = ow /\ v = ot /\ id = t.req)
  <2>1. <<v, id>> \in Entries /\ friends[u][<<v, id>>] \in Nat
    BY <1>2 DEF Entries
  <2>2. CASE u = ow /\ v = ot /\ id = t.req
    BY <1>1, <1>2, <1>3, <2>2, <2>1 DEF One
  <2>3. CASE ~(u = ow /\ v = ot /\ id = t.req)
    BY <1>1, <1>2, <1>3, <2>1, <2>3 DEF One
  <2> QED BY <2>2, <2>3
<1> QED BY <1>4, <1>5 DEF ow, ot

(* One push answered: applied, or failed with or without being applied.    *)
LEMMA PushStep ==
  ASSUME IInv, NEW h \in Handlers, NEW side \in Sides, NEW fl \in BOOLEAN,
         task[h].pc = "push", side \in task[h].todo,
         task[h].failed => fl,
         Become(h, [task[h] EXCEPT !.todo = @ \ {side}, !.failed = fl]),
         Push(task[h], side) \/ (UNCHANGED friends /\ fl),
         UNCHANGED <<request, notices, ledger, torn>>, faults' \in 0..MaxFaults
  PROVE  IInv'
<1> DEFINE t == task[h]
           T == [t EXCEPT !.todo = @ \ {side}, !.failed = fl]
<1>1. /\ t \in Task /\ TaskInv(t, ledger, friends)
      /\ t.op = "respond" /\ t.answer = "Accept" /\ t.todo \subseteq Sides
      /\ Snapshot(t, ledger) /\ ledger[t.req].fate = "accepted"
      /\ ledger[t.req].by = ledger[t.req].friend
      /\ t.doc.author \in Users /\ t.doc.friend \in Users /\ t.req \in ReqIds
  BY DEF IInv, TypeOK, TasksInv, TaskInv, Snapshot, Doc
<1>2. /\ T \in Task /\ T.pc = "push" /\ T.req = t.req /\ T.doc = t.doc
      /\ T.op = t.op /\ T.answer = t.answer
      /\ T.todo = t.todo \ {side} /\ T.failed = fl
  BY <1>1 DEF Task
<1> DEFINE Hit(u, v, id) == u = Owner(t.doc, side) /\ v = Other(t.doc, side) /\ id = t.req
<1>3. /\ friends' \in [Users -> [Entries -> Nat]]
      /\ \A u, v \in Users, id \in ReqIds :
           /\ friends'[u][<<v, id>>] \in Nat /\ friends[u][<<v, id>>] \in Nat
           /\ \/ friends'[u][<<v, id>>] = friends[u][<<v, id>>]
              \/ Hit(u, v, id) /\ friends'[u][<<v, id>>] = friends[u][<<v, id>>] + 1
      /\ fl \/ \A u, v \in Users, id \in ReqIds :
           Hit(u, v, id) => friends'[u][<<v, id>>] = friends[u][<<v, id>>] + 1
  <2>0. \A u, v \in Users, id \in ReqIds : friends[u][<<v, id>>] \in Nat
    BY DEF IInv, TypeOK, Entries
  <2>1. CASE Push(t, side)
    <3>1. /\ friends' \in [Users -> [Entries -> Nat]]
          /\ \A u, v \in Users, id \in ReqIds :
               friends'[u][<<v, id>>] = friends[u][<<v, id>>] + One(Hit(u, v, id))
      BY <1>1, <2>1, PushEffect
    <3> QED BY <2>0, <3>1 DEF One
  <2>2. CASE UNCHANGED friends /\ fl
    BY <2>0, <2>2 DEF IInv, TypeOK
  <2> QED BY <2>1, <2>2
<1>4. FriendsKeep /\ LedgerKeeps
  BY <1>3 DEF FriendsKeep, LedgerKeeps
<1>5. TaskInv(T, ledger', friends')
  <2>1. Snapshot(T, ledger')
    BY <1>1, <1>2 DEF Snapshot
  <2>2. ASSUME NEW s \in Sides PROVE s \in T.todo \/ T.failed \/ Pushed(T, friends', s)
    <3>1. Owner(t.doc, s) \in Users /\ Other(t.doc, s) \in Users
      BY <1>1 DEF Owner, Other
    <3>2. CASE s # side
      <4>1. s \in t.todo \/ t.failed \/ Pushed(t, friends, s)
        BY <1>1 DEF TaskInv
      <4>2. Pushed(t, friends, s) => Pushed(T, friends', s)
        BY <1>1, <1>2, <1>4, <3>1 DEF Pushed, FriendsKeep
      <4> QED BY <4>1, <4>2, <3>2, <1>2
    <3>3. CASE s = side
      BY <1>1, <1>2, <1>3, <3>1, <3>3 DEF Pushed
    <3> QED BY <3>2, <3>3
  <2> HIDE DEF T
  <2> QED BY <1>1, <1>2, <2>1, <2>2 DEF TaskInv
<1> HIDE DEF T
<1>6. /\ task' \in [Handlers -> Task] /\ TasksInv' /\ task'[h] = T
      /\ \A g \in Handlers \ {h} : task'[g] = task[g]
  BY <1>2, <1>4, <1>5, TasksStep DEF IInv, T
<1>7. TypeOK'
  BY <1>3, <1>6 DEF IInv, TypeOK
<1>8. RequestsOnRecord' /\ NoticesTruthful'
  <2>1. RequestsOnRecord'
    BY DEF IInv, RequestsOnRecord, Present, NoDoc, StatusOf
  <2>2. NoticesTruthful'
    BY DEF IInv, NoticesTruthful, Truthful
  <2> QED BY <2>1, <2>2
<1>9. EnteredByConsent'
  <2> SUFFICES ASSUME NEW u \in Users, NEW v \in Users, NEW id \in ReqIds,
                      friends'[u][<<v, id>>] > 0
               PROVE  /\ ledger[id].fate = "accepted"
                      /\ ledger[id].by = ledger[id].friend
                      /\ <<u, v>> \in {<<ledger[id].author, ledger[id].friend>>,
                                       <<ledger[id].friend, ledger[id].author>>}
    BY DEF EnteredByConsent, Entry
  <2>1. CASE friends[u][<<v, id>>] > 0
    BY <2>1 DEF IInv, EnteredByConsent, Entry
  <2>2. CASE Hit(u, v, id)
    BY <2>2, <1>1 DEF Owner, Other, Snapshot
  <2> QED BY <2>1, <2>2, <1>3
<1>10. OnePusher'
  BY <1>2, <1>6 DEF IInv, OnePusher
<1>11. ASSUME NEW u \in Users, NEW v \in Users, NEW id \in ReqIds
       PROVE  friends'[u][<<v, id>>] + Due(T, u, v, id) <= Limit(u, v)
  <2>1. friends[u][<<v, id>>] + Due(t, u, v, id) <= Limit(u, v)
    BY DEF IInv, WithinLimit
  <2>2. Due(T, u, v, id) \in Nat /\ Due(t, u, v, id) \in Nat /\ Limit(u, v) \in Nat
    BY DueFacts DEF Limit
  <2>3. CASE Hit(u, v, id)
    <3>1. Due(t, u, v, id) = Due(T, u, v, id) + 1
      BY <2>3, <1>1, <1>2 DEF Due, One, Owner, Other, Sides
    <3> QED BY <2>1, <2>2, <3>1, <1>3
  <2>4. CASE ~Hit(u, v, id)
    <3>1. Due(t, u, v, id) >= Due(T, u, v, id)
      BY <1>1, <1>2 DEF Due, One
    <3> QED BY <2>1, <2>2, <2>4, <3>1, <1>3
  <2> QED BY <2>3, <2>4
<1>12. WithinLimit' /\ OncePerAcceptance'
  <2>1. ASSUME NEW u \in Users, NEW v \in Users, NEW id \in ReqIds
        PROVE  friends'[u][<<v, id>>] <= Limit(u, v)
    BY <1>3, <1>11, DueFacts DEF Limit
  <2>2. ASSUME NEW u \in Users, NEW v \in Users, NEW id \in ReqIds, NEW g \in Handlers
        PROVE  friends'[u][<<v, id>>] + Due(task'[g], u, v, id) <= Limit(u, v)
    <3>1. CASE g = h
      BY <3>1, <1>6, <1>11
    <3>2. CASE g # h /\ id = t.req
      <4>1. ~(task[g].pc = "push" /\ task[g].req = id)
        BY <3>2 DEF IInv, OnePusher
      <4>2. Due(task'[g], u, v, id) = 0
        BY <3>2, <4>1, <1>6, DueFacts
      <4> QED BY <2>1, <4>2, <1>3
    <3>3. CASE g # h /\ id # t.req
      BY <3>3, <1>3, <1>6 DEF IInv, WithinLimit
    <3> QED BY <3>1, <3>2, <3>3
  <2> QED BY <2>1, <2>2 DEF WithinLimit, OncePerAcceptance, Limit
<1>13. AcceptedIsMutual'
  <2>1. \A id \in ReqIds : BeingEntered(id) => BeingEntered(id)'
    BY <1>2, <1>6 DEF BeingEntered
  <2>2. \A id \in ReqIds : BothEntered(id) => BothEntered(id)'
    BY <1>4 DEF BothEntered, Entry, FriendsKeep
  <2> QED BY <2>1, <2>2 DEF IInv, AcceptedIsMutual
<1> QED
  BY <1>6, <1>7, <1>8, <1>9, <1>10, <1>12, <1>13 DEF IInv

LEMMA PushDoneStep ==
  ASSUME IInv, NEW h \in Handlers, NEW side \in Sides, PushDone(h, side)
  PROVE  IInv'
<1>1. task[h] \in Task /\ faults' \in 0..MaxFaults
  BY DEF IInv, TypeOK, PushDone
<1>2. task[h].failed \in BOOLEAN
  BY <1>1 DEF Task
<1>3. [task[h] EXCEPT !.todo = @ \ {side}] =
      [task[h] EXCEPT !.todo = @ \ {side}, !.failed = task[h].failed]
  BY <1>1 DEF Task
<1> QED BY <1>1, <1>2, <1>3, PushStep DEF PushDone

LEMMA PushErrsStep ==
  ASSUME IInv, NEW h \in Handlers, NEW side \in Sides, PushErrs(h, side)
  PROVE  IInv'
<1>1. faults' \in 0..MaxFaults
  BY MaxFaultsAssumption DEF IInv, TypeOK, PushErrs, Fault
<1> QED BY <1>1, PushStep DEF PushErrs

LEMMA PushesEndStep ==
  ASSUME IInv, NEW h \in Handlers, PushesEnd(h)
  PROVE  IInv'
<1> DEFINE t == task[h]
           T == [t EXCEPT !.pc = "notify"]
<1>1. /\ t \in Task /\ TaskInv(t, ledger, friends) /\ t.pc = "push" /\ t.todo = {}
      /\ t.op = "respond" /\ t.answer = "Accept"
      /\ Snapshot(t, ledger) /\ ledger[t.req].fate = "accepted"
      /\ t.req \in ReqIds /\ t.doc \in Doc
      /\ UNCHANGED <<request, friends, notices, ledger, faults>>
  BY DEF IInv, TypeOK, TasksInv, TaskInv, Snapshot, PushesEnd
<1>2. LedgerKeeps /\ FriendsKeep
  BY <1>1, NothingLost
<1>3. /\ T \in Task /\ T.pc = "notify" /\ T.req = t.req /\ T.doc = t.doc
      /\ T.op = t.op /\ T.answer = t.answer
  BY <1>1 DEF Task
<1>4. ~t.failed => \A side \in Sides : Pushed(t, friends, side)
  BY <1>1 DEF TaskInv
<1>5. ~t.failed => TaskInv(T, ledger, friends)
  <2> HIDE DEF T
  <2> QED BY <1>1, <1>3, <1>4 DEF TaskInv, Snapshot, Pushed
<1> HIDE DEF T
<1>6. PICK N \in Task :
        /\ Become(h, N) /\ N.pc # "push" /\ TaskInv(N, ledger', friends')
        /\ torn \subseteq torn' /\ torn' \in SUBSET ReqIds
        /\ t.failed => t.req \in torn'
  <2>1. CASE ~t.failed /\ Become(h, T) /\ UNCHANGED torn
    BY <2>1, <1>1, <1>3, <1>5 DEF IInv, TypeOK
  <2>2. CASE t.failed /\ Leave(h) /\ torn' = torn \union {t.req}
    BY <2>2, <1>1, IdleFine DEF IInv, TypeOK, Leave
  <2> QED BY <2>1, <2>2 DEF PushesEnd, T
<1>7. /\ task' \in [Handlers -> Task] /\ TasksInv' /\ task'[h] = N
      /\ \A g \in Handlers \ {h} : task'[g] = task[g]
  BY <1>2, <1>6, TasksStep DEF IInv
<1>8. TypeOK'
  BY <1>1, <1>6, <1>7 DEF IInv, TypeOK
<1>9. RequestsOnRecord' /\ NoticesTruthful'
  <2>1. RequestsOnRecord'
    BY <1>1 DEF IInv, RequestsOnRecord, Present, NoDoc, StatusOf
  <2>2. NoticesTruthful'
    BY <1>1 DEF IInv, NoticesTruthful, Truthful
  <2> QED BY <2>1, <2>2
<1>10. EnteredByConsent' /\ OncePerAcceptance'
  BY <1>1 DEF IInv, EnteredByConsent, OncePerAcceptance, Entry
<1>11. OnePusher'
  BY <1>6, <1>7 DEF IInv, OnePusher
<1>12. WithinLimit'
  <2> SUFFICES ASSUME NEW u \in Users, NEW v \in Users, NEW id \in ReqIds, NEW g \in Handlers
               PROVE  friends[u][<<v, id>>] + Due(task'[g], u, v, id) <= Limit(u, v)
    BY <1>1 DEF WithinLimit
  <2>1. CASE g # h
    BY <2>1, <1>7 DEF IInv, WithinLimit
  <2>2. CASE g = h
    <3>1. Due(N, u, v, id) = 0
      BY <1>6, DueFacts
    <3>2. friends[u][<<v, id>>] \in Nat /\ friends[u][<<v, id>>] <= Limit(u, v)
      BY DEF IInv, TypeOK, Entries, OncePerAcceptance, Limit
    <3> QED BY <2>2, <1>7, <3>1, <3>2
  <2> QED BY <2>1, <2>2
<1>13. AcceptedIsMutual'
  <2> SUFFICES ASSUME NEW id \in ReqIds, ledger[id].fate = "accepted", id \notin torn',
                      ~BeingEntered(id)'
               PROVE  BothEntered(id)
    BY <1>1 DEF AcceptedIsMutual, BothEntered, Entry
  <2>1. CASE id = t.req
    <3>1. ~t.failed
      BY <1>6, <2>1
    <3>2. Pushed(t, friends, "author") /\ Pushed(t, friends, "friend")
      BY <1>4, <3>1 DEF Sides
    <3> QED BY <1>1, <2>1, <3>2 DEF BothEntered, Entry, Pushed, Owner, Other, Snapshot, Doc
  <2>2. CASE id # t.req
    <3>1. ~BeingEntered(id)
      BY <2>2, <1>7 DEF BeingEntered
    <3> QED BY <3>1, <1>6 DEF IInv, AcceptedIsMutual
  <2> QED BY <2>1, <2>2
<1> QED
  BY <1>7, <1>8, <1>9, <1>10, <1>11, <1>12, <1>13 DEF IInv

-------------------------------------------------------------------------------
(* Notices, expiry, crash *)

LEMMA NotifyStep ==
  ASSUME IInv, NEW h \in Handlers, Notify(h)
  PROVE  IInv'
<1> DEFINE t == task[h]
           n == [to |-> Recipient(t), kind |-> Kind(t), req |-> t.req]
<1>1. /\ t \in Task /\ TaskInv(t, ledger, friends) /\ t.pc = "notify"
      /\ Snapshot(t, ledger) /\ t.req \in ReqIds
      /\ t.doc.author \in Users /\ t.doc.friend \in Users
      /\ Become(h, Idle) /\ UNCHANGED <<request, friends, ledger, torn, faults>>
      /\ notices' = notices \union {n}
  BY DEF IInv, TypeOK, TasksInv, TaskInv, Snapshot, Doc, Notify, Leave
<1>2. n \in Notice /\ Truthful(n)
  <2>1. CASE t.op = "create"
    BY <1>1, <2>1 DEF Notice, Answers, Recipient, Kind, Truthful, Snapshot
  <2>2. CASE t.op = "cancel"
    <3>1. ledger[t.req].fate = "cancelled"
      BY <1>1, <2>2 DEF TaskInv
    <3> QED BY <1>1, <2>2, <3>1 DEF Notice, Answers, Recipient, Kind, Truthful, Snapshot
  <2>3. CASE t.op = "respond"
    <3>1. \/ t.answer = "Accept" /\ ledger[t.req].fate = "accepted"
          \/ t.answer = "Reject" /\ ledger[t.req].fate = "rejected"
      BY <1>1, <2>3 DEF TaskInv
    <3> QED BY <1>1, <2>3, <3>1 DEF Notice, Answers, Recipient, Kind, Truthful, Snapshot
  <2> QED BY <1>1, <2>1, <2>2, <2>3 DEF TaskInv
<1> HIDE DEF n
<1>3. notices' \in SUBSET Notice
  BY <1>1, <1>2 DEF IInv, TypeOK
<1>4. NoticesTruthful'
  <2>1. \A m \in notices \union {n} : Truthful(m)
    BY <1>2 DEF IInv, NoticesTruthful
  <2> QED BY <1>1, <2>1 DEF NoticesTruthful, Truthful
<1>5. RequestsOnRecord'
  BY <1>1 DEF IInv, RequestsOnRecord, Present, NoDoc, StatusOf
<1>6. /\ request' \in [ReqIds -> Doc \union {NoDoc}] /\ torn' \in SUBSET ReqIds
      /\ torn \subseteq torn' /\ faults' \in 0..MaxFaults
  BY <1>1 DEF IInv, TypeOK
<1> QED BY <1>1, <1>3, <1>4, <1>5, <1>6, IdleFine, QuietStep

LEMMA ExpireStep ==
  ASSUME IInv, NEW id \in ReqIds, Expire(id)
  PROVE  IInv'
<1>1. UNCHANGED <<friends, task, notices, ledger, torn, faults>>
  BY DEF Expire
<1>2. /\ request' \in [ReqIds -> Doc \union {NoDoc}] /\ request'[id] = NoDoc
      /\ \A j \in ReqIds : j # id => request'[j] = request[j]
  BY DEF Expire, IInv, TypeOK
<1>3. ledger[id].fate # "pending"
  <2>1. request[id] # NoDoc /\ request[id].status # "Request"
    BY DEF Expire, Answers, NoDoc
  <2> QED BY <2>1, FoundIsSnapshot DEF StatusOf
<1>4. RequestsOnRecord'
  <2> SUFFICES ASSUME NEW j \in ReqIds
      PROVE  /\ ledger[j].fate = "pending" => request'[j] # NoDoc
             /\ request'[j] # NoDoc => request'[j] = [author |-> ledger[j].author,
                                         friend |-> ledger[j].friend,
                                         status |-> StatusOf(ledger[j].fate)]
    BY <1>1 DEF RequestsOnRecord, Present, NoDoc, StatusOf
  <2>1. CASE j = id
    BY <2>1, <1>2, <1>3
  <2>2. CASE j # id
    BY <2>2, <1>2 DEF IInv, RequestsOnRecord, Present
  <2> QED BY <2>1, <2>2
<1>5. TypeOK'
  BY <1>1, <1>2 DEF IInv, TypeOK
<1>6. TasksInv' /\ OnePusher'
  BY <1>1 DEF IInv, TasksInv, OnePusher
<1>7. EnteredByConsent' /\ OncePerAcceptance' /\ NoticesTruthful'
  BY <1>1 DEF IInv, EnteredByConsent, OncePerAcceptance, Entry, NoticesTruthful, Truthful
<1>8. WithinLimit'
  BY <1>1 DEF IInv, WithinLimit
<1>9. AcceptedIsMutual'
  BY <1>1 DEF IInv, AcceptedIsMutual, BothEntered, BeingEntered, Entry
<1> QED
  BY <1>4, <1>5, <1>6, <1>7, <1>8, <1>9 DEF IInv

LEMMA CrashStep ==
  ASSUME IInv, Crash
  PROVE  IInv'
<1>1. /\ task' = [h \in Handlers |-> Idle]
      /\ torn' = torn \union {task[h].req : h \in {g \in Handlers : Halfway(task[g])}}
      /\ UNCHANGED <<request, friends, notices, ledger>>
      /\ faults' \in 0..MaxFaults
  BY MaxFaultsAssumption DEF Crash, Fault, IInv, TypeOK
<1>2. ASSUME NEW h \in Handlers, Halfway(task[h]) PROVE task[h].req \in ReqIds
  BY <1>2 DEF IInv, TasksInv, TaskInv, Snapshot, Halfway
<1>3. torn' \in SUBSET ReqIds /\ torn \subseteq torn'
  BY <1>1, <1>2 DEF IInv, TypeOK
<1>4. task' \in [Handlers -> Task] /\ TasksInv' /\ OnePusher'
  BY <1>1, IdleFine DEF TasksInv, OnePusher
<1>5. TypeOK'
  BY <1>1, <1>3, <1>4 DEF IInv, TypeOK
<1>6. RequestsOnRecord'
  BY <1>1 DEF IInv, RequestsOnRecord, Present, NoDoc, StatusOf
<1>7. EnteredByConsent' /\ OncePerAcceptance' /\ NoticesTruthful'
  BY <1>1 DEF IInv, EnteredByConsent, OncePerAcceptance, Entry, NoticesTruthful, Truthful
<1>8. WithinLimit'
  <2> SUFFICES ASSUME NEW u \in Users, NEW v \in Users, NEW id \in ReqIds, NEW g \in Handlers
               PROVE  friends[u][<<v, id>>] + Due(task'[g], u, v, id) <= Limit(u, v)
    BY <1>1 DEF WithinLimit
  <2>1. task'[g] = Idle /\ Idle.pc # "push"
    BY <1>1 DEF Idle
  <2>2. Due(task'[g], u, v, id) = 0
    BY <2>1, DueFacts
  <2>3. friends[u][<<v, id>>] \in Nat /\ friends[u][<<v, id>>] <= Limit(u, v)
    BY DEF IInv, TypeOK, Entries, OncePerAcceptance, Limit
  <2> QED BY <2>2, <2>3
<1>9. AcceptedIsMutual'
  <2> SUFFICES ASSUME NEW id \in ReqIds, ledger[id].fate = "accepted", id \notin torn'
               PROVE  BothEntered(id)
    BY <1>1 DEF AcceptedIsMutual, BothEntered, Entry
  <2>1. ASSUME NEW h \in Handlers, task[h].pc = "push", task[h].req = id PROVE FALSE
    <3>1. Halfway(task[h])
      BY <2>1 DEF Halfway, IInv, TasksInv, TaskInv
    <3> QED BY <1>1, <2>1, <3>1
  <2>2. ~BeingEntered(id)
    BY <2>1 DEF BeingEntered
  <2> QED BY <1>1, <2>2 DEF IInv, AcceptedIsMutual
<1> QED
  BY <1>4, <1>5, <1>6, <1>7, <1>8, <1>9 DEF IInv

-------------------------------------------------------------------------------
(* The theorems *)

LEMMA InitIInv == Init => IInv
<1> SUFFICES ASSUME Init PROVE IInv
  OBVIOUS
<1>1. TypeOK
  BY MaxFaultsAssumption DEF Init, TypeOK, Idle, Task, NoDoc, LedgerEntry, Blank, Record
<1>2. TasksInv /\ OnePusher
  BY IdleFine DEF Init, TasksInv, OnePusher, Idle, TaskInv
<1>3. RequestsOnRecord
  BY DEF Init, RequestsOnRecord, Present, Blank, Record
<1>4. EnteredByConsent /\ OncePerAcceptance
  BY DEF Init, EnteredByConsent, OncePerAcceptance, Entry, Entries
<1>5. WithinLimit
  <2> SUFFICES ASSUME NEW u \in Users, NEW v \in Users, NEW id \in ReqIds, NEW g \in Handlers
               PROVE  friends[u][<<v, id>>] + Due(task[g], u, v, id) <= Limit(u, v)
    BY DEF WithinLimit
  <2>1. task[g].pc # "push"
    BY DEF Init, Idle
  <2> QED BY <2>1, DueFacts DEF Init, Entries, Limit
<1>6. AcceptedIsMutual /\ NoticesTruthful
  BY DEF Init, AcceptedIsMutual, NoticesTruthful, Blank, Record
<1> QED BY <1>1, <1>2, <1>3, <1>4, <1>5, <1>6 DEF IInv

LEMMA NextIInv == IInv /\ [Next]_vars => IInv'
<1> SUFFICES ASSUME IInv, [Next]_vars PROVE IInv'
  OBVIOUS
<1>1. ASSUME NEW h \in Handlers, Begin(h) PROVE IInv'
  BY <1>1, BeginCreateStep, BeginSettleStep DEF Begin
<1>2. ASSUME NEW h \in Handlers, Errs(h) PROVE IInv'
  BY <1>2, CreateErrsStep, SettleErrsStep, PushErrsStep DEF Errs
<1>3. ASSUME NEW h \in Handlers, Step(h) PROVE IInv'
  BY <1>3, LookupRelationshipStep, LookupAuthorStep, CreateEndsStep, CreateInsertsStep,
     FetchStep, SettleWinsStep, SettleLosesStep, PushDoneStep, PushesEndStep, NotifyStep
  DEF Step
<1>4. ASSUME NEW id \in ReqIds, Expire(id) PROVE IInv'
  BY <1>4, ExpireStep
<1>5. CASE Crash
  BY <1>5, CrashStep
<1>6. CASE UNCHANGED vars
  <2>1. TypeOK' /\ TasksInv' /\ OnePusher' /\ WithinLimit'
    BY <1>6 DEF vars, IInv, TypeOK, TasksInv, OnePusher, WithinLimit
  <2>2. RequestsOnRecord'
    BY <1>6 DEF vars, IInv, RequestsOnRecord, Present, NoDoc, StatusOf
  <2>3. EnteredByConsent' /\ OncePerAcceptance' /\ NoticesTruthful'
    BY <1>6 DEF vars, IInv, EnteredByConsent, OncePerAcceptance, Entry,
                NoticesTruthful, Truthful
  <2>4. AcceptedIsMutual'
    BY <1>6 DEF vars, IInv, AcceptedIsMutual, BothEntered, BeingEntered, Entry
  <2> QED BY <2>1, <2>2, <2>3, <2>4 DEF IInv
<1> QED
  BY <1>1, <1>2, <1>3, <1>4, <1>5, <1>6 DEF Next

LEMMA Invariance == Spec => []IInv
  BY InitIInv, NextIInv, PTL DEF Spec

(* Every variable stays in its type.                                       *)
THEOREM TypeCorrect == Spec => []TypeOK
  BY Invariance, PTL DEF IInv

(* No entry without the addressee's acceptance, whatever handlers, faults  *)
(* and crashes do.                                                         *)
THEOREM Consent == Spec => []EnteredByConsent
  BY Invariance, PTL DEF IInv

(* However many handlers answer a request at once, its acceptance is       *)
(* entered at most once per list.                                          *)
THEOREM EnteredOnce == Spec => []OncePerAcceptance
  BY Invariance, PTL DEF IInv

(* Only a fault or a crash can leave a friendship one-sided.               *)
THEOREM Mutuality == Spec => []AcceptedIsMutual
  BY Invariance, PTL DEF IInv

(* A pending request stays on record, and a document keeps its parties.    *)
THEOREM OnRecord == Spec => []RequestsOnRecord
  BY Invariance, PTL DEF IInv

-------------------------------------------------------------------------------
(* Refinement of FriendshipLedger *)

LEMMA LedgerInit == Init => Ledger!Init
  BY DEF Init, Ledger!Init, Ledger!Blank, Blank, Record, Entered, Entry, Entries

LEMMA SameEntered == UNCHANGED <<ledger, friends>> => UNCHANGED Ledger!vars
  BY DEF Ledger!vars, Entered, Entry

LEMMA InsertIsAsk ==
  ASSUME NEW id \in ReqIds, NEW a \in Users, NEW f \in Users, Insert(id, a, f),
         UNCHANGED friends
  PROVE  Ledger!Ask(id, a, f)
  BY DEF Insert, Record, Ledger!Ask, Entered, Entry

LEMMA SettleIsLedgerStep ==
  ASSUME IInv, NEW h \in Handlers, task[h].pc = "write", Settle(task[h]), UNCHANGED friends
  PROVE  Ledger!Next
<1> DEFINE t == task[h]
<1>1. /\ t.req \in ReqIds /\ ledger[t.req].fate = "pending"
      /\ ledger' = [ledger EXCEPT ![t.req].fate = Fate(t), ![t.req].by = t.user]
  BY SettleFacts DEF Settle
<1>2. /\ Snapshot(t, ledger) /\ Entitled(t)
      /\ (t.op = "respond" /\ t.answer \in Answers) \/ (t.op = "cancel" /\ t.answer = None)
  BY DEF IInv, TasksInv, TaskInv
<1>3. UNCHANGED Entered
  BY DEF Entered, Entry
<1>4. CASE t.op = "respond"
  <2>1. Fate(t) \in {"accepted", "rejected"} /\ t.user = ledger[t.req].friend
    BY <1>2, <1>4 DEF Fate, Snapshot, Entitled
  <2>2. Ledger!Answer(t.req, Fate(t))
    BY <1>1, <1>3, <2>1 DEF Ledger!Answer
  <2> QED BY <1>1, <2>1, <2>2 DEF Ledger!Next
<1>5. CASE t.op = "cancel"
  <2>1. Fate(t) = "cancelled" /\ t.user = ledger[t.req].author
    BY <1>2, <1>5 DEF Fate, Snapshot, Entitled
  <2>2. Ledger!Withdraw(t.req)
    BY <1>1, <1>3, <2>1 DEF Ledger!Withdraw
  <2> QED BY <1>1, <2>2 DEF Ledger!Next
<1> QED BY <1>2, <1>4, <1>5

LEMMA PushIsEnter ==
  ASSUME IInv, NEW h \in Handlers, task[h].pc = "push", NEW side \in Sides,
         Push(task[h], side), UNCHANGED ledger
  PROVE  [Ledger!Next]_Ledger!vars
<1> DEFINE t == task[h]
           ow == Owner(t.doc, side)
           ot == Other(t.doc, side)
<1>1. /\ t \in Task /\ Snapshot(t, ledger) /\ ledger[t.req].fate = "accepted"
      /\ t.req \in ReqIds /\ ow \in Users /\ ot \in Users
  BY DEF IInv, TypeOK, TasksInv, TaskInv, Snapshot, Doc, Owner, Other
<1>2. /\ <<ow, ot>> = Ledger!Parties(t.req) \/ <<ot, ow>> = Ledger!Parties(t.req)
  BY <1>1 DEF Ledger!Parties, Snapshot, Owner, Other
<1> HIDE DEF ow, ot
<1>3. \A u, v \in Users, id \in ReqIds :
        friends'[u][<<v, id>>] =
          friends[u][<<v, id>>] + One(u = ow /\ v = ot /\ id = t.req)
  BY <1>1, PushEffect DEF ow, ot
<1>4. \A u, v \in Users, id \in ReqIds : friends[u][<<v, id>>] \in Nat
  BY DEF IInv, TypeOK, Entries
<1>5. \A u, v \in Users, id \in ReqIds :
        friends'[u][<<v, id>>] > 0 <=>
          (friends[u][<<v, id>>] > 0 \/ (u = ow /\ v = ot /\ id = t.req))
  <2> TAKE u, v \in Users, id \in ReqIds
  <2>1. friends[u][<<v, id>>] \in Nat
    BY <1>4
  <2>2. CASE u = ow /\ v = ot /\ id = t.req
    BY <1>3, <2>1, <2>2 DEF One
  <2>3. CASE ~(u = ow /\ v = ot /\ id = t.req)
    <3>1. friends'[u][<<v, id>>] = friends[u][<<v, id>>] + One(FALSE)
      BY <1>3, <2>3
    <3> QED BY <2>1, <2>3, <3>1 DEF One
  <2> QED BY <2>2, <2>3
<1>6. Entered' = Entered \union {<<ow, ot, t.req>>}
  BY <1>1, <1>5 DEF Entered, Entry
<1>7. CASE <<ow, ot, t.req>> \in Entered
  BY <1>6, <1>7 DEF Ledger!vars
<1>8. CASE <<ow, ot, t.req>> \notin Entered
  <2>1. Ledger!Enter(t.req, ow, ot)
    BY <1>1, <1>2, <1>6, <1>8 DEF Ledger!Enter
  <2> QED BY <1>1, <2>1 DEF Ledger!Next
<1> QED BY <1>7, <1>8

LEMMA LedgerNext == IInv /\ [Next]_vars => [Ledger!Next]_Ledger!vars
<1> SUFFICES ASSUME IInv, [Next]_vars PROVE [Ledger!Next]_Ledger!vars
  OBVIOUS
<1>1. ASSUME NEW h \in Handlers, Begin(h) PROVE UNCHANGED Ledger!vars
  BY <1>1, SameEntered DEF Begin, BeginCreate, BeginCancel, BeginRespond
<1>2. ASSUME NEW h \in Handlers, CreateInserts(h) \/ CreateErrs(h)
      PROVE  [Ledger!Next]_Ledger!vars
  <2>1. /\ UNCHANGED friends
        /\ task[h].user \in Users /\ task[h].peer \in Users
    BY <1>2 DEF CreateInserts, CreateErrs, MayInsert, Looked, IInv, TasksInv, TaskInv
  <2>2. \/ UNCHANGED ledger
        \/ \E id \in ReqIds : Insert(id, task[h].user, task[h].peer)
    BY <1>2 DEF CreateInserts, CreateErrs
  <2> QED BY <2>1, <2>2, SameEntered, InsertIsAsk DEF Ledger!Next
<1>3. ASSUME NEW h \in Handlers, SettleWins(h) \/ SettleErrs(h)
      PROVE  [Ledger!Next]_Ledger!vars
  <2>1. task[h].pc = "write" /\ UNCHANGED friends /\ (UNCHANGED ledger \/ Settle(task[h]))
    BY <1>3 DEF SettleWins, SettleErrs
  <2> QED BY <2>1, SameEntered, SettleIsLedgerStep
<1>4. ASSUME NEW h \in Handlers, NEW side \in Sides, PushDone(h, side) \/ PushErrs(h, side)
      PROVE  [Ledger!Next]_Ledger!vars
  <2>1. /\ task[h].pc = "push" /\ UNCHANGED ledger
        /\ Push(task[h], side) \/ UNCHANGED friends
    BY <1>4 DEF PushDone, PushErrs
  <2> QED BY <2>1, SameEntered, PushIsEnter
<1>5. ASSUME NEW h \in Handlers,
             \/ LookupRelationship(h) \/ LookupAuthor(h) \/ CreateRefused(h)
             \/ CreateReturnsExisting(h) \/ CreateConflicts(h) \/ FetchRequest(h)
             \/ FetchRefused(h) \/ SettleLoses(h) \/ PushesEnd(h) \/ Notify(h)
      PROVE  UNCHANGED Ledger!vars
  BY <1>5, SameEntered
  DEF LookupRelationship, LookupAuthor, CreateRefused, CreateReturnsExisting,
      CreateConflicts, FetchRequest, FetchRefused, SettleLoses, PushesEnd, Notify
<1>6. ASSUME NEW id \in ReqIds, Expire(id) PROVE UNCHANGED Ledger!vars
  BY <1>6, SameEntered DEF Expire
<1>7. CASE Crash
  BY <1>7, SameEntered DEF Crash
<1>8. CASE UNCHANGED vars
  BY <1>8, SameEntered DEF vars
<1> QED
  BY <1>1, <1>2, <1>3, <1>4, <1>5, <1>6, <1>7, <1>8 DEF Next, Step, Errs

(* Every behaviour of the handlers is a behaviour of the ledger.           *)
THEOREM Refinement == Spec => ImplementsLedger
  BY LedgerInit, LedgerNext, Invariance, PTL DEF Spec, ImplementsLedger, Ledger!Spec

-------------------------------------------------------------------------------
(* Who settled a request, and that the other party is told *)

SettledByRight ==
    \A id \in ReqIds :
        /\ ledger[id].fate \in {"accepted", "rejected"} => ledger[id].by = ledger[id].friend
        /\ ledger[id].fate = "cancelled" => ledger[id].by = ledger[id].author

AllTold ==
    \A id \in ReqIds :
        Settled(id) /\ id \notin torn /\ ~BeingSettled(id) => Outcome(id) \in notices

(* The ledger's steps let only the entitled party settle.                  *)
LEMMA RightStep ==
  ASSUME IInv, SettledByRight, [Next]_vars PROVE SettledByRight'
<1>1. [Ledger!Next]_Ledger!vars
  BY LedgerNext
<1>2. ledger \in [ReqIds -> LedgerEntry]
  BY DEF IInv, TypeOK
<1>3. ASSUME NEW id \in ReqIds, NEW a \in Users, NEW f \in Users, Ledger!Ask(id, a, f)
      PROVE  SettledByRight'
  BY <1>2, <1>3 DEF SettledByRight, Ledger!Ask
<1>4. ASSUME NEW id \in ReqIds, NEW fate \in {"accepted", "rejected"}, Ledger!Answer(id, fate)
      PROVE  SettledByRight'
  BY <1>2, <1>4 DEF SettledByRight, Ledger!Answer, LedgerEntry
<1>5. ASSUME NEW id \in ReqIds, Ledger!Withdraw(id) PROVE SettledByRight'
  BY <1>2, <1>5 DEF SettledByRight, Ledger!Withdraw, LedgerEntry
<1>6. ASSUME UNCHANGED ledger PROVE SettledByRight'
  BY <1>6 DEF SettledByRight
<1> QED
  BY <1>1, <1>3, <1>4, <1>5, <1>6 DEF Ledger!Next, Ledger!Enter, Ledger!vars

(* What a handler about to send knows is the request's outcome.            *)
LEMMA NoticeIsOutcome ==
  ASSUME IInv, SettledByRight, NEW h \in Handlers, Halfway(task[h]), task[h].pc = "notify"
  PROVE  LET t == task[h] IN
         [to |-> Recipient(t), kind |-> Kind(t), req |-> t.req] = Outcome(t.req)
<1> DEFINE t == task[h]
<1>1. /\ TaskInv(t, ledger, friends) /\ Snapshot(t, ledger) /\ t.req \in ReqIds
      /\ t.op \in {"respond", "cancel"}
  BY DEF IInv, TasksInv, TaskInv, Snapshot, Halfway
<1>2. CASE t.op = "cancel"
  BY <1>1, <1>2 DEF TaskInv, Snapshot, SettledByRight, Outcome, KindOf, Recipient, Kind
<1>3. CASE t.op = "respond"
  BY <1>1, <1>3 DEF TaskInv, Snapshot, SettledByRight, Outcome, KindOf, Recipient, Kind
<1> QED BY <1>1, <1>2, <1>3

(* A step that gives no handler up: whatever was being settled still is.   *)
LEMMA StillTold ==
  ASSUME AllTold, notices \subseteq notices', torn \subseteq torn',
         \A id \in ReqIds : ledger'[id] # ledger[id] =>
             \/ id \in torn' \/ BeingSettled(id)' \/ ~Settled(id)',
         \A id \in ReqIds : BeingSettled(id) =>
             BeingSettled(id)' \/ id \in torn' \/ Outcome(id) \in notices'
  PROVE  AllTold'
<1> SUFFICES ASSUME NEW id \in ReqIds, Settled(id)', id \notin torn', ~BeingSettled(id)'
             PROVE  Outcome(id)' \in notices'
  BY DEF AllTold
<1>1. ledger'[id] = ledger[id]
  OBVIOUS
<1>2. Outcome(id)' = Outcome(id) /\ Settled(id)
  BY <1>1 DEF Outcome, Settled
<1> QED BY <1>2 DEF AllTold

(* The steps of one handler, with what it does next.                       *)
LEMMA OneHandler ==
  ASSUME IInv, NEW h \in Handlers, NEW T \in Task, Become(h, T), NEW id \in ReqIds
  PROVE  /\ BeingSettled(id) /\ (task[h].req = id /\ Halfway(task[h]) =>
                                     T.req = id /\ Halfway(T)) => BeingSettled(id)'
         /\ T.req = id /\ Halfway(T) => BeingSettled(id)'
<1>1. /\ task'[h] = T
      /\ \A g \in Handlers \ {h} : task'[g] = task[g]
  BY DEF Become, IInv, TypeOK
<1> QED BY <1>1 DEF BeingSettled

LEMMA IdleNotHalfway == Idle \in Task /\ ~Halfway(Idle)
  BY IdleFine DEF Halfway, Idle

(* A step of a handler that settles nothing and has nothing in hand.       *)
LEMMA PlainTold ==
  ASSUME IInv, AllTold, NEW h \in Handlers, NEW T \in Task, Become(h, T),
         ~Halfway(task[h]), notices \subseteq notices', torn \subseteq torn',
         \A id \in ReqIds : ledger'[id] # ledger[id] => id \in torn' \/ ~Settled(id)'
  PROVE  AllTold'
<1>1. \A id \in ReqIds : BeingSettled(id) => BeingSettled(id)'
  BY OneHandler
<1> QED BY <1>1, StillTold

(* The task a step gives a handler is a task.                              *)
LEMMA TaskGiven ==
  ASSUME IInv, [Next]_vars, NEW h \in Handlers, \E T : Become(h, T)
  PROVE  task'[h] \in Task /\ Become(h, task'[h])
<1>1. task' \in [Handlers -> Task]
  BY NextIInv DEF IInv, TypeOK
<1> QED BY <1>1 DEF Become, IInv, TypeOK

LEMMA QuietTold ==
  ASSUME IInv, AllTold, [Next]_vars, NEW h \in Handlers,
         \/ Begin(h) \/ LookupRelationship(h) \/ LookupAuthor(h) \/ CreateRefused(h)
         \/ CreateReturnsExisting(h) \/ CreateConflicts(h) \/ FetchRequest(h)
         \/ FetchRefused(h) \/ SettleLoses(h)
  PROVE  AllTold'
<1>1. /\ task[h].pc \in {"idle", "lookup", "fetch", "write"}
      /\ UNCHANGED <<notices, ledger, torn>> /\ \E T : Become(h, T)
  BY DEF Begin, BeginCreate, BeginCancel, BeginRespond, LookupRelationship, LookupAuthor,
         CreateRefused, CreateReturnsExisting, CreateConflicts, FetchRequest,
         FetchRefused, SettleLoses, Looked, MayInsert, Leave
<1>2. ~Halfway(task[h])
  BY <1>1 DEF Halfway
<1>3. task'[h] \in Task /\ Become(h, task'[h])
  BY <1>1, TaskGiven
<1> QED BY <1>1, <1>2, <1>3, PlainTold

LEMMA InsertTold ==
  ASSUME IInv, AllTold, [Next]_vars, NEW h \in Handlers, CreateInserts(h) \/ CreateErrs(h)
  PROVE  AllTold'
<1>1. /\ task[h].pc = "lookup" /\ UNCHANGED <<notices, torn>> /\ \E T : Become(h, T)
      /\ \/ UNCHANGED ledger
         \/ \E id \in ReqIds : Insert(id, task[h].user, task[h].peer)
  BY DEF CreateInserts, CreateErrs, MayInsert, Looked, Leave
<1>2. ~Halfway(task[h])
  BY <1>1 DEF Halfway
<1>3. task'[h] \in Task /\ Become(h, task'[h])
  BY <1>1, TaskGiven
<1>4. \A id \in ReqIds : ledger'[id] # ledger[id] => ~Settled(id)'
  BY <1>1 DEF Insert, Settled, Record, IInv, TypeOK
<1> QED BY <1>1, <1>2, <1>3, <1>4, PlainTold

LEMMA SettleTold ==
  ASSUME IInv, AllTold, [Next]_vars, NEW h \in Handlers, SettleWins(h) \/ SettleErrs(h)
  PROVE  AllTold'
<1>1. /\ task[h].pc = "write" /\ UNCHANGED notices /\ \E T : Become(h, T)
      /\ task[h] \in Task /\ TaskInv(task[h], ledger, friends)
  BY DEF SettleWins, SettleErrs, Leave, IInv, TypeOK, TasksInv
<1>2. ~Halfway(task[h])
  BY <1>1 DEF Halfway
<1>3. task'[h] \in Task /\ Become(h, task'[h])
  BY <1>1, TaskGiven
<1>4. \A id \in ReqIds : BeingSettled(id) => BeingSettled(id)'
  BY <1>2, <1>3, OneHandler
<1>5. CASE SettleWins(h)
  <2>1. /\ task'[h].req = task[h].req /\ Halfway(task'[h]) /\ task[h].req \in ReqIds
    BY <1>1, <1>5 DEF SettleWins, Become, Halfway, TaskInv, Task, IInv, TypeOK
  <2>2. \A id \in ReqIds : ledger'[id] # ledger[id] => BeingSettled(id)'
    BY <1>1, <1>3, <1>5, <2>1, SettleFacts, OneHandler DEF SettleWins
  <2>3. torn \subseteq torn'
    BY <1>5 DEF SettleWins
  <2> QED BY <1>1, <1>4, <2>2, <2>3, StillTold
<1>6. CASE SettleErrs(h)
  <2>1. \A id \in ReqIds : ledger'[id] # ledger[id] => id \in torn'
    BY <1>1, <1>6, SettleFacts DEF SettleErrs
  <2>2. torn \subseteq torn'
    BY <1>6 DEF SettleErrs
  <2> QED BY <1>1, <1>2, <1>3, <2>1, <2>2, PlainTold
<1> QED BY <1>5, <1>6

LEMMA PushTold ==
  ASSUME IInv, AllTold, [Next]_vars, NEW h \in Handlers,
         (\E side \in Sides : PushDone(h, side) \/ PushErrs(h, side)) \/ PushesEnd(h)
  PROVE  AllTold'
<1>1. /\ task[h].pc = "push" /\ UNCHANGED <<notices, ledger>> /\ \E T : Become(h, T)
      /\ task[h] \in Task /\ task[h].op = "respond" /\ torn \subseteq torn'
  BY DEF PushDone, PushErrs, PushesEnd, Leave, IInv, TypeOK, TasksInv, TaskInv
<1>2. task'[h] \in Task /\ Become(h, task'[h])
  BY <1>1, TaskGiven
<1>3. \/ task'[h].req = task[h].req /\ Halfway(task'[h])
      \/ task[h].req \in torn'
  <2>1. ASSUME NEW side \in Sides, PushDone(h, side) \/ PushErrs(h, side)
        PROVE  task'[h].req = task[h].req /\ Halfway(task'[h])
    <3>1. \/ task'[h] = [task[h] EXCEPT !.todo = @ \ {side}]
          \/ task'[h] = [task[h] EXCEPT !.todo = @ \ {side}, !.failed = TRUE]
      BY <2>1 DEF PushDone, PushErrs, Become, IInv, TypeOK
    <3> QED BY <1>1, <3>1 DEF Halfway, Task
  <2>2. CASE PushesEnd(h) /\ ~task[h].failed
    <3>1. task'[h] = [task[h] EXCEPT !.pc = "notify"]
      BY <2>2 DEF PushesEnd, Become, IInv, TypeOK
    <3> QED BY <1>1, <3>1 DEF Halfway, Task
  <2>3. CASE PushesEnd(h) /\ task[h].failed
    BY <2>3 DEF PushesEnd
  <2> QED BY <2>1, <2>2, <2>3
<1>4. \A id \in ReqIds : BeingSettled(id) => BeingSettled(id)' \/ id \in torn'
  BY <1>2, <1>3, OneHandler
<1> QED BY <1>1, <1>4, StillTold

LEMMA NotifyTold ==
  ASSUME IInv, SettledByRight, AllTold, [Next]_vars, NEW h \in Handlers, Notify(h)
  PROVE  AllTold'
<1>1. /\ task[h].pc = "notify" /\ UNCHANGED <<ledger, torn>> /\ Become(h, Idle)
      /\ notices' = notices \union {[to |-> Recipient(task[h]), kind |-> Kind(task[h]),
                                     req |-> task[h].req]}
  BY DEF Notify, Leave
<1>2. ASSUME NEW id \in ReqIds, BeingSettled(id), ~BeingSettled(id)'
      PROVE  Outcome(id) \in notices'
  <2>1. task[h].req = id /\ Halfway(task[h])
    BY <1>1, <1>2, IdleNotHalfway, OneHandler
  <2> QED BY <1>1, <2>1, NoticeIsOutcome
<1> QED BY <1>1, <1>2, StillTold

LEMMA EnvironmentTold ==
  ASSUME IInv, AllTold, (\E id \in ReqIds : Expire(id)) \/ Crash
  PROVE  AllTold'
<1>1. CASE \E id \in ReqIds : Expire(id)
  <2>1. UNCHANGED <<task, notices, ledger, torn>>
    BY <1>1 DEF Expire
  <2>2. \A id \in ReqIds : BeingSettled(id)' <=> BeingSettled(id)
    BY <2>1 DEF BeingSettled
  <2> QED BY <2>1, <2>2, StillTold
<1>2. CASE Crash
  <2>1. /\ UNCHANGED <<notices, ledger>>
        /\ torn' = torn \union {task[h].req : h \in {g \in Handlers : Halfway(task[g])}}
    BY <1>2 DEF Crash
  <2>2. \A id \in ReqIds : BeingSettled(id) => id \in torn'
    BY <2>1 DEF BeingSettled
  <2> QED BY <2>1, <2>2, StillTold
<1> QED BY <1>1, <1>2

LEMMA ToldStep == IInv /\ SettledByRight /\ AllTold /\ [Next]_vars => AllTold'
<1> SUFFICES ASSUME IInv, SettledByRight, AllTold, [Next]_vars PROVE AllTold'
  OBVIOUS
<1>1. CASE UNCHANGED vars
  <2>1. UNCHANGED <<task, notices, ledger, torn>>
    BY <1>1 DEF vars
  <2>2. \A id \in ReqIds : BeingSettled(id)' <=> BeingSettled(id)
    BY <2>1 DEF BeingSettled
  <2> QED BY <2>1, <2>2, StillTold
<1>2. ASSUME NEW h \in Handlers, Begin(h) \/ Step(h) \/ Errs(h) PROVE AllTold'
  BY <1>2, QuietTold, InsertTold, SettleTold, PushTold, NotifyTold DEF Step, Errs
<1> QED BY <1>1, <1>2, EnvironmentTold DEF Next

LEMMA ToldInit == Init => SettledByRight /\ AllTold
  BY DEF Init, SettledByRight, AllTold, Settled, Blank, Record

(* Nothing but the outcome is told, and to nobody but the other party.     *)
LEMMA OnlyOutcomes ==
  ASSUME IInv, SettledByRight, AllTold PROVE OutcomeIsTold
<1> SUFFICES ASSUME NEW id \in ReqIds, NEW n \in notices, n.req = id, n.kind # "Request"
             PROVE  Settled(id) /\ n = Outcome(id)
  BY DEF OutcomeIsTold, AllTold
<1>1. n \in Notice /\ Truthful(n)
  BY DEF IInv, TypeOK, NoticesTruthful
<1>2. /\ Settled(id) /\ n.to = Outcome(id).to /\ n.kind = Outcome(id).kind
  BY <1>1 DEF Truthful, Notice, Answers, Settled, Outcome, KindOf, SettledByRight
<1> QED BY <1>1, <1>2 DEF Notice, Outcome

(* The party that did not settle a request is told its outcome, and nobody *)
(* is told any other, whatever handlers race for it: only a fault or a     *)
(* crash keeps the notice back (response, cancel and the controller's      *)
(* emit, built from the snapshot).                                         *)
THEOREM OutcomesAreTold == Spec => []OutcomeIsTold
<1>1. Init => IInv /\ SettledByRight /\ AllTold
  BY InitIInv, ToldInit
<1>2. IInv /\ SettledByRight /\ AllTold /\ [Next]_vars
        => (IInv /\ SettledByRight /\ AllTold)'
  BY NextIInv, RightStep, ToldStep
<1>3. IInv /\ SettledByRight /\ AllTold => OutcomeIsTold
  BY OnlyOutcomes
<1> QED BY <1>1, <1>2, <1>3, PTL DEF Spec

===============================================================================
