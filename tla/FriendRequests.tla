---------------------------- MODULE FriendRequests ----------------------------
(***************************************************************************)
(* Friend requests: FriendRequestService (create, response, cancel), the   *)
(* controller that calls it, and the notices FriendGateway addresses.      *)
(*                                                                         *)
(* The program is one Node process: a handler runs alone between two       *)
(* awaits, and other handlers run while it waits.  A step of this module   *)
(* is one database command with the synchronous code that follows its      *)
(* reply.  A database command may be reported as failed although it was    *)
(* applied (retryWrites is off, wtimeoutMS is 3 s), and the process may    *)
(* crash.                                                                  *)
(***************************************************************************)
EXTENDS Integers, FiniteSets

CONSTANTS
    Users,      \* accounts
    Profiled,   \* the accounts that have a profile document
    ReqIds,     \* the ObjectIds requests get: never used twice
    Handlers,   \* HTTP requests being served at the same time
    MaxFaults,  \* bound: database errors and crashes in one behaviour
    None

ASSUME NoneAssumption ==
    None \notin Users /\ None \notin ReqIds /\ None \notin {"Accept", "Reject"}
ASSUME ProfiledAssumption == Profiled \subseteq Users
ASSUME MaxFaultsAssumption == MaxFaults \in Nat

VARIABLES
    request,    \* the friend request collection: id -> document or NoDoc
    friends,    \* Profile.friends: owner -> (<<friend, id>> -> occurrences);
                \*   an entry is tagged with the request whose push wrote it
    task,       \* handler -> what it is doing and what it remembers
    notices,    \* what FriendGateway was asked to send
    ledger,     \* history: what became of each request, and by whose hand
    torn,       \* history: settled requests whose handler never finished
    faults      \* faults so far

vars == <<request, friends, task, notices, ledger, torn, faults>>

-------------------------------------------------------------------------------
(* Values *)

Statuses == {"Request", "Accept", "Reject"}
Answers == {"Accept", "Reject"}
Doc == [author: Users, friend: Users, status: Statuses]
NoDoc == [author |-> None, friend |-> None, status |-> "gone"]

Entries == Users \X ReqIds
Sides == {"author", "friend"}
Lookups == {"relationship", "author"}
Notice == [to: Users, kind: {"Request", "Cancel"} \union Answers, req: ReqIds]

LedgerEntry == [author: Users \union {None}, friend: Users \union {None},
                fate: {"unused", "pending", "accepted", "rejected", "cancelled"},
                by: Users \union {None}]
Record(a, f, fate, by) ==
    [author |-> a, friend |-> f, fate |-> fate, by |-> by]
Blank == Record(None, None, "unused", None)

Task == [op: {"none", "create", "respond", "cancel"},
         pc: {"idle", "lookup", "fetch", "write", "push", "notify"},
         user: Users \union {None},      \* the authenticated caller
         peer: Users \union {None},      \* create's friendId
         req: ReqIds \union {None},      \* the request id at hand
         answer: Answers \union {None},
         doc: Doc \union {NoDoc},        \* the `relationship' snapshot
         todo: SUBSET (Lookups \union Sides), \* commands of a Promise.all out
         known: BOOLEAN,                 \* author.friends.includes(friend)
         failed: BOOLEAN]                \* a command of the Promise.all failed

Idle == [op |-> "none", pc |-> "idle", user |-> None, peer |-> None,
         req |-> None, answer |-> None, doc |-> NoDoc, todo |-> {},
         known |-> FALSE, failed |-> FALSE]

TypeOK ==
    /\ request \in [ReqIds -> Doc \union {NoDoc}]
    /\ friends \in [Users -> [Entries -> Nat]]
    /\ task \in [Handlers -> Task]
    /\ notices \subseteq Notice
    /\ ledger \in [ReqIds -> LedgerEntry]
    /\ torn \subseteq ReqIds
    /\ faults \in 0..MaxFaults

Init ==
    /\ request = [id \in ReqIds |-> NoDoc]
    /\ friends = [u \in Users |-> [e \in Entries |-> 0]]
    /\ task = [h \in Handlers |-> Idle]
    /\ notices = {}
    /\ ledger = [id \in ReqIds |-> Blank]
    /\ torn = {}
    /\ faults = 0

-------------------------------------------------------------------------------
(* Helpers *)

Present(id) == request[id] # NoDoc
Between(d, u, v) == (d.author = u /\ d.friend = v) \/ (d.author = v /\ d.friend = u)
AlreadyFriends(u, v) == \E id \in ReqIds : friends[u][<<v, id>>] > 0

Become(h, t) == task' = [task EXCEPT ![h] = t]
Leave(h) == Become(h, Idle)
Fault == faults < MaxFaults /\ faults' = faults + 1
NoFault == UNCHANGED faults

-------------------------------------------------------------------------------
(* POST request: FriendRequestService.create *)

(* Bound: a create starts only while an unused id is left for it.          *)
IdsLeft ==
    Cardinality({id \in ReqIds : ledger[id].fate = "unused"})
        > Cardinality({g \in Handlers : task[g].op = "create"})

BeginCreate(h, u, v) ==
    /\ task[h].pc = "idle" /\ IdsLeft
    /\ Become(h, [Idle EXCEPT !.op = "create", !.pc = "lookup",
                              !.user = u, !.peer = v, !.todo = Lookups])
    /\ UNCHANGED <<request, friends, notices, ledger, torn, faults>>

(* findOne with $or: some document between the two users, either way round *)
LookupRelationship(h) ==
    LET t == task[h]
        Found == {id \in ReqIds : Present(id) /\ Between(request[id], t.user, t.peer)}
        After(id, d) == [t EXCEPT !.req = id, !.doc = d, !.todo = @ \ {"relationship"}]
    IN  /\ t.pc = "lookup" /\ "relationship" \in t.todo
        /\ \/ \E id \in Found : Become(h, After(id, request[id]))
           \/ Found = {} /\ Become(h, After(None, NoDoc))
        /\ UNCHANGED <<request, friends, notices, ledger, torn, faults>>

(* The profile reads: friends of the author as they are at that moment.    *)
LookupAuthor(h) ==
    LET t == task[h] IN
    /\ t.pc = "lookup" /\ "author" \in t.todo
    /\ Become(h, [t EXCEPT !.todo = @ \ {"author"},
                           !.known = AlreadyFriends(t.user, t.peer)])
    /\ UNCHANGED <<request, friends, notices, ledger, torn, faults>>

Looked(h) == task[h].pc = "lookup" /\ task[h].todo = {}

(* `You two are already friends' and the missing profiles                  *)
Unwelcome(t) == t.known \/ ~({t.user, t.peer} \subseteq Profiled)

CreateRefused(h) ==
    /\ Looked(h)
    /\ Unwelcome(task[h]) \/ task[h].doc.status \in Answers
    /\ Leave(h)
    /\ UNCHANGED <<request, friends, notices, ledger, torn, faults>>

CreateReturnsExisting(h) ==
    /\ Looked(h) /\ ~Unwelcome(task[h])
    /\ task[h].doc.status = "Request"
    /\ Become(h, [task[h] EXCEPT !.pc = "notify"])
    /\ UNCHANGED <<request, friends, notices, ledger, torn, faults>>

MayInsert(h) == Looked(h) /\ ~Unwelcome(task[h]) /\ task[h].doc = NoDoc

(* The unique index on {friendId, authorId}: one document per direction    *)
Taken(a, f) ==
    \E id \in ReqIds : request[id].author = a /\ request[id].friend = f

Insert(id, a, f) ==
    /\ ledger[id].fate = "unused" /\ ~Taken(a, f)
    /\ request' = [request EXCEPT ![id] =
                      [author |-> a, friend |-> f, status |-> "Request"]]
    /\ ledger' = [ledger EXCEPT ![id] = Record(a, f, "pending", None)]

CreateInserts(h) ==
    LET t == task[h] IN
    /\ MayInsert(h)
    /\ \E id \in ReqIds :
          /\ Insert(id, t.user, t.peer)
          /\ Become(h, [t EXCEPT !.pc = "notify", !.req = id,
                                 !.doc = request'[id]])
    /\ UNCHANGED <<friends, notices, torn, faults>>

(* E11000, or the insert is reported as failed: an error response.         *)
CreateConflicts(h) ==
    /\ MayInsert(h) /\ Taken(task[h].user, task[h].peer)
    /\ Leave(h)
    /\ UNCHANGED <<request, friends, notices, ledger, torn, faults>>

CreateErrs(h) ==
    /\ MayInsert(h) /\ Fault /\ Leave(h)
    /\ \/ \E id \in ReqIds : Insert(id, task[h].user, task[h].peer)
       \/ UNCHANGED <<request, ledger>>
    /\ UNCHANGED <<friends, notices, torn>>

-------------------------------------------------------------------------------
(* PATCH response/:id and DELETE cancel/:id: response and cancel *)

BeginRespond(h, u, id, answer) ==
    /\ task[h].pc = "idle"
    /\ Become(h, [Idle EXCEPT !.op = "respond", !.pc = "fetch",
                              !.user = u, !.req = id, !.answer = answer])
    /\ UNCHANGED <<request, friends, notices, ledger, torn, faults>>

BeginCancel(h, u, id) ==
    /\ task[h].pc = "idle"
    /\ Become(h, [Idle EXCEPT !.op = "cancel", !.pc = "fetch",
                              !.user = u, !.req = id])
    /\ UNCHANGED <<request, friends, notices, ledger, torn, faults>>

(* Mutant: the permission check is forgotten.                              *)
MaySettleAnyone(t, d) == d.status = "Request"

(* Who may settle a request, and in which status, judged on the snapshot   *)
MaySettle(t, d) ==
    /\ t.user = IF t.op = "respond" THEN d.friend ELSE d.author
    /\ d.status = "Request"

(* validateFriendById and the checks on what it returned                   *)
FetchRequest(h) ==
    LET t == task[h] IN
    /\ t.pc = "fetch" /\ MaySettle(t, request[t.req])
    /\ Become(h, [t EXCEPT !.pc = "write", !.doc = request[t.req]])
    /\ UNCHANGED <<request, friends, notices, ledger, torn, faults>>

FetchRefused(h) ==
    LET t == task[h] IN
    /\ t.pc = "fetch" /\ ~MaySettle(t, request[t.req])
    /\ Leave(h)
    /\ UNCHANGED <<request, friends, notices, ledger, torn, faults>>

(* Mutant: the filter of findOneAndUpdate loses `status: Request'.          *)
StillThere(id) == Present(id)

StillOpen(id) == request[id].status = "Request"

Fate(t) == CASE t.op = "cancel" -> "cancelled"
             [] t.op = "respond" /\ t.answer = "Accept" -> "accepted"
             [] OTHER -> "rejected"

(* The filtered write: findOneAndUpdate / findOneAndDelete {_id, status: 'Request'}            *)
Settle(t) ==
    /\ StillOpen(t.req)
    /\ IF t.op = "cancel"
       THEN request' = [request EXCEPT ![t.req] = NoDoc]
       ELSE request' = [request EXCEPT ![t.req].status = t.answer]
    /\ ledger' = [ledger EXCEPT ![t.req].fate = Fate(t), ![t.req].by = t.user]

SettleWins(h) ==
    LET t == task[h] IN
    /\ t.pc = "write" /\ Settle(t)
    /\ Become(h, IF t.answer = "Accept"
                 THEN [t EXCEPT !.pc = "push", !.todo = Sides]
                 ELSE [t EXCEPT !.pc = "notify"])
    /\ UNCHANGED <<friends, notices, torn, faults>>

(* FriendRequestExitedException: someone else settled it in between.       *)
SettleLoses(h) ==
    /\ task[h].pc = "write" /\ ~StillOpen(task[h].req)
    /\ Leave(h)
    /\ UNCHANGED <<request, friends, notices, ledger, torn, faults>>

SettleErrs(h) ==
    LET t == task[h] IN
    /\ t.pc = "write" /\ Fault /\ Leave(h)
    /\ \/ Settle(t) /\ torn' = torn \union {t.req}
       \/ UNCHANGED <<request, ledger, torn>>
    /\ UNCHANGED <<friends, notices>>

(* Mutant: both pushes go to the author's profile.                         *)
OwnerIsAuthor(d, side) == d.author

(* updateFriendList: two $push, sent together, applied in either order     *)
Owner(d, side) == IF side = "author" THEN d.author ELSE d.friend
Other(d, side) == IF side = "author" THEN d.friend ELSE d.author

Push(t, side) ==
    friends' = [friends EXCEPT
        ![Owner(t.doc, side)][<<Other(t.doc, side), t.req>>] = @ + 1]

PushDone(h, side) ==
    LET t == task[h] IN
    /\ t.pc = "push" /\ side \in t.todo /\ Push(t, side)
    /\ Become(h, [t EXCEPT !.todo = @ \ {side}])
    /\ UNCHANGED <<request, notices, ledger, torn, faults>>

PushErrs(h, side) ==
    LET t == task[h] IN
    /\ t.pc = "push" /\ side \in t.todo /\ Fault
    /\ Push(t, side) \/ UNCHANGED friends
    /\ Become(h, [t EXCEPT !.todo = @ \ {side}, !.failed = TRUE])
    /\ UNCHANGED <<request, notices, ledger, torn>>

PushesEnd(h) ==
    LET t == task[h] IN
    /\ t.pc = "push" /\ t.todo = {}
    /\ \/ ~t.failed /\ Become(h, [t EXCEPT !.pc = "notify"]) /\ UNCHANGED torn
       \/ t.failed /\ Leave(h) /\ torn' = torn \union {t.req}
    /\ UNCHANGED <<request, friends, notices, ledger, faults>>

-------------------------------------------------------------------------------
(* The controller's emit and FriendGateway's choice of recipient *)

Kind(t) == CASE t.op = "create" -> "Request"
             [] t.op = "cancel" -> "Cancel"
             [] t.op = "respond" -> t.answer

(* Mutant: the notice goes to create's argument.                           *)
RecipientIsPeer(t) == t.peer

Recipient(t) == IF t.op = "respond" THEN t.doc.author ELSE t.doc.friend

Notify(h) ==
    LET t == task[h] IN
    /\ t.pc = "notify"
    /\ notices' = notices \union
          {[to |-> Recipient(t), kind |-> Kind(t), req |-> t.req]}
    /\ Leave(h)
    /\ UNCHANGED <<request, friends, ledger, torn, faults>>

-------------------------------------------------------------------------------
(* The environment *)

(* Mutant: a TTL index without its partialFilterExpression.                *)
ExpireAny(id) ==
    /\ Present(id)
    /\ request' = [request EXCEPT ![id] = NoDoc]
    /\ UNCHANGED <<friends, task, notices, ledger, torn, faults>>

(* The TTL indexes: an answered request goes a few seconds after creation. *)
Expire(id) ==
    /\ request[id].status \in Answers
    /\ request' = [request EXCEPT ![id] = NoDoc]
    /\ UNCHANGED <<friends, task, notices, ledger, torn, faults>>

(* The process stops: every handler is lost, commands not applied yet too. *)
Halfway(t) == t.op \in {"respond", "cancel"} /\ t.pc \in {"push", "notify"}

Crash ==
    /\ Fault
    /\ \E h \in Handlers : task[h] # Idle
    /\ task' = [h \in Handlers |-> Idle]
    /\ torn' = torn \union {task[h].req : h \in {g \in Handlers : Halfway(task[g])}}
    /\ UNCHANGED <<request, friends, notices, ledger>>

-------------------------------------------------------------------------------

Begin(h) ==
    \/ \E u, v \in Users : BeginCreate(h, u, v)
    \/ \E u \in Users, id \in ReqIds :
          \/ BeginCancel(h, u, id)
          \/ \E answer \in Answers : BeginRespond(h, u, id, answer)

Errs(h) ==
    \/ CreateErrs(h)
    \/ SettleErrs(h)
    \/ \E side \in Sides : PushErrs(h, side)

Step(h) ==
    \/ LookupRelationship(h) \/ LookupAuthor(h)
    \/ CreateRefused(h) \/ CreateReturnsExisting(h)
    \/ CreateInserts(h) \/ CreateConflicts(h)
    \/ FetchRequest(h) \/ FetchRefused(h)
    \/ SettleWins(h) \/ SettleLoses(h)
    \/ \E side \in Sides : PushDone(h, side)
    \/ PushesEnd(h) \/ Notify(h)

Next ==
    \/ \E h \in Handlers : Begin(h) \/ Step(h) \/ Errs(h)
    \/ \E id \in ReqIds : Expire(id)
    \/ Crash

Spec == Init /\ [][Next]_vars

(* A handler whose reply has come is run; the database replies.  Nothing   *)
(* obliges a user to send, a TTL to fire, or a fault to happen.            *)
FairSpec == Spec /\ \A h \in Handlers : WF_vars(Step(h))

-------------------------------------------------------------------------------
(* What must hold *)

Entry(u, v, id) == friends[u][<<v, id>>] > 0

(* Nobody is in a friend list without consent: an entry stands for a       *)
(* request that was accepted, by its addressee, between exactly these two  *)
(* users (response's permission and status checks, updateFriendList).      *)
EnteredByConsent ==
    \A u, v \in Users, id \in ReqIds : Entry(u, v, id) =>
        /\ ledger[id].fate = "accepted"
        /\ ledger[id].by = ledger[id].friend
        /\ <<u, v>> \in {<<ledger[id].author, ledger[id].friend>>,
                         <<ledger[id].friend, ledger[id].author>>}

(* An acceptance is entered once per list although $push does not look for *)
(* duplicates and several handlers may answer the same request: only one   *)
(* findOneAndUpdate finds it open.  (A request to oneself has both of its  *)
(* entries in the one list.)                                               *)
OncePerAcceptance ==
    \A u, v \in Users, id \in ReqIds :
        friends[u][<<v, id>>] <= IF u = v THEN 2 ELSE 1

BothEntered(id) ==
    \E a, f \in Users :
        /\ ledger[id].author = a /\ ledger[id].friend = f
        /\ Entry(a, f, id) /\ Entry(f, a, id)

BeingEntered(id) == \E h \in Handlers : task[h].pc = "push" /\ task[h].req = id

(* Friendship is mutual: once the handler that accepted a request is past  *)
(* its two pushes, both lists have the entry, unless a fault or a crash    *)
(* stopped it (updateFriendList is not a transaction).                     *)
AcceptedIsMutual ==
    \A id \in ReqIds :
        ledger[id].fate = "accepted" /\ id \notin torn /\ ~BeingEntered(id) =>
            BothEntered(id)

Settled(id) == ledger[id].fate \in {"accepted", "rejected", "cancelled"}
BeingSettled(id) == \E h \in Handlers : Halfway(task[h]) /\ task[h].req = id

KindOf(fate) == CASE fate = "accepted" -> "Accept"
                  [] fate = "rejected" -> "Reject"
                  [] OTHER -> "Cancel"

(* The one notice a settled request calls for: its fate, to the party that *)
(* did not settle it                                                       *)
Outcome(id) ==
    [to |-> IF ledger[id].by = ledger[id].friend THEN ledger[id].author
                                                 ELSE ledger[id].friend,
     kind |-> KindOf(ledger[id].fate), req |-> id]

(* The party that did not settle a request is told what became of it, and  *)
(* nobody is told anything else: no outcome that lost the race, none sent  *)
(* to whoever acted, although the notice is built from a snapshot taken    *)
(* before the write.  Once no handler has the settlement in hand the       *)
(* notice is out, unless a fault or a crash stopped the handler.  (The     *)
(* `Request' notice is no outcome: create sends it to the addressee of     *)
(* whatever pending document it found, who may be its own caller, and      *)
(* perhaps after the request was settled.)                                 *)
OutcomeIsTold ==
    \A id \in ReqIds :
        /\ \A n \in notices : n.req = id /\ n.kind # "Request" =>
              Settled(id) /\ n = Outcome(id)
        /\ Settled(id) /\ id \notin torn /\ ~BeingSettled(id) =>
              Outcome(id) \in notices

StatusOf(fate) == CASE fate = "pending" -> "Request"
                    [] fate = "accepted" -> "Accept"
                    [] fate = "rejected" -> "Reject"
                    [] OTHER -> "gone"

(* The collection agrees with history: a pending request is never lost     *)
(* (the TTL indexes are partial), a document keeps its parties, and its    *)
(* status is the outcome its request had.                                  *)
RequestsOnRecord ==
    \A id \in ReqIds :
        /\ ledger[id].fate = "pending" => Present(id)
        /\ Present(id) => request[id] = [author |-> ledger[id].author,
                                         friend |-> ledger[id].friend,
                                         status |-> StatusOf(ledger[id].fate)]

(* The component keeps its promise: every step is a step of                *)
(* FriendshipLedger, or none.                                              *)
Entered == {e \in Users \X Users \X ReqIds : Entry(e[1], e[2], e[3])}
Ledger == INSTANCE FriendshipLedger WITH book <- ledger, entered <- Entered
ImplementsLedger == Ledger!Spec

(* Every acceptance ends up in both lists with its author told, unless a   *)
(* fault or a crash stopped the handler.                                   *)
AcceptanceLands ==
    \A id \in ReqIds : ledger[id].fate = "accepted" ~>
        \/ id \in torn
        \/ /\ BothEntered(id)
           /\ \E n \in notices : n.req = id /\ n.kind = "Accept"

(* What create's comments say (`return all ready relation ship', `not      *)
(* found relationship'): a request is inserted only where the two users    *)
(* have none, so at most one exists for a pair.                            *)
OneRequestPerPair ==
    \A i, j \in ReqIds :
        i # j /\ Present(i) /\ Present(j) =>
            ~Between(request[i], request[j].author, request[j].friend)

===============================================================================
