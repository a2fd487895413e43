-------------------------------- MODULE Accounts --------------------------------
(***************************************************************************)
(* Accounts from their registration on: the user and profile collections,  *)
(* the avatar in the image store with its cached copy in Redis, and the    *)
(* changes of avatar and status.                                           *)
(*                                                                         *)
(* Registration and upload are Promise.all over independent writes.  When  *)
(* one of them fails the caller has its error, and the others run on.      *)
(***************************************************************************)
EXTENDS Integers, FiniteSets

CONSTANTS
    Accounts,     \* one per UserDetailDTO: user id, profile id and avatar id
    Emails,
    Statuses,     \* values of Profile.status
    Active,       \* its default
    Handlers,
    MaxVersions,  \* bound: files sent to the image store
    MaxFaults,    \* bound: failed commands and crashes
    None

ASSUME NoneAssumption == None \notin Emails /\ None \notin Statuses /\ None \notin Accounts
ASSUME ActiveAssumption == Active \in Statuses
ASSUME BoundsAssumption == MaxVersions \in Nat /\ MaxFaults \in Nat

VARIABLES
    email,     \* account -> the address it registers with, or None
    users,     \* accounts whose user document exists
    profiles,  \* accounts whose profile document exists
    status,    \* account -> Profile.status
    avatars,   \* accounts whose profile names an avatar
    image,     \* account -> the version of its avatar in the image store
    cache,     \* account -> the version under IMAGE:<id>:<size>, or Miss
    task,      \* handler -> what it is doing
    versions, faults,
    given,     \* history: accounts registered with an avatar
    answered,  \* history: accounts whose registration has succeeded
    failed,    \* history: accounts with a command that failed
    raced      \* history: accounts whose image was read during an upload

mongo == <<email, users, profiles, status, avatars>>
pictures == <<image, cache>>
history == <<given, answered, failed, raced>>
vars == <<mongo, pictures, task, versions, faults, history>>

-------------------------------------------------------------------------------
(* Values *)

Versions == 0..MaxVersions    \* 0: the store has none and answers 404
Miss == -1
Parts == {"user", "profile", "find", "avatar", "clear", "image"}

Task == [op: {"register", "upload", "get", "status", "none"},
         pc: {"idle", "parts", "abort", "read", "fetch", "fill", "find", "write",
              "answer"},
         account: Accounts \union {None},
         todo: SUBSET Parts,          \* the Promise.all
         version: Versions,           \* the file sent, or the one fetched
         want: Statuses \union {None},
         saw: SUBSET Statuses]        \* history: statuses since the call began

Idle == [op |-> "none", pc |-> "idle", account |-> None, todo |-> {},
         version |-> 0, want |-> None, saw |-> {}]

TypeOK ==
    /\ email \in [Accounts -> Emails \union {None}]
    /\ users \subseteq Accounts /\ profiles \subseteq Accounts
    /\ status \in [Accounts -> Statuses]
    /\ avatars \subseteq profiles
    /\ image \in [Accounts -> Versions]
    /\ cache \in [Accounts -> Versions \union {Miss}]
    /\ task \in [Handlers -> Task]
    /\ versions \in Versions /\ faults \in 0..MaxFaults
    /\ given \subseteq Accounts /\ answered \subseteq Accounts
    /\ failed \subseteq Accounts /\ raced \subseteq Accounts

Init ==
    /\ email = [a \in Accounts |-> None]
    /\ users = {} /\ profiles = {} /\ avatars = {}
    /\ status = [a \in Accounts |-> Active]
    /\ image = [a \in Accounts |-> 0] /\ cache = [a \in Accounts |-> Miss]
    /\ task = [h \in Handlers |-> Idle]
    /\ versions = 0 /\ faults = 0
    /\ given = {} /\ answered = {} /\ failed = {} /\ raced = {}

-------------------------------------------------------------------------------
(* Helpers *)

Become(h, t) == task' = [task EXCEPT ![h] = t]
Leave(h) == Become(h, Idle)
Goto(h, pc) == Become(h, [task[h] EXCEPT !.pc = pc])
Quiet == \A h \in Handlers : task[h].pc = "idle"

Fault == faults < MaxFaults /\ faults' = faults + 1

Reading(a) == \E h \in Handlers :
                 task[h].op = "get" /\ task[h].account = a /\ task[h].pc = "fill"
Uploading(a) == \E h \in Handlers : task[h].account = a /\ "image" \in task[h].todo

(* uploadImage: the cached sizes are deleted, then the file is sent        *)
Picture == {"clear", "image"}

-------------------------------------------------------------------------------
(* registerAccount *)

BeginRegister(h) ==
    /\ task[h].pc = "idle"
    /\ \E a \in Accounts, e \in Emails, withAvatar \in BOOLEAN :
        /\ email[a] = None
        /\ withAvatar => versions < MaxVersions
        /\ email' = [email EXCEPT ![a] = e]
        /\ versions' = IF withAvatar THEN versions + 1 ELSE versions
        /\ given' = IF withAvatar THEN given \union {a} ELSE given
        /\ Become(h, [Idle EXCEPT
                !.op = "register", !.pc = "parts", !.account = a,
                !.version = IF withAvatar THEN versions' ELSE 0,
                !.todo = {"user", "profile"} \union (IF withAvatar THEN Picture ELSE {})])
    /\ UNCHANGED <<users, profiles, status, avatars, pictures, faults, answered, failed,
                   raced>>

(* Mutant: the schema's unique index on email is missing.                  *)
NeverTaken(a) == FALSE
EmailTaken(a) == \E u \in users : email[u] = email[a]

(* PATCH update/avatar: the profile and the store in parallel.  PATCH      *)
(* update is the same without the file.                                    *)
BeginUpload(h) ==
    /\ task[h].pc = "idle" /\ versions < MaxVersions
    /\ \E a \in users :
        Become(h, [Idle EXCEPT !.op = "upload", !.pc = "parts", !.account = a,
                               !.version = versions + 1,
                               !.todo = {"find", "avatar"} \union Picture])
    /\ versions' = versions + 1
    /\ UNCHANGED <<mongo, pictures, faults, history>>

(* Mutant: the profile is updated without waiting for its lookup.          *)
AnyOrder(part, todo) == TRUE
(* Within one branch of the Promise.all a command waits for the one before *)
Ready(part, todo) ==
    /\ part = "avatar" => "find" \notin todo
    /\ part = "image" => "clear" \notin todo

CreateUser(a) ==
    /\ ~EmailTaken(a)
    /\ users' = users \union {a}
    /\ UNCHANGED <<email, profiles, status, avatars, pictures>>

(* avatar: avatarId, whether or not the upload succeeds                    *)
CreateProfile(a) ==
    /\ profiles' = profiles \union {a}
    /\ avatars' = IF a \in given THEN avatars \union {a} ELSE avatars
    /\ UNCHANGED <<email, users, status, pictures>>

SetAvatar(a) ==
    /\ avatars' = avatars \union {a}
    /\ UNCHANGED <<email, users, profiles, status, pictures>>

(* Mutant: uploadImage leaves the cached sizes alone.                      *)
KeepCached(a) == cache' = cache
ClearCached(a) == cache' = [cache EXCEPT ![a] = Miss]

SendImage(a, version) ==
    /\ image' = [image EXCEPT ![a] = version]
    /\ UNCHANGED <<mongo, cache>>

Perform(part, t) ==
    \/ part = "user" /\ CreateUser(t.account)
    \/ part = "profile" /\ CreateProfile(t.account)
    \/ /\ part = "find" /\ t.account \in profiles
       /\ UNCHANGED <<mongo, pictures>>
    \/ part = "avatar" /\ SetAvatar(t.account)
    \/ part = "clear" /\ ClearCached(t.account) /\ UNCHANGED <<mongo, image>>
    \/ part = "image" /\ SendImage(t.account, t.version)

(* A reader between the two commands may have cached the file before it    *)
Overlap(part, a) ==
    raced' = IF part = "image" /\ Reading(a) THEN raced \union {a} ELSE raced

PartDone(h) ==
    LET t == task[h] IN
    \E part \in t.todo :
        /\ Ready(part, t.todo)
        /\ Perform(part, t)
        /\ Overlap(part, t.account)
        /\ Become(h, [t EXCEPT !.todo = @ \ {part}])
        /\ UNCHANGED <<versions, faults, given, answered, failed>>

(* The error of one part answers the call; what follows it in its branch   *)
(* is not done, the other branches are.                                    *)
Rest(part, todo) ==
    todo \ ({part} \union (IF part = "find" THEN {"avatar"} ELSE {})
                  \union (IF part = "clear" THEN {"image"} ELSE {}))

GiveUp(h, part) ==
    /\ Become(h, [task[h] EXCEPT !.pc = "abort", !.todo = Rest(part, @)])
    /\ failed' = failed \union {task[h].account}

(* The duplicate key, or UserNotfoundException                             *)
PartRefused(h) ==
    LET t == task[h] IN
    /\ \E part \in t.todo :
        /\ \/ part = "user" /\ EmailTaken(t.account)
           \/ part = "find" /\ t.account \notin profiles
        /\ GiveUp(h, part)
    /\ UNCHANGED <<mongo, pictures, versions, faults, given, answered, raced>>

PartErrs(h) ==
    LET t == task[h] IN
    /\ Fault
    /\ \E part \in t.todo :
        /\ Ready(part, t.todo)
        /\ Perform(part, t) \/ UNCHANGED <<mongo, pictures>>
        /\ Overlap(part, t.account)
        /\ GiveUp(h, part)
    /\ UNCHANGED <<versions, given, answered>>

(* Mutant: only the user document is waited for.                           *)
UserDone(t) == "user" \notin t.todo
AllDone(t) == t.todo = {}

(* 'Register success', 'Upload image successfully'                         *)
PartsEnd(h) ==
    LET t == task[h] IN
    /\ t.pc = "parts" /\ AllDone(t)
    /\ answered' = IF t.op = "register" THEN answered \union {t.account} ELSE answered
    /\ Leave(h)
    /\ UNCHANGED <<mongo, pictures, versions, faults, given, failed, raced>>

AbortEnds(h) ==
    /\ task[h].pc = "abort" /\ task[h].todo = {}
    /\ Leave(h)
    /\ UNCHANGED <<mongo, pictures, versions, faults, history>>

-------------------------------------------------------------------------------
(* getImage, behind GetImageCacheHandler *)

BeginGet(h) ==
    /\ task[h].pc = "idle"
    /\ \E a \in avatars :
        Become(h, [Idle EXCEPT !.op = "get", !.pc = "read", !.account = a])
    /\ UNCHANGED <<mongo, pictures, versions, faults, history>>

ReadCached(h) ==
    LET t == task[h] IN
    /\ t.pc = "read"
    /\ IF cache[t.account] # Miss THEN Leave(h) ELSE Goto(h, "fetch")
    /\ UNCHANGED <<mongo, pictures, versions, faults, history>>

(* fetch(url) rejects on a network error only: a 404 is an image too       *)
FetchImage(h) ==
    LET t == task[h] IN
    /\ t.pc = "fetch"
    /\ Become(h, [t EXCEPT !.pc = "fill", !.version = image[t.account]])
    /\ UNCHANGED <<mongo, pictures, versions, faults, history>>

FetchErrs(h) ==
    /\ task[h].pc = "fetch" /\ Fault
    /\ Leave(h)
    /\ UNCHANGED <<mongo, pictures, versions, history>>

FillCached(h) ==
    LET t == task[h] IN
    /\ t.pc = "fill"
    /\ cache' = [cache EXCEPT ![t.account] = t.version]
    /\ raced' = IF Uploading(t.account) THEN raced \union {t.account} ELSE raced
    /\ Leave(h)
    /\ UNCHANGED <<mongo, image, versions, faults, given, answered, failed>>

(* After two days                                                          *)
Expire(a) ==
    /\ cache[a] # Miss
    /\ cache' = [cache EXCEPT ![a] = Miss]
    /\ UNCHANGED <<mongo, image, task, versions, faults, history>>

-------------------------------------------------------------------------------
(* changeStatus *)

BeginStatus(h) ==
    /\ task[h].pc = "idle"
    /\ \E a \in users, s \in Statuses :
        Become(h, [Idle EXCEPT !.op = "status", !.pc = "find", !.account = a,
                               !.want = s, !.saw = {status[a]}])
    /\ UNCHANGED <<mongo, pictures, versions, faults, history>>

(* Mutant: the comparison is turned round.                                 *)
SameStatus(t) == status[t.account] = t.want
NeedsWrite(t) == status[t.account] # t.want

(* validateUserId, and the comparison with what it has read                *)
FindProfile(h) ==
    LET t == task[h] IN
    /\ t.pc = "find"
    /\ \/ t.account \notin profiles /\ Leave(h)
       \/ /\ t.account \in profiles
          /\ Goto(h, IF NeedsWrite(t) THEN "write" ELSE "answer")
    /\ UNCHANGED <<mongo, pictures, versions, faults, history>>

(* Every call under way for this account has now seen this status          *)
SetStatus(a, s, tasks) ==
    /\ status' = [status EXCEPT ![a] = s]
    /\ task' = [h \in Handlers |->
                   IF tasks[h].op = "status" /\ tasks[h].account = a
                   THEN [tasks[h] EXCEPT !.saw = @ \union {s}] ELSE tasks[h]]

WriteStatus(h) ==
    LET t == task[h] IN
    /\ t.pc = "write"
    /\ SetStatus(t.account, t.want, [task EXCEPT ![h].pc = "answer"])
    /\ UNCHANGED <<email, users, profiles, avatars, pictures, versions, faults, history>>

StatusErrs(h) ==
    LET t == task[h] IN
    /\ t.pc = "write" /\ Fault
    /\ \/ SetStatus(t.account, t.want, [task EXCEPT ![h] = Idle])
       \/ Leave(h) /\ UNCHANGED status
    /\ UNCHANGED <<email, users, profiles, avatars, pictures, versions, history>>

(* The event to the gateway and the answer, 200 or 304                     *)
AnswerStatus(h) ==
    /\ task[h].pc = "answer"
    /\ Leave(h)
    /\ UNCHANGED <<mongo, pictures, versions, faults, history>>

-------------------------------------------------------------------------------

(* The process stops; a file on its way may arrive or not                  *)
Crash ==
    LET cut == {h \in Handlers : task[h].todo # {}} IN
    /\ ~Quiet /\ Fault
    /\ \E sent \in SUBSET {h \in cut : Ready("image", task[h].todo)
                                      /\ "image" \in task[h].todo} :
        /\ \A g, h \in sent : task[g].account = task[h].account => g = h
        /\ image' = [a \in Accounts |->
                        IF \E h \in sent : task[h].account = a
                        THEN task[CHOOSE h \in sent : task[h].account = a].version
                        ELSE image[a]]
    /\ task' = [h \in Handlers |-> Idle]
    /\ failed' = failed \union {task[h].account : h \in cut}
    /\ UNCHANGED <<mongo, cache, versions, given, answered, raced>>

-------------------------------------------------------------------------------
(* Specification *)

Step(h) ==
    \/ PartDone(h) \/ PartRefused(h) \/ PartsEnd(h) \/ AbortEnds(h)
    \/ ReadCached(h) \/ FetchImage(h) \/ FillCached(h)
    \/ FindProfile(h) \/ WriteStatus(h) \/ AnswerStatus(h)

Next ==
    \/ \E h \in Handlers :
        \/ BeginRegister(h) \/ BeginUpload(h) \/ BeginGet(h) \/ BeginStatus(h)
        \/ Step(h) \/ PartErrs(h) \/ FetchErrs(h) \/ StatusErrs(h)
    \/ \E a \in Accounts : Expire(a)
    \/ Crash

Spec == Init /\ [][Next]_vars

-------------------------------------------------------------------------------
(* Properties *)

(* An account whose registration has succeeded has both documents, and its *)
(* avatar is in the store if one was given: no part is left to chance,     *)
(* although each of them may fail alone.                                   *)
AnsweredIsComplete ==
    \A a \in answered :
        /\ a \in users /\ a \in profiles
        /\ a \in given => a \in avatars /\ image[a] # 0

(* Of several registrations with one address at most one succeeds, and if  *)
(* no command has failed of itself one does: the losers get the duplicate  *)
(* key, whatever they leave behind in the profile collection.              *)
OneOwner ==
    \A e \in Emails :
        LET own == {a \in answered : email[a] = e}
        IN  /\ Cardinality(own) <= 1
            /\ (Quiet /\ faults = 0 /\ \E a \in Accounts : email[a] = e) => own # {}

(* A cached image is the one in the store, unless it was read while an     *)
(* upload was under way or an upload has failed.                           *)
CachedIsFresh ==
    \A a \in Accounts \ (raced \union failed) : cache[a] \in {Miss, image[a]}

(* A change of status is answered with a status the profile has had since  *)
(* the call began, even if it was judged on a profile read earlier and two *)
(* devices of the user change it at once.                                  *)
AnswerWasTrue ==
    \A h \in Handlers : task[h].pc = "answer" => task[h].want \in task[h].saw
===============================================================================
