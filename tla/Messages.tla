-------------------------------- MODULE Messages --------------------------------
(***************************************************************************)
(* The messages of one conversation and the images attached to them: posts *)
(* with their uploads, edits and removals by any member, their expiry, and *)
(* the events told to the gateway.  MessagePages has the list's pages.     *)
(*                                                                         *)
(* A command to MongoDB or to the image store is a step.  Membership, the  *)
(* conversation's cache entries and the recipients of an event are         *)
(* GroupConversation's; here a call holds the lastMessage of some entry.   *)
(***************************************************************************)
EXTENDS Integers, FiniteSets

CONSTANTS
    Handlers,
    Assets,      \* public ids of uploads; a file gets one that nothing knows
    Uploads,     \* the sets of files a post may carry
    MaxPosts,    \* bound: messages, numbered by createdAt
    MaxCalls,    \* bound: edits and removals
    MaxFaults,   \* bound: failed uploads and writes, crashes
    None

ASSUME NoneAssumption == None \notin Assets /\ None \notin Nat
(* A public id is no message.                                              *)
ASSUME AssetsAssumption == \A a \in Assets : a \notin Nat
ASSUME UploadsAssumption == Uploads \subseteq SUBSET Assets
ASSUME BoundsAssumption ==
    MaxPosts \in Nat /\ MaxCalls \in Nat /\ MaxFaults \in Nat

VARIABLES
    message,    \* the collection: message -> what is stored of it
    last,       \* lastMessage of the conversation document
    images,     \* the image store
    uploading,  \* uploads the store has not answered
    erasing,    \* destroys the store has not executed; nobody waits for them
    task,       \* handler -> what it is doing
    heard,      \* message -> the last event the gateway was told of it
    preview,    \* the last EVENT_MESSAGE_UPDATE_LAST_MESSAGE
    posts, calls, faults,
    removed,    \* history: messages a removal has marked
    torn,       \* history: assets and messages whose call failed
    blurred     \* history: two calls overlapped, or one failed

data == <<message, last, images, uploading, erasing>>
told == <<heard, preview>>
history == <<removed, torn, blurred>>
vars == <<data, task, told, posts, calls, faults, history>>

-------------------------------------------------------------------------------
(* Values *)

Ids == 1..MaxPosts
Actions == {"New", "Edited", "Removed"}
(* "none": not stored yet; "gone": expired.  The attachments of one that is *)
(* gone are history: what it left in the image store.                      *)
Stored == [action: Actions \union {"none", "gone"}, attachments: SUBSET Assets]
Absent == [action |-> "none", attachments |-> {}]
Preview == [msg: Ids \union {None}, action: Actions \union {"none"}]

Task == [action: Actions \union {"none"},
         pc: {"idle", "upload", "hook", "insert", "update", "empty", "announce"},
         msg: Ids \union {None},
         files: SUBSET Assets,         \* the attachments of a post
         todo: SUBSET Assets,          \* those not uploaded yet
         snap: Ids \union {None}]      \* req.conversation.lastMessage

Idle == [action |-> "none", pc |-> "idle", msg |-> None, files |-> {},
         todo |-> {}, snap |-> None]

TypeOK ==
    /\ message \in [Ids -> Stored]
    /\ last \in Ids \union {None}
    /\ images \subseteq Assets /\ uploading \subseteq Assets /\ erasing \subseteq Assets
    /\ task \in [Handlers -> Task]
    /\ heard \in [Ids -> Actions \union {"none"}]
    /\ preview \in Preview
    /\ posts \in 0..MaxPosts /\ calls \in 0..MaxCalls /\ faults \in 0..MaxFaults
    /\ removed \subseteq Ids /\ torn \subseteq Assets \union Ids
    /\ blurred \in BOOLEAN
    /\ \A h \in Handlers :    \* a message is inserted once, and then is there
        /\ task[h].pc \in {"hook", "insert"} => message[task[h].msg] = Absent
        /\ task[h].pc \in {"empty", "announce"} => message[task[h].msg] # Absent

Init ==
    /\ message = [m \in Ids |-> Absent] /\ last = None
    /\ images = {} /\ uploading = {} /\ erasing = {}
    /\ task = [h \in Handlers |-> Idle]
    /\ heard = [m \in Ids |-> "none"]
    /\ preview = [msg |-> None, action |-> "none"]
    /\ posts = 0 /\ calls = 0 /\ faults = 0
    /\ removed = {} /\ torn = {} /\ blurred = FALSE

-------------------------------------------------------------------------------
(* Helpers *)

Become(h, t) == task' = [task EXCEPT ![h] = t]
Leave(h) == Become(h, Idle)
Goto(h, pc) == Become(h, [task[h] EXCEPT !.pc = pc])

Known == images \union uploading \union erasing \union torn
         \union (UNION {message[m].attachments : m \in Ids})
         \union (UNION {task[h].files : h \in Handlers})

InCollection == {m \in Ids : message[m].action \notin {"none", "gone"}}
Quiet == \A h \in Handlers : task[h].pc = "idle"

(* An error: the call ends with it, nobody retries or undoes what was done *)
Fault(lost) ==
    /\ faults < MaxFaults /\ faults' = faults + 1
    /\ torn' = torn \union lost /\ blurred' = TRUE

(* What the entry of the conversation may say of lastMessage.  Calls made  *)
(* one at a time find it up to date (CoherentAtRest in GroupConversation), *)
(* or none when populate finds it expired; others may find an older one.   *)
Snapshots ==
    IF blurred \/ ~Quiet THEN 1..posts \union {None}
    ELSE IF last \in InCollection THEN {last} ELSE {last, None}

Begin(h, t) ==
    /\ task[h].pc = "idle"
    /\ \E snap \in Snapshots : Become(h, [t EXCEPT !.snap = snap])
    /\ blurred' = (blurred \/ ~Quiet)

-------------------------------------------------------------------------------
(* createMessage *)

(* A post with neither content nor attachments is refused before anything  *)
(* is done.  The uploads of the others start together.                     *)
BeginPost(h) ==
    /\ posts < MaxPosts
    /\ \E files \in Uploads :
        /\ files \intersect Known = {}
        /\ Begin(h, [Idle EXCEPT !.action = "New", !.pc = "upload",
                                 !.files = files, !.todo = files])
        /\ uploading' = uploading \union files
    /\ UNCHANGED <<message, last, images, erasing, told, posts, calls, faults,
                   removed, torn>>

(* The store has the image, and answers whoever still waits for it         *)
UploadDone(a) ==
    /\ a \in uploading
    /\ uploading' = uploading \ {a} /\ images' = images \union {a}
    /\ task' = [h \in Handlers |-> [task[h] EXCEPT !.todo = @ \ {a}]]
    /\ UNCHANGED <<message, last, erasing, told, posts, calls, faults, history>>

(* Promise.all: one upload fails, the post is over, the others run on      *)
UploadErrs(h) ==
    /\ \E a \in task[h].todo : uploading' = uploading \ {a}
    /\ Fault(task[h].files)
    /\ Leave(h)
    /\ UNCHANGED <<message, last, images, erasing, told, posts, calls, removed>>

(* Mutant: the attachments' descriptions are stored without waiting.       *)
NotAwaited(t) == TRUE
Uploaded(t) == t.todo = {}

(* messageModel.create: id and createdAt are given before the hook runs    *)
Create(h) ==
    /\ task[h].pc = "upload" /\ Uploaded(task[h]) /\ posts < MaxPosts
    /\ posts' = posts + 1
    /\ Become(h, [task[h] EXCEPT !.pc = "hook", !.msg = posts + 1])
    /\ UNCHANGED <<data, told, calls, faults, history>>

(* pre('save'); its other half, the cache, is in GroupConversation         *)
HookWritesLast(h) ==
    /\ task[h].pc = "hook"
    /\ last' = task[h].msg
    /\ Goto(h, "insert")
    /\ UNCHANGED <<message, images, uploading, erasing, told, posts, calls,
                   faults, history>>

Insert(t) == message' = [message EXCEPT ![t.msg] =
                            [action |-> "New", attachments |-> t.files]]

InsertMessage(h) ==
    /\ task[h].pc = "insert"
    /\ Insert(task[h])
    /\ Goto(h, "announce")
    /\ UNCHANGED <<last, images, uploading, erasing, told, posts, calls, faults,
                   history>>

-------------------------------------------------------------------------------
(* editContentMessage, for an edit or a removal.  Neither the author nor   *)
(* what was done to the message before is looked at.                       *)

BeginModify(h) ==
    /\ calls < MaxCalls /\ calls' = calls + 1
    /\ \E action \in {"Edited", "Removed"}, m \in 1..posts :
        Begin(h, [Idle EXCEPT !.action = action, !.pc = "update", !.msg = m])
    /\ UNCHANGED <<data, told, posts, faults, removed, torn>>

(* Mutant: one update writes the action and an empty list.                 *)
UpdateBoth(t) ==
    /\ message' = [message EXCEPT ![t.msg].action = t.action,
                                  ![t.msg].attachments =
                                      IF t.action = "Removed" THEN {} ELSE @]
    /\ removed' = removed \union (IF t.action = "Removed" THEN {t.msg} ELSE {})
Update(t) ==
    /\ message' = [message EXCEPT ![t.msg].action = t.action]
    /\ removed' = removed \union (IF t.action = "Removed" THEN {t.msg} ELSE {})

(* What the document has attached after the update (new: true)             *)
ToErase(t) == IF t.action = "Removed" THEN message'[t.msg].attachments ELSE {}

(* Mutant: the list of attachments is left as it is.                       *)
KeepList(t) == "announce"
AfterUpdate(t) == IF ToErase(t) = {} THEN "announce" ELSE "empty"

(* Mutant: with upsert.                                                    *)
FoundOrMade(t) == TRUE

Found(t) == t.msg \in InCollection

(* findByIdAndUpdate, new: true; deletes() is started and not awaited      *)
UpdateMessage(h) ==
    /\ task[h].pc = "update" /\ Found(task[h])
    /\ Update(task[h])
    /\ erasing' = erasing \union ToErase(task[h])
    /\ Goto(h, AfterUpdate(task[h]))
    /\ UNCHANGED <<last, images, uploading, told, posts, calls, faults, torn,
                   blurred>>

(* 'Message not found'                                                     *)
UpdateRefused(h) ==
    /\ task[h].pc = "update" /\ ~Found(task[h])
    /\ Leave(h)
    /\ UNCHANGED <<data, told, posts, calls, faults, history>>

(* Of a message that has expired meanwhile findByIdAndUpdate finds none.   *)
Empty(t) ==
    IF t.msg \in InCollection
    THEN message' = [message EXCEPT ![t.msg].attachments = {}]
    ELSE UNCHANGED message

EmptyAttachments(h) ==
    /\ task[h].pc = "empty"
    /\ Empty(task[h])
    /\ Goto(h, "announce")
    /\ UNCHANGED <<last, images, uploading, erasing, told, posts, calls, faults,
                   history>>

(* uploader.destroy; an error of it is only logged                         *)
EraseDone(a) ==
    /\ a \in erasing
    /\ erasing' = erasing \ {a} /\ images' = images \ {a}
    /\ UNCHANGED <<message, last, uploading, task, told, posts, calls, faults,
                   history>>

EraseErrs(a) ==
    /\ a \in erasing
    /\ Fault({a})
    /\ erasing' = erasing \ {a}
    /\ UNCHANGED <<message, last, images, uploading, task, told, posts, calls,
                   removed>>

-------------------------------------------------------------------------------
(* EmitModifiedMessage and MessagingGateway *)

(* Mutant: isSame is forgotten.                                            *)
AnyMessageIsLast(t) == t.snap # None
LastMessageValidate(t) ==
    /\ t.snap # None
    /\ t.action = "New" \/ t.snap = t.msg

(* Mutant: deleteMessage answers with the action of an edit.               *)
TellsEdited(t) == IF t.action = "Removed" THEN "Edited" ELSE t.action
Tells(t) == t.action

Announce(h) ==
    LET t == task[h] IN
    /\ t.pc = "announce"
    /\ heard' = [heard EXCEPT ![t.msg] = Tells(t)]
    /\ preview' = IF LastMessageValidate(t)
                  THEN [msg |-> t.msg, action |-> Tells(t)] ELSE preview
    /\ Leave(h)
    /\ UNCHANGED <<data, posts, calls, faults, history>>

-------------------------------------------------------------------------------
(* Errors and restarts *)

(* With wtimeoutMS the write may have been applied                         *)
WriteErrs(h) ==
    LET t == task[h] IN
    /\ t.pc \in {"hook", "insert", "update", "empty"}
    /\ t.pc = "update" => Found(t)
    /\ Fault(t.files \union {t.msg} \union message[t.msg].attachments)
    /\ \/ UNCHANGED <<message, last, removed>>
       \/ /\ t.pc = "hook" /\ last' = t.msg
          /\ UNCHANGED <<message, removed>>
       \/ /\ t.pc = "insert" /\ Insert(t)
          /\ UNCHANGED <<last, removed>>
       \/ /\ t.pc = "update" /\ Update(t)
          /\ UNCHANGED last
       \/ /\ t.pc = "empty" /\ Empty(t)
          /\ UNCHANGED <<last, removed>>
    /\ Leave(h)
    /\ UNCHANGED <<images, uploading, erasing, told, posts, calls>>

(* The process stops.  What it had sent to the image store may be done.    *)
Crash ==
    /\ ~Quiet \/ uploading \union erasing # {}
    /\ Fault(uploading \union erasing
             \union (UNION {task[h].files \union ({task[h].msg} \ {None}) : h \in Handlers}))
    /\ \E sent \in SUBSET uploading, gone \in SUBSET erasing :
        images' = (images \union sent) \ gone
    /\ uploading' = {} /\ erasing' = {}
    /\ task' = [h \in Handlers |-> Idle]
    /\ UNCHANGED <<message, last, told, posts, calls, removed>>

-------------------------------------------------------------------------------
(* The TTL index on createdAt, a year: the oldest go first.  No code looks *)
(* at what an expired message had attached.                                *)

Expire(m) ==
    /\ m \in InCollection /\ \A k \in InCollection : m <= k
    /\ message' = [message EXCEPT ![m].action = "gone"]
    /\ UNCHANGED <<last, images, uploading, erasing, task, told, posts, calls, faults,
                   history>>

-------------------------------------------------------------------------------
(* Specification *)

Step(h) ==
    \/ Create(h) \/ HookWritesLast(h) \/ InsertMessage(h)
    \/ UpdateMessage(h) \/ UpdateRefused(h) \/ EmptyAttachments(h)
    \/ Announce(h)

Next ==
    \/ \E h \in Handlers :
        BeginPost(h) \/ BeginModify(h) \/ Step(h) \/ UploadErrs(h) \/ WriteErrs(h)
    \/ \E a \in Assets : UploadDone(a) \/ EraseDone(a) \/ EraseErrs(a)
    \/ Crash
    \/ \E m \in Ids : Expire(m)

Spec == Init /\ [][Next]_vars

-------------------------------------------------------------------------------
(* Properties *)

(* A stored message names images that are in the store: it is inserted     *)
(* after all its uploads, and only a removal of that very message takes    *)
(* them away, whatever edits, failures and restarts come in between.  Not  *)
(* even its expiry does: what it had attached stays in the store for ever. *)
ReferencedExist ==
    \A m \in Ids \ removed : message[m].attachments \subseteq images

(* Each image of the store has someone to answer for it: a message of the  *)
(* collection, a post under way, a destroy or an error; or it was left     *)
(* behind by a message that expired.  In particular the removal of a       *)
(* message several calls modify at once loses none.                        *)
OrphansAccounted ==
    \A a \in images :
        \/ \E m \in InCollection : a \in message[m].attachments
        \/ \E h \in Handlers : a \in task[h].files
        \/ a \in erasing \union torn
        \/ \E m \in Ids : message[m].action = "gone" /\ a \in message[m].attachments

(* Once every call is over, a removed message that is still there has lost *)
(* its list, even if an edit came between the two updates of the removal   *)
(* and gave the message its text back; only an error leaves one behind.    *)
RemovedAreEmpty ==
    Quiet => \A m \in (removed \ torn) \intersect InCollection : message[m].attachments = {}

(* After calls made one at a time, what the members last heard of each     *)
(* stored message is what is stored of it, and the last-message event they *)
(* have got shows the newest message as it is now, although edits of       *)
(* others came in between.  There is none for the first message of a       *)
(* conversation, or the first after all others expired, until it is        *)
(* edited, removed or followed.                                            *)
EventsAreTrue ==
    Quiet /\ ~blurred =>
        /\ \A m \in InCollection : heard[m] = message[m].action /\ m <= last
        /\ last \in InCollection =>
              \/ preview = [msg |-> last, action |-> message[last].action]
              \/ /\ preview.msg # last /\ message[last].action = "New"
                 /\ InCollection = {last}

(* Messages and images keep their promise: every step of a handler, of the *)
(* store, or of a failure, is a step of MessageLedger, or none.            *)
Pending == {"upload", "hook", "insert"}
Due == {task[h].files : h \in {g \in Handlers : task[g].pc \in Pending}} \ {{}}
Doomed == erasing \union UNION {message[m].attachments : m \in removed}

Ledger == INSTANCE MessageLedger WITH due <- Due, doomed <- Doomed
ImplementsLedger == Ledger!Spec
===============================================================================
