----------------------------- MODULE MessagesProofs -----------------------------
(***************************************************************************)
(* Theorems about Messages for every set of handlers, assets and uploads,  *)
(* and every number of posts, calls and faults.                            *)
(***************************************************************************)
EXTENDS Messages, TLAPS

-------------------------------------------------------------------------------
(* The inductive invariant *)

Shape(t) ==
    /\ t.pc = "idle" => t.files = {} /\ t.todo = {}
    /\ t.pc \in Pending => t.action = "New"
    /\ t.pc = "upload" => t.msg = None
    /\ t.pc \notin {"idle", "upload"} => t.msg \in 1..posts
    /\ t.pc \notin {"idle"} => t.action # "none"
    /\ t.pc \in {"update", "empty"} => t.files = {} /\ t.action \in {"Edited", "Removed"}
    /\ t.pc # "upload" => t.todo = {}
    /\ t.todo \subseteq t.files

(* An awaited file is being uploaded, the others of a post are there and   *)
(* nobody destroys them.                                                   *)
FilesInv(t) ==
    t.pc \in Pending =>
        /\ t.todo \subseteq uploading
        /\ t.files \ t.todo \subseteq images \ uploading
        /\ t.files \intersect erasing = {}

(* Where a message is in the collection.                                   *)
PlaceInv(t) ==
    /\ t.pc \in {"hook", "insert"} => message[t.msg] = Absent
    /\ t.pc \in {"empty", "announce"} => message[t.msg] # Absent
    /\ t.pc = "empty" => message[t.msg].attachments \intersect images \subseteq erasing \union torn

TasksInv ==
    \A h \in Handlers : Shape(task[h]) /\ FilesInv(task[h]) /\ PlaceInv(task[h])

(* A file belongs to one post, and later to its message.                   *)
Disjoint ==
    /\ \A g, h \in Handlers :
          g # h => /\ task[g].files \intersect task[h].files = {}
                   /\ task[g].pc \in {"hook", "insert"} /\ task[h].pc \in {"hook", "insert"} =>
                         task[g].msg # task[h].msg
    /\ \A h \in Handlers, m \in Ids :
          task[h].files \intersect message[m].attachments # {} =>
              task[h].pc = "announce" /\ task[h].msg = m
    /\ \A m, n \in Ids :
          m # n => message[m].attachments \intersect message[n].attachments = {}

Ever == {m \in Ids : message[m].action # "none"}

(* The collection, and what the store has still to do for it.              *)
CollectionInv ==
    /\ \A m \in Ids : message[m].action = "none" => message[m] = Absent
    /\ Ever \subseteq 1..posts
    /\ removed \subseteq Ever
    /\ last # None => last \in 1..posts
    /\ \A m \in Ids : message[m].attachments \intersect uploading = {}
    /\ \A m \in Ids \ removed : message[m].attachments \intersect erasing = {}
    /\ \A a \in uploading \ torn : \E h \in Handlers : a \in task[h].todo

(* OrphansAccounted, where a post holds its files until they are inserted. *)
Accounted ==
    \A a \in images :
        \/ \E m \in Ids : a \in message[m].attachments
        \/ \E h \in Handlers : task[h].pc \in Pending /\ a \in task[h].files
        \/ a \in erasing \union torn

(* RemovedAreEmpty at every moment: someone is about to empty the list.    *)
Emptying(m) == \E h \in Handlers : task[h].pc = "empty" /\ task[h].msg = m
RemovedInv ==
    \A m \in removed \ torn :
        message[m].action = "gone" \/ message[m].attachments = {} \/ Emptying(m)

IInv ==
    /\ TypeOK
    /\ TasksInv
    /\ Disjoint
    /\ CollectionInv
    /\ Accounted
    /\ ReferencedExist
    /\ RemovedInv

(* EventsAreTrue at every moment, while no two calls have overlapped: what *)
(* is shown of the last message before a call, and what a call under way   *)
(* has still to tell.                                                      *)
OneAtATime == \A g, h \in Handlers : g # h => task[g].pc = "idle" \/ task[h].pc = "idle"

(* The newest message is last, and is the last to expire.                  *)
Newest ==
    /\ last = IF posts = 0 THEN None ELSE posts
    /\ last \in InCollection \/ InCollection = {}

NothingTold == preview.msg # last /\ message[last].action = "New" /\ InCollection = {last}

Shown ==
    last \in InCollection =>
        preview = [msg |-> last, action |-> message[last].action] \/ NothingTold

Settled == Newest /\ Shown

ToTell(t) ==
    /\ t.pc \in {"upload", "update"} => Settled
    /\ t.pc \in {"upload", "update", "empty"} \/ (t.pc = "announce" /\ t.action # "New") =>
          t.snap = last \/ InCollection = {}
    /\ t.pc \in {"hook", "insert"} =>
          /\ t.msg = posts /\ preview.msg # posts
          /\ t.snap = None => InCollection = {}
    /\ t.pc = "insert" => last = t.msg
    /\ t.pc \in {"empty", "announce"} => Newest /\ message[t.msg].action \in {t.action, "gone"}
    /\ t.pc = "announce" /\ t.action = "New" =>
          /\ last = t.msg
          /\ t.snap = None => preview.msg # last /\ InCollection \subseteq {last}
    /\ t.pc = "empty" \/ (t.pc = "announce" /\ t.action # "New") => t.msg = last \/ Shown

Telling(m) == \E h \in Handlers : task[h].pc \in {"empty", "announce"} /\ task[h].msg = m
TrulyHeard(m) == m \in InCollection => heard[m] = message[m].action \/ Telling(m)

EventsInv ==
    ~blurred =>
        /\ OneAtATime
        /\ Quiet => Settled
        /\ preview.msg \in 1..posts \union {None}
        /\ \A m \in Ids : TrulyHeard(m)
        /\ \A h \in Handlers : ToTell(task[h])

-------------------------------------------------------------------------------
(* What the steps share *)

LEMMA Numbers ==
  ASSUME TypeOK
  PROVE  /\ 1..posts \subseteq Ids
         /\ posts < MaxPosts => posts + 1 \in Ids \ 1..posts
         /\ Ids \subseteq Nat /\ None \notin Ids
  BY NoneAssumption, BoundsAssumption DEF TypeOK, Ids

LEMMA Becomes ==
  ASSUME TypeOK, NEW h \in Handlers, NEW t \in Task, Become(h, t)
  PROVE  /\ task' \in [Handlers -> Task] /\ task'[h] = t
         /\ \A g \in Handlers \ {h} : task'[g] = task[g]
  BY DEF Become, TypeOK

LEMMA Goes ==
  ASSUME TypeOK, NEW h \in Handlers, NEW pc, Goto(h, pc),
         pc \in {"idle", "upload", "hook", "insert", "update", "empty", "announce"}
  PROVE  /\ task' \in [Handlers -> Task] /\ task'[h].pc = pc
         /\ task'[h].files = task[h].files /\ task'[h].todo = task[h].todo
         /\ task'[h].msg = task[h].msg /\ task'[h].action = task[h].action
         /\ task'[h].snap = task[h].snap
         /\ \A g \in Handlers \ {h} : task'[g] = task[g]
<1> DEFINE T == [task[h] EXCEPT !.pc = pc]
<1>1. task[h] \in Task
  BY DEF TypeOK
<1>2. /\ T \in Task /\ T.pc = pc /\ T.files = task[h].files /\ T.todo = task[h].todo
      /\ T.msg = task[h].msg /\ T.action = task[h].action /\ T.snap = task[h].snap
  BY <1>1 DEF Task
<1> QED BY <1>2, Becomes DEF Goto

LEMMA IdleTask ==
  Idle \in Task /\ Idle.pc = "idle" /\ Idle.files = {} /\ Idle.todo = {}
  BY DEF Idle, Task

LEMMA SnapshotsOK == TypeOK => Snapshots \subseteq Ids \union {None}
  BY Numbers DEF Snapshots, TypeOK

-------------------------------------------------------------------------------
(* The steps *)

LEMMA BeginPostStep ==
  ASSUME IInv, NEW h \in Handlers, BeginPost(h)
  PROVE  IInv'
<1>1. PICK files \in Uploads, snap \in Snapshots :
        /\ files \intersect Known = {}
        /\ task[h].pc = "idle"
        /\ uploading' = uploading \union files
        /\ Become(h, [[Idle EXCEPT !.action = "New", !.pc = "upload", !.files = files,
                                   !.todo = files] EXCEPT !.snap = snap])
  BY DEF BeginPost, Begin
<1> DEFINE T == [[Idle EXCEPT !.action = "New", !.pc = "upload", !.files = files,
                             !.todo = files] EXCEPT !.snap = snap]
<1>2. T \in Task
  BY <1>1, SnapshotsOK, IdleTask, UploadsAssumption DEF IInv, Idle, Task, Actions
<1>3. /\ task' \in [Handlers -> Task] /\ task'[h] = T
      /\ \A g \in Handlers \ {h} : task'[g] = task[g]
  BY <1>1, <1>2, Becomes DEF IInv
<1>4. UNCHANGED <<message, last, images, erasing, posts, removed, torn>>
  BY DEF BeginPost, told
<1>5. /\ files \intersect (images \union uploading \union erasing) = {}
      /\ \A m \in Ids : files \intersect message[m].attachments = {}
      /\ \A g \in Handlers : files \intersect task[g].files = {}
  BY <1>1 DEF Known
<1>6. /\ T.pc = "upload" /\ T.files = files /\ T.todo = files /\ T.msg = None
      /\ T.action = "New"
  BY DEF Idle
<1> HIDE DEF T
<1>7. TypeOK'
  BY <1>1, <1>3, <1>4, <1>6, UploadsAssumption DEF IInv, TypeOK, BeginPost, Begin, told, history
<1>8. TasksInv'
  BY <1>1, <1>3, <1>4, <1>5, <1>6 DEF IInv, TasksInv, Shape, FilesInv, PlaceInv, Pending
<1>9. Disjoint'
  BY <1>3, <1>4, <1>5, <1>6 DEF IInv, Disjoint
<1>10. CollectionInv'
  <2>1. \A a \in uploading' \ torn' : \E g \in Handlers : a \in task'[g].todo
    BY <1>1, <1>3, <1>4, <1>6, IdleTask DEF IInv, CollectionInv, TasksInv, Shape
  <2> QED BY <1>1, <1>4, <1>5, <2>1 DEF IInv, CollectionInv, Ever
<1>11. Accounted'
  BY <1>1, <1>3, <1>4 DEF IInv, Accounted, Pending
<1>12. ReferencedExist'
  BY <1>4 DEF IInv, ReferencedExist
<1>13. RemovedInv'
  BY <1>1, <1>3, <1>4 DEF IInv, RemovedInv, Emptying
<1> QED BY <1>7, <1>8, <1>9, <1>10, <1>11, <1>12, <1>13 DEF IInv

LEMMA UploadDoneStep ==
  ASSUME IInv, NEW a \in Assets, UploadDone(a)
  PROVE  IInv'
<1>1. /\ a \in uploading /\ uploading' = uploading \ {a} /\ images' = images \union {a}
      /\ UNCHANGED <<message, last, erasing, heard, preview, posts, calls, faults,
                     removed, torn, blurred>>
  BY DEF UploadDone, told, history
<1>2. /\ task' = [h \in Handlers |-> [task[h] EXCEPT !.todo = @ \ {a}]]
      /\ \A h \in Handlers : task[h] \in Task
  BY DEF UploadDone, IInv, TypeOK
<1>3. \A h \in Handlers :
        /\ task'[h] \in Task
        /\ task'[h].pc = task[h].pc /\ task'[h].files = task[h].files
        /\ task'[h].msg = task[h].msg /\ task'[h].action = task[h].action
        /\ task'[h].todo = task[h].todo \ {a}
  BY <1>2 DEF Task
<1>4. TypeOK'
  <2>1. task' \in [Handlers -> Task]
    BY <1>2, <1>3
  <2> QED BY <1>1, <1>3, <2>1 DEF IInv, TypeOK
<1>5. TasksInv'
  <2> SUFFICES ASSUME NEW h \in Handlers
               PROVE  (Shape(task[h]) /\ FilesInv(task[h]) /\ PlaceInv(task[h]))'
    BY DEF TasksInv
  <2>1. Shape(task[h])'
    BY <1>1, <1>3 DEF IInv, TasksInv, Shape
  <2>2. FilesInv(task[h])'
    BY <1>1, <1>3 DEF IInv, TasksInv, FilesInv
  <2>3. task[h].pc = "empty" => task[h].msg \in Ids
    BY Numbers DEF IInv, TasksInv, Shape
  <2>4. PlaceInv(task[h])'
    BY <1>1, <1>3, <2>3 DEF IInv, TasksInv, PlaceInv, CollectionInv
  <2> QED BY <2>1, <2>2, <2>4
<1>6. Disjoint'
  BY <1>1, <1>3 DEF IInv, Disjoint
<1>7. CollectionInv'
  BY <1>1, <1>3 DEF IInv, CollectionInv, Ever
<1>8. Accounted'
  <2>1. a \in torn \/ \E h \in Handlers : task[h].pc \in Pending /\ a \in task[h].files
    BY <1>1 DEF IInv, CollectionInv, TasksInv, Shape, Pending
  <2> QED BY <1>1, <1>3, <2>1 DEF IInv, Accounted
<1>9. ReferencedExist'
  BY <1>1 DEF IInv, ReferencedExist
<1>10. RemovedInv'
  BY <1>1, <1>3 DEF IInv, RemovedInv, Emptying
<1> QED BY <1>4, <1>5, <1>6, <1>7, <1>8, <1>9, <1>10 DEF IInv

LEMMA UploadErrsStep ==
  ASSUME IInv, NEW h \in Handlers, UploadErrs(h)
  PROVE  IInv'
<1>1. PICK a \in task[h].todo : uploading' = uploading \ {a}
  BY DEF UploadErrs
<1>2. /\ UNCHANGED <<message, last, images, erasing, heard, preview, posts, calls,
                     removed>>
      /\ faults' \in 0..MaxFaults /\ torn' = torn \union task[h].files /\ blurred' = TRUE
  BY BoundsAssumption DEF UploadErrs, Fault, told, IInv, TypeOK
<1>3. /\ task' \in [Handlers -> Task] /\ task'[h] = Idle
      /\ \A g \in Handlers \ {h} : task'[g] = task[g]
  BY IdleTask, Becomes DEF IInv, UploadErrs, Leave
<1>4. /\ task[h].pc = "upload" /\ task[h].todo \subseteq task[h].files
      /\ task[h].files \subseteq Assets
  BY <1>1 DEF IInv, TasksInv, Shape, TypeOK, Task
<1>5. TypeOK'
  BY <1>1, <1>2, <1>3, <1>4, IdleTask DEF IInv, TypeOK
<1>6. TasksInv'
  BY <1>1, <1>2, <1>3, <1>4, IdleTask
     DEF IInv, TasksInv, Shape, FilesInv, PlaceInv, Pending, Disjoint
<1>7. Disjoint'
  BY <1>2, <1>3, IdleTask DEF IInv, Disjoint
<1>8. CollectionInv'
  BY <1>1, <1>2, <1>3, <1>4 DEF IInv, CollectionInv, Ever
<1>9. Accounted'
  BY <1>2, <1>3 DEF IInv, Accounted
<1>10. ReferencedExist'
  BY <1>2 DEF IInv, ReferencedExist
<1>11. RemovedInv'
  BY <1>2, <1>3, <1>4 DEF IInv, RemovedInv, Emptying
<1> QED BY <1>5, <1>6, <1>7, <1>8, <1>9, <1>10, <1>11 DEF IInv

LEMMA CreateStep ==
  ASSUME IInv, NEW h \in Handlers, Create(h)
  PROVE  IInv'
<1> DEFINE T == [task[h] EXCEPT !.pc = "hook", !.msg = posts + 1]
<1>1. /\ task[h].pc = "upload" /\ task[h].todo = {} /\ posts < MaxPosts
      /\ posts' = posts + 1 /\ Become(h, T)
      /\ UNCHANGED <<message, last, images, uploading, erasing, heard, preview,
                     calls, faults, removed, torn, blurred>>
  BY DEF Create, Uploaded, data, told, history
<1>2. /\ T \in Task /\ T.pc = "hook" /\ T.msg = posts + 1 /\ T.files = task[h].files
      /\ T.todo = {} /\ T.action = task[h].action /\ posts + 1 \in Ids \ 1..posts
  <2>1. task[h] \in Task /\ posts + 1 \in Ids \ 1..posts
    BY <1>1, Numbers DEF IInv, TypeOK
  <2> QED BY <1>1, <2>1 DEF Task
<1>3. /\ task' \in [Handlers -> Task] /\ task'[h] = T
      /\ \A g \in Handlers \ {h} : task'[g] = task[g]
  BY <1>1, <1>2, Becomes DEF IInv
<1> HIDE DEF T
<1>4. message[posts + 1] = Absent
  BY <1>2 DEF IInv, CollectionInv, Ever
<1>5. 1..posts \subseteq 1..posts' /\ posts + 1 \in 1..posts' /\ posts' \in 0..MaxPosts
  BY <1>1, BoundsAssumption DEF IInv, TypeOK
<1>6. TypeOK'
  BY <1>1, <1>2, <1>3, <1>4, <1>5 DEF IInv, TypeOK
<1>7. TasksInv'
  <2> SUFFICES ASSUME NEW g \in Handlers
               PROVE  (Shape(task[g]) /\ FilesInv(task[g]) /\ PlaceInv(task[g]))'
    BY DEF TasksInv
  <2>1. CASE g = h
    BY <1>1, <1>2, <1>3, <1>4, <1>5, <2>1
       DEF IInv, TasksInv, Shape, FilesInv, PlaceInv, Pending
  <2>2. CASE g # h
    BY <1>1, <1>3, <1>5, <2>2 DEF IInv, TasksInv, Shape, FilesInv, PlaceInv
  <2> QED BY <2>1, <2>2
<1>8. Disjoint'
  <2>1. \A g \in Handlers \ {h} : task[g].pc \in {"hook", "insert"} => task[g].msg # posts + 1
    BY <1>2 DEF IInv, TasksInv, Shape
  <2>2. \A m \in Ids : task[h].files \intersect message[m].attachments = {}
    BY <1>1 DEF IInv, Disjoint
  <2> QED BY <1>1, <1>2, <1>3, <2>1, <2>2 DEF IInv, Disjoint
<1>9. CollectionInv'
  <2>1. \A a \in uploading' \ torn' : \E g \in Handlers : a \in task'[g].todo
    BY <1>1, <1>2, <1>3 DEF IInv, CollectionInv
  <2> QED BY <1>1, <1>5, <2>1 DEF IInv, CollectionInv, Ever
<1>10. Accounted'
  BY <1>1, <1>2, <1>3 DEF IInv, Accounted, Pending
<1>11. ReferencedExist'
  BY <1>1 DEF IInv, ReferencedExist
<1>12. RemovedInv'
  BY <1>1, <1>3 DEF IInv, RemovedInv, Emptying
<1> QED BY <1>6, <1>7, <1>8, <1>9, <1>10, <1>11, <1>12 DEF IInv

LEMMA HookStep ==
  ASSUME IInv, NEW h \in Handlers, HookWritesLast(h)
  PROVE  IInv'
<1>1. /\ task[h].pc = "hook" /\ last' = task[h].msg
      /\ UNCHANGED <<message, images, uploading, erasing, heard, preview, posts,
                     calls, faults, removed, torn, blurred>>
  BY DEF HookWritesLast, told, history
<1>2. /\ task' \in [Handlers -> Task] /\ task'[h].pc = "insert"
      /\ task'[h].files = task[h].files /\ task'[h].todo = task[h].todo
      /\ task'[h].msg = task[h].msg /\ task'[h].action = task[h].action
      /\ \A g \in Handlers \ {h} : task'[g] = task[g]
  BY Goes DEF IInv, HookWritesLast
<1>3. task[h].msg \in 1..posts /\ task[h].msg \in Ids
  BY <1>1, Numbers DEF IInv, TasksInv, Shape
<1>4. TypeOK'
  <2>1. message[task[h].msg] = Absent
    BY <1>1 DEF IInv, TypeOK
  <2> QED BY <1>1, <1>2, <1>3, <2>1 DEF IInv, TypeOK
<1>5. TasksInv'
  BY <1>1, <1>2 DEF IInv, TasksInv, Shape, FilesInv, PlaceInv, Pending
<1>6. Disjoint'
  BY <1>1, <1>2 DEF IInv, Disjoint
<1>7. CollectionInv'
  <2>1. \A a \in uploading' \ torn' : \E g \in Handlers : a \in task'[g].todo
    BY <1>1, <1>2 DEF IInv, CollectionInv
  <2> QED BY <1>1, <1>3, <2>1 DEF IInv, CollectionInv, Ever
<1>8. Accounted'
  BY <1>1, <1>2 DEF IInv, Accounted, Pending
<1>9. ReferencedExist'
  BY <1>1 DEF IInv, ReferencedExist
<1>10. RemovedInv'
  BY <1>1, <1>2 DEF IInv, RemovedInv, Emptying
<1> QED BY <1>4, <1>5, <1>6, <1>7, <1>8, <1>9, <1>10 DEF IInv

(* An insert, with the answer or without.                                  *)
LEMMA Inserted ==
  ASSUME IInv, NEW h \in Handlers, task[h].pc = "insert", Insert(task[h])
  PROVE  /\ task[h].msg \in Ids \ Ever /\ task[h].msg \in 1..posts
         /\ message' \in [Ids -> Stored]
         /\ message'[task[h].msg] = [action |-> "New", attachments |-> task[h].files]
         /\ message'[task[h].msg] # Absent
         /\ message[task[h].msg] = Absent
         /\ \A n \in Ids \ {task[h].msg} : message'[n] = message[n]
         /\ Ever' = Ever \union {task[h].msg}
         /\ task[h].files \subseteq images \ (uploading \union erasing)
         /\ \A n \in Ids : task[h].files \intersect message[n].attachments = {}
<1>1. task[h].msg \in Ids /\ task[h].msg \in 1..posts
  BY Numbers DEF IInv, TasksInv, Shape
<1>2. message[task[h].msg] = Absent /\ task[h].msg \notin Ever
  BY <1>1 DEF IInv, TasksInv, PlaceInv, Ever, Absent
<1>3. task[h].files \subseteq Assets
  BY DEF IInv, TypeOK, Task
<1>4. /\ message' \in [Ids -> Stored]
      /\ message'[task[h].msg] = [action |-> "New", attachments |-> task[h].files]
      /\ \A n \in Ids \ {task[h].msg} : message'[n] = message[n]
  BY <1>1, <1>3 DEF Insert, IInv, TypeOK, Stored, Actions
<1>5. message'[task[h].msg] # Absent
  BY <1>4 DEF Absent
<1>6. Ever' = Ever \union {task[h].msg}
  BY <1>1, <1>4 DEF Ever
<1>7. task[h].files \subseteq images \ (uploading \union erasing)
  BY DEF IInv, TasksInv, Shape, FilesInv, Pending
<1>8. \A n \in Ids : task[h].files \intersect message[n].attachments = {}
  BY DEF IInv, Disjoint
<1> QED BY <1>1, <1>2, <1>4, <1>5, <1>6, <1>7, <1>8

LEMMA InsertStep ==
  ASSUME IInv, NEW h \in Handlers, InsertMessage(h)
  PROVE  IInv'
<1> DEFINE m == task[h].msg
<1>0. task[h].pc = "insert" /\ Insert(task[h])
  BY DEF InsertMessage
<1>1. /\ task[h].pc = "insert"
      /\ UNCHANGED <<last, images, uploading, erasing, heard, preview, posts,
                     calls, faults, removed, torn, blurred>>
  BY DEF InsertMessage, told, history
<1>2. /\ task' \in [Handlers -> Task] /\ task'[h].pc = "announce"
      /\ task'[h].files = task[h].files /\ task'[h].todo = task[h].todo
      /\ task'[h].msg = task[h].msg /\ task'[h].action = task[h].action
      /\ \A g \in Handlers \ {h} : task'[g] = task[g]
  BY Goes DEF IInv, InsertMessage
<1>3. /\ m \in Ids \ Ever /\ m \in 1..posts
      /\ message' \in [Ids -> Stored]
      /\ message'[m] = [action |-> "New", attachments |-> task[h].files]
      /\ message'[m] # Absent /\ message[m] = Absent
      /\ \A n \in Ids \ {m} : message'[n] = message[n]
      /\ Ever' = Ever \union {m}
      /\ task[h].files \subseteq images \ (uploading \union erasing)
      /\ \A n \in Ids : task[h].files \intersect message[n].attachments = {}
  BY <1>0, Inserted
<1>4. \A g \in Handlers \ {h} : /\ task[g].pc \in {"hook", "insert"} => task[g].msg # m
                                /\ task[g].pc \notin {"idle", "upload"} => task[g].msg \in Ids
  BY <1>1, Numbers DEF IInv, Disjoint, TasksInv, Shape
<1> HIDE DEF m
<1>5. TypeOK'
  <2>1. \A g \in Handlers :
          /\ task'[g].pc \in {"hook", "insert"} => message'[task'[g].msg] = Absent
          /\ task'[g].pc \in {"empty", "announce"} => message'[task'[g].msg] # Absent
    BY <1>2, <1>3, <1>4 DEF IInv, TypeOK, m
  <2> QED BY <1>1, <1>2, <1>3, <2>1 DEF IInv, TypeOK
<1>6. TasksInv'
  <2> SUFFICES ASSUME NEW g \in Handlers
               PROVE  (Shape(task[g]) /\ FilesInv(task[g]) /\ PlaceInv(task[g]))'
    BY DEF TasksInv
  <2>1. CASE g = h
    BY <1>1, <1>2, <1>3, <2>1 DEF IInv, TasksInv, Shape, FilesInv, PlaceInv, Pending, m
  <2>2. CASE g # h
    BY <1>1, <1>2, <1>3, <1>4, <2>2 DEF IInv, TasksInv, Shape, FilesInv, PlaceInv
  <2> QED BY <2>1, <2>2
<1>7. Disjoint'
  <2>1. \A g, k \in Handlers :
          g # k => /\ task'[g].files \intersect task'[k].files = {}
                   /\ task'[g].pc \in {"hook", "insert"} /\ task'[k].pc \in {"hook", "insert"} =>
                         task'[g].msg # task'[k].msg
    BY <1>2 DEF IInv, Disjoint
  <2>2. \A g \in Handlers, n \in Ids :
          task'[g].files \intersect message'[n].attachments # {} =>
              task'[g].pc = "announce" /\ task'[g].msg = n
    BY <1>2, <1>3 DEF IInv, Disjoint, m
  <2>3. \A n, k \in Ids :
          n # k => message'[n].attachments \intersect message'[k].attachments = {}
    BY <1>3 DEF IInv, Disjoint
  <2> QED BY <2>1, <2>2, <2>3 DEF Disjoint
<1>8. CollectionInv'
  <2>1. \A a \in uploading' \ torn' : \E g \in Handlers : a \in task'[g].todo
    BY <1>1, <1>2 DEF IInv, CollectionInv
  <2>2. m \notin removed /\ removed \subseteq Ever
    BY <1>3 DEF IInv, CollectionInv
  <2>3. \A n \in Ids : message'[n].action = "none" => message'[n] = Absent
    BY <1>3 DEF IInv, CollectionInv
  <2>4. \A n \in Ids : /\ message'[n].attachments \intersect uploading = {}
                       /\ n \notin removed => message'[n].attachments \intersect erasing = {}
    BY <1>3 DEF IInv, CollectionInv
  <2>5. Ever' \subseteq 1..posts /\ removed \subseteq Ever'
    BY <1>3, <2>2 DEF IInv, CollectionInv
  <2>6. last # None => last \in 1..posts
    BY DEF IInv, CollectionInv
  <2> QED BY <1>1, <2>1, <2>3, <2>4, <2>5, <2>6 DEF CollectionInv
<1>9. Accounted'
  <2>1. \A a \in task[h].files : a \in message'[m].attachments
    BY <1>3
  <2>2. \A n \in Ids : message[n].attachments \subseteq message'[n].attachments
    BY <1>3 DEF Absent
  <2> QED BY <1>1, <1>2, <1>3, <2>1, <2>2 DEF IInv, Accounted
<1>10. ReferencedExist'
  BY <1>1, <1>3 DEF IInv, ReferencedExist
<1>11. RemovedInv'
  <2>1. m \notin removed
    BY <1>3 DEF IInv, CollectionInv
  <2>2. \A n \in Ids : Emptying(n) => Emptying(n)'
    BY <1>1, <1>2 DEF Emptying
  <2>3. removed \subseteq Ids
    BY DEF IInv, TypeOK
  <2> QED BY <1>1, <1>3, <2>1, <2>2, <2>3 DEF IInv, RemovedInv
<1> QED BY <1>5, <1>6, <1>7, <1>8, <1>9, <1>10, <1>11 DEF IInv

LEMMA BeginModifyStep ==
  ASSUME IInv, NEW h \in Handlers, BeginModify(h)
  PROVE  IInv'
<1>1. PICK action \in {"Edited", "Removed"}, m \in 1..posts, snap \in Snapshots :
        Become(h, [[Idle EXCEPT !.action = action, !.pc = "update", !.msg = m]
                      EXCEPT !.snap = snap])
  BY DEF BeginModify, Begin
<1> DEFINE T == [[Idle EXCEPT !.action = action, !.pc = "update", !.msg = m]
                    EXCEPT !.snap = snap]
<1>2. /\ T \in Task /\ T.pc = "update" /\ T.files = {} /\ T.todo = {} /\ T.msg = m
      /\ T.action = action
  <2>1. snap \in Ids \union {None} /\ m \in Ids
    BY SnapshotsOK, Numbers DEF IInv
  <2> QED BY <2>1, IdleTask DEF Idle, Task, Actions
<1>3. /\ task' \in [Handlers -> Task] /\ task'[h] = T
      /\ \A g \in Handlers \ {h} : task'[g] = task[g]
  BY <1>1, <1>2, Becomes DEF IInv
<1> HIDE DEF T
<1>4. /\ UNCHANGED <<message, last, images, uploading, erasing, heard, preview,
                     posts, faults, removed, torn>>
      /\ calls' \in 0..MaxCalls /\ blurred' \in BOOLEAN /\ task[h].pc = "idle"
  BY BoundsAssumption DEF BeginModify, Begin, data, told, IInv, TypeOK, Quiet
<1>5. task[h].todo = {}
  BY <1>4 DEF IInv, TasksInv, Shape
<1>6. TypeOK'
  BY <1>2, <1>3, <1>4 DEF IInv, TypeOK
<1>7. TasksInv'
  BY <1>2, <1>3, <1>4 DEF IInv, TasksInv, Shape, FilesInv, PlaceInv, Pending
<1>8. Disjoint'
  BY <1>2, <1>3, <1>4 DEF IInv, Disjoint
<1>9. CollectionInv'
  <2>1. \A a \in uploading' \ torn' : \E g \in Handlers : a \in task'[g].todo
    BY <1>3, <1>4, <1>5 DEF IInv, CollectionInv
  <2> QED BY <1>4, <2>1 DEF IInv, CollectionInv, Ever
<1>10. Accounted'
  BY <1>3, <1>4 DEF IInv, Accounted, Pending
<1>11. ReferencedExist'
  BY <1>4 DEF IInv, ReferencedExist
<1>12. RemovedInv'
  BY <1>3, <1>4 DEF IInv, RemovedInv, Emptying
<1> QED BY <1>6, <1>7, <1>8, <1>9, <1>10, <1>11, <1>12 DEF IInv

(* A call ends that holds no file of its own and owes no update.           *)
LEMMA LeavesStep ==
  ASSUME IInv, NEW h \in Handlers, Leave(h), task[h].pc \in {"update", "announce"},
         UNCHANGED <<data, posts, calls, faults, history>>,
         heard' \in [Ids -> Actions \union {"none"}], preview' \in Preview
  PROVE  IInv'
<1>1. /\ task' \in [Handlers -> Task] /\ task'[h] = Idle
      /\ \A g \in Handlers \ {h} : task'[g] = task[g]
  BY IdleTask, Becomes DEF IInv, Leave
<1>2. UNCHANGED <<message, last, images, uploading, erasing, posts, calls, faults,
                  removed, torn, blurred>>
  BY DEF data, history
<1>3. task[h].todo = {}
  BY DEF IInv, TasksInv, Shape
<1>4. TypeOK'
  BY <1>1, <1>2, IdleTask DEF IInv, TypeOK
<1>5. TasksInv'
  BY <1>1, <1>2, IdleTask DEF IInv, TasksInv, Shape, FilesInv, PlaceInv, Pending
<1>6. Disjoint'
  BY <1>1, <1>2, IdleTask DEF IInv, Disjoint
<1>7. CollectionInv'
  <2>1. \A a \in uploading' \ torn' : \E g \in Handlers : a \in task'[g].todo
    BY <1>1, <1>2, <1>3 DEF IInv, CollectionInv
  <2> QED BY <1>2, <2>1 DEF IInv, CollectionInv, Ever
<1>8. Accounted'
  BY <1>1, <1>2 DEF IInv, Accounted, Pending
<1>9. ReferencedExist'
  BY <1>2 DEF IInv, ReferencedExist
<1>10. RemovedInv'
  BY <1>1, <1>2 DEF IInv, RemovedInv, Emptying
<1> QED BY <1>4, <1>5, <1>6, <1>7, <1>8, <1>9, <1>10 DEF IInv

LEMMA UpdateRefusedStep ==
  ASSUME IInv, NEW h \in Handlers, UpdateRefused(h)
  PROVE  IInv'
<1>1. /\ task[h].pc = "update" /\ Leave(h) /\ UNCHANGED told
      /\ UNCHANGED <<data, posts, calls, faults, history>>
  BY DEF UpdateRefused, history
<1>2. heard' \in [Ids -> Actions \union {"none"}] /\ preview' \in Preview
  BY <1>1 DEF told, IInv, TypeOK
<1> QED BY <1>1, <1>2, LeavesStep

LEMMA AnnounceStep ==
  ASSUME IInv, NEW h \in Handlers, Announce(h)
  PROVE  IInv'
<1>1. /\ task[h].pc = "announce" /\ Leave(h)
      /\ UNCHANGED <<data, posts, calls, faults, history>>
      /\ heard' = [heard EXCEPT ![task[h].msg] = task[h].action]
      /\ \/ preview' = [msg |-> task[h].msg, action |-> task[h].action]
         \/ preview' = preview
  BY DEF Announce, Tells, history
<1>2. task[h].action \in Actions /\ task[h].msg \in Ids
  BY <1>1, Numbers DEF IInv, TypeOK, Task, TasksInv, Shape
<1>3. heard' \in [Ids -> Actions \union {"none"}] /\ preview' \in Preview
  BY <1>1, <1>2 DEF IInv, TypeOK, Preview
<1> QED BY <1>1, <1>3, LeavesStep

(* An update of a message that is found, with the answer or without.       *)
LEMMA Updated ==
  ASSUME IInv, NEW h \in Handlers, task[h].pc = "update", Found(task[h]), Update(task[h])
  PROVE  /\ task[h].msg \in Ever /\ task[h].msg \in Ids
         /\ task[h].action \in {"Edited", "Removed"}
         /\ message' \in [Ids -> Stored]
         /\ message'[task[h].msg].action = task[h].action
         /\ \A n \in Ids : /\ message'[n].attachments = message[n].attachments
                           /\ n # task[h].msg => message'[n] = message[n]
                           /\ message'[n] = Absent <=> message[n] = Absent
         /\ Ever' = Ever
         /\ removed' = removed \union
                          (IF task[h].action = "Removed" THEN {task[h].msg} ELSE {})
<1>1. /\ task[h].msg \in Ids /\ task[h].msg \in Ever
      /\ task[h].action \in {"Edited", "Removed"}
  BY Numbers DEF IInv, TasksInv, Shape, Found, InCollection, Ever
<1>2. /\ message' = [message EXCEPT ![task[h].msg].action = task[h].action]
      /\ removed' = removed \union (IF task[h].action = "Removed" THEN {task[h].msg} ELSE {})
  BY DEF Update
<1>3. message \in [Ids -> Stored]
  BY DEF IInv, TypeOK
<1>4. /\ message' \in [Ids -> Stored]
      /\ message'[task[h].msg].action = task[h].action
      /\ \A n \in Ids : /\ message'[n].attachments = message[n].attachments
                        /\ n # task[h].msg => message'[n] = message[n]
  BY <1>1, <1>2, <1>3 DEF Stored, Actions
<1>5. message[task[h].msg] # Absent /\ message'[task[h].msg] # Absent
  BY <1>1, <1>4 DEF Ever, Absent
<1>6. Ever' = Ever
  BY <1>1, <1>4 DEF Ever
<1> QED BY <1>1, <1>2, <1>4, <1>5, <1>6

LEMMA UpdateStep ==
  ASSUME IInv, NEW h \in Handlers, UpdateMessage(h)
  PROVE  IInv'
<1> DEFINE m == task[h].msg
           E == ToErase(task[h])
<1>0. task[h].pc = "update" /\ Found(task[h]) /\ Update(task[h])
  BY DEF UpdateMessage
<1>1. /\ task[h].pc = "update" /\ task[h].files = {} /\ task[h].todo = {}
      /\ UNCHANGED <<last, images, uploading, heard, preview, posts, calls, faults,
                     torn, blurred>>
  BY DEF UpdateMessage, told, IInv, TasksInv, Shape
<1>2. /\ m \in Ever /\ m \in Ids
      /\ task[h].action \in {"Edited", "Removed"}
      /\ message' \in [Ids -> Stored]
      /\ message'[m].action = task[h].action
      /\ \A n \in Ids : /\ message'[n].attachments = message[n].attachments
                        /\ n # m => message'[n] = message[n]
                        /\ message'[n] = Absent <=> message[n] = Absent
      /\ Ever' = Ever
      /\ removed' = removed \union (IF task[h].action = "Removed" THEN {m} ELSE {})
  BY <1>0, Updated
<1>3. /\ erasing' = erasing \union E
      /\ E = IF task[h].action = "Removed" THEN message[m].attachments ELSE {}
      /\ E \subseteq message[m].attachments
  BY <1>2 DEF UpdateMessage, ToErase
<1> HIDE DEF E
<1> DEFINE pc == IF E = {} THEN "announce" ELSE "empty"
<1>4. Goto(h, pc)
  BY DEF UpdateMessage, AfterUpdate, E
<1>5. /\ task' \in [Handlers -> Task] /\ task'[h].pc = pc
      /\ task'[h].files = task[h].files /\ task'[h].todo = task[h].todo
      /\ task'[h].msg = task[h].msg /\ task'[h].action = task[h].action
      /\ \A g \in Handlers \ {h} : task'[g] = task[g]
  BY <1>4, Goes DEF IInv
<1>6. \A g \in Handlers : task[g].pc \notin {"idle", "upload"} => task[g].msg \in Ids
  BY Numbers DEF IInv, TasksInv, Shape
<1> HIDE DEF m
<1>7. message[m].attachments \subseteq Assets /\ m \in 1..posts /\ message[m] # Absent
  BY <1>2 DEF IInv, TypeOK, Stored, CollectionInv, Ever, Absent
<1>8. TypeOK'
  <2>1. \A g \in Handlers :
          /\ task'[g].pc \in {"hook", "insert"} => message'[task'[g].msg] = Absent
          /\ task'[g].pc \in {"empty", "announce"} => message'[task'[g].msg] # Absent
    BY <1>2, <1>5, <1>6, <1>7 DEF IInv, TypeOK, m
  <2>2. removed' \subseteq Ids /\ erasing' \subseteq Assets
    BY <1>2, <1>3, <1>7 DEF IInv, TypeOK
  <2> QED BY <1>1, <1>2, <1>5, <2>1, <2>2 DEF IInv, TypeOK
<1>9. TasksInv'
  <2> SUFFICES ASSUME NEW g \in Handlers
               PROVE  (Shape(task[g]) /\ FilesInv(task[g]) /\ PlaceInv(task[g]))'
    BY DEF TasksInv
  <2>1. CASE g = h
    <3>1. Shape(task[g])'
      <4>1. pc = "empty" => task[h].action = "Removed"
        BY <1>3
      <4> QED BY <1>1, <1>2, <1>5, <1>7, <2>1, <4>1 DEF IInv, TasksInv, Shape, Pending, m
    <3>2. FilesInv(task[g])'
      BY <1>5, <2>1 DEF FilesInv, Pending
    <3>3. pc = "empty" => message'[m].attachments \subseteq erasing'
      BY <1>2, <1>3
    <3>4. PlaceInv(task[g])'
      BY <1>2, <1>5, <1>7, <2>1, <3>3 DEF PlaceInv, m
    <3> QED BY <3>1, <3>2, <3>4
  <2>2. CASE g # h
    <3>1. Shape(task[g])'
      BY <1>1, <1>5, <2>2 DEF IInv, TasksInv, Shape
    <3>2. FilesInv(task[g])'
      <4>1. task[g].pc \in Pending => task[g].files \intersect message[m].attachments = {}
        BY <1>2 DEF IInv, Disjoint, Pending
      <4> QED BY <1>1, <1>3, <1>5, <2>2, <4>1 DEF IInv, TasksInv, FilesInv
    <3>3. PlaceInv(task[g])'
      BY <1>1, <1>2, <1>3, <1>5, <1>6, <2>2 DEF IInv, TasksInv, PlaceInv
    <3> QED BY <3>1, <3>2, <3>3
  <2> QED BY <2>1, <2>2
<1>10. Disjoint'
  BY <1>1, <1>2, <1>5 DEF IInv, Disjoint
<1>11. CollectionInv'
  <2>1. \A a \in uploading' \ torn' : \E g \in Handlers : a \in task'[g].todo
    BY <1>1, <1>5 DEF IInv, CollectionInv
  <2>2. \A n \in Ids \ removed' : message'[n].attachments \intersect erasing' = {}
    BY <1>2, <1>3 DEF IInv, CollectionInv, Disjoint
  <2>3. \A n \in Ids : message'[n].action = "none" => message'[n] = Absent
    BY <1>2 DEF IInv, CollectionInv
  <2>4. removed' \subseteq Ever'
    BY <1>2 DEF IInv, CollectionInv
  <2> QED BY <1>1, <1>2, <2>1, <2>2, <2>3, <2>4 DEF IInv, CollectionInv
<1>12. Accounted'
  BY <1>1, <1>2, <1>3, <1>5 DEF IInv, Accounted, Pending
<1>13. ReferencedExist'
  BY <1>1, <1>2 DEF IInv, ReferencedExist
<1>14. RemovedInv'
  <2> SUFFICES ASSUME NEW n \in removed' \ torn'
               PROVE  \/ message'[n].action = "gone" \/ message'[n].attachments = {}
                       \/ Emptying(n)'
    BY DEF RemovedInv
  <2>0. message[m].action # "gone"
    BY <1>0 DEF Found, InCollection, m
  <2>1. CASE n \in removed
    <3>1. Emptying(n) => Emptying(n)'
      BY <1>1, <1>5 DEF Emptying
    <3>2. n \in Ids /\ n \notin torn
      BY <1>1, <2>1 DEF IInv, TypeOK
    <3>3. message[n].action = "gone" \/ message[n].attachments = {} \/ Emptying(n)
      BY <2>1, <3>2 DEF IInv, RemovedInv
    <3>4. /\ message'[n].attachments = message[n].attachments
          /\ message[n].action = "gone" => message'[n].action = "gone"
      BY <1>2, <2>0, <3>2
    <3> QED BY <3>1, <3>3, <3>4
  <2>2. CASE n = m /\ task[h].action = "Removed"
    BY <1>2, <1>3, <1>5, <2>2 DEF Emptying, m
  <2> QED BY <1>2, <2>1, <2>2
<1> QED BY <1>8, <1>9, <1>10, <1>11, <1>12, <1>13, <1>14 DEF IInv

(* The second update of a removal, with the answer or without.             *)
LEMMA Emptied ==
  ASSUME IInv, NEW h \in Handlers, task[h].pc = "empty", Empty(task[h])
  PROVE  /\ task[h].msg \in Ever /\ task[h].msg \in Ids
         /\ message' \in [Ids -> Stored]
         /\ \/ message'[task[h].msg].attachments = {}
            \/ message'[task[h].msg].action = "gone"
         /\ \A n \in Ids : /\ message'[n].action = message[n].action
                           /\ message'[n].attachments \subseteq message[n].attachments
                           /\ n # task[h].msg => message'[n] = message[n]
                           /\ message'[n] = Absent <=> message[n] = Absent
         /\ Ever' = Ever
<1>1. task[h].msg \in Ids /\ message[task[h].msg] # Absent
  BY Numbers DEF IInv, TasksInv, Shape, PlaceInv
<1>2. task[h].msg \in Ever
  BY <1>1 DEF IInv, CollectionInv, Ever
<1>3. message \in [Ids -> Stored]
  BY DEF IInv, TypeOK
<1>4. /\ message' \in [Ids -> Stored]
      /\ \/ message'[task[h].msg].attachments = {}
         \/ message'[task[h].msg].action = "gone"
      /\ \A n \in Ids : /\ message'[n].action = message[n].action
                        /\ message'[n].attachments \subseteq message[n].attachments
                        /\ n # task[h].msg => message'[n] = message[n]
  <2>1. CASE task[h].msg \in InCollection
    BY <1>1, <1>3, <2>1 DEF Empty, Stored
  <2>2. CASE task[h].msg \notin InCollection
    BY <1>1, <1>2, <1>3, <2>2 DEF Empty, InCollection, Ever
  <2> QED BY <2>1, <2>2
<1>5. message'[task[h].msg] # Absent
  BY <1>1, <1>2, <1>4 DEF Ever, Absent
<1>6. Ever' = Ever
  BY <1>4 DEF Ever
<1> QED BY <1>1, <1>2, <1>4, <1>5, <1>6

LEMMA EmptyStep ==
  ASSUME IInv, NEW h \in Handlers, EmptyAttachments(h)
  PROVE  IInv'
<1>1. /\ task[h].pc = "empty" /\ task[h].files = {} /\ task[h].todo = {}
      /\ UNCHANGED <<last, images, uploading, erasing, heard, preview, posts, calls,
                     faults, removed, torn, blurred>>
  BY DEF EmptyAttachments, told, history, IInv, TasksInv, Shape
<1>2. PICK m \in Ever :
        /\ m = task[h].msg /\ m \in Ids
        /\ message' \in [Ids -> Stored]
        /\ message'[m].attachments = {} \/ message'[m].action = "gone"
        /\ \A n \in Ids : /\ message'[n].action = message[n].action
                          /\ message'[n].attachments \subseteq message[n].attachments
                          /\ n # m => message'[n] = message[n]
                          /\ message'[n] = Absent <=> message[n] = Absent
        /\ Ever' = Ever
  BY Emptied DEF EmptyAttachments
<1>3. /\ task' \in [Handlers -> Task] /\ task'[h].pc = "announce"
      /\ task'[h].files = task[h].files /\ task'[h].todo = task[h].todo
      /\ task'[h].msg = task[h].msg /\ task'[h].action = task[h].action
      /\ \A g \in Handlers \ {h} : task'[g] = task[g]
  BY Goes DEF IInv, EmptyAttachments
<1>4. \A g \in Handlers : task[g].pc \notin {"idle", "upload"} => task[g].msg \in Ids
  BY Numbers DEF IInv, TasksInv, Shape
<1>5. message[m] # Absent
  BY <1>2 DEF Ever, Absent
<1>6. TypeOK'
  <2>1. \A g \in Handlers :
          /\ task'[g].pc \in {"hook", "insert"} => message'[task'[g].msg] = Absent
          /\ task'[g].pc \in {"empty", "announce"} => message'[task'[g].msg] # Absent
    BY <1>2, <1>3, <1>4, <1>5 DEF IInv, TypeOK
  <2> QED BY <1>1, <1>2, <1>3, <2>1 DEF IInv, TypeOK
<1>7. TasksInv'
  <2> SUFFICES ASSUME NEW g \in Handlers
               PROVE  (Shape(task[g]) /\ FilesInv(task[g]) /\ PlaceInv(task[g]))'
    BY DEF TasksInv
  <2>1. Shape(task[g])'
    BY <1>1, <1>3 DEF IInv, TasksInv, Shape, Pending
  <2>2. FilesInv(task[g])'
    BY <1>1, <1>3 DEF IInv, TasksInv, FilesInv, Pending
  <2>3. PlaceInv(task[g])'
    BY <1>1, <1>2, <1>3, <1>4, <1>5 DEF IInv, TasksInv, PlaceInv
  <2> QED BY <2>1, <2>2, <2>3
<1>8. Disjoint'
  BY <1>1, <1>2, <1>3 DEF IInv, Disjoint
<1>9. CollectionInv'
  <2>1. \A a \in uploading' \ torn' : \E g \in Handlers : a \in task'[g].todo
    BY <1>1, <1>3 DEF IInv, CollectionInv
  <2>2. \A n \in Ids : message'[n].action = "none" => message'[n] = Absent
    BY <1>2 DEF IInv, CollectionInv
  <2> QED BY <1>1, <1>2, <2>1, <2>2 DEF IInv, CollectionInv
<1>10. Accounted'
  <2>1. message[m].attachments \intersect images \subseteq erasing \union torn
    BY <1>1, <1>2 DEF IInv, TasksInv, PlaceInv
  <2> QED BY <1>1, <1>2, <1>3, <2>1 DEF IInv, Accounted, Pending
<1>11. ReferencedExist'
  BY <1>1, <1>2 DEF IInv, ReferencedExist
<1>12. RemovedInv'
  <2> SUFFICES ASSUME NEW n \in removed \ torn
               PROVE  \/ message'[n].action = "gone" \/ message'[n].attachments = {}
                       \/ Emptying(n)'
    BY <1>1 DEF RemovedInv
  <2> QED BY <1>1, <1>2, <1>3 DEF IInv, RemovedInv, Emptying, TypeOK
<1> QED BY <1>6, <1>7, <1>8, <1>9, <1>10, <1>11, <1>12 DEF IInv

LEMMA EraseDoneStep ==
  ASSUME IInv, NEW a \in Assets, EraseDone(a)
  PROVE  IInv'
<1>1. /\ a \in erasing /\ erasing' = erasing \ {a} /\ images' = images \ {a}
      /\ UNCHANGED <<message, last, uploading, task, heard, preview, posts, calls,
                     faults, removed, torn, blurred>>
  BY DEF EraseDone, told, history
<1>2. TypeOK'
  BY <1>1 DEF IInv, TypeOK
<1>3. TasksInv'
  BY <1>1 DEF IInv, TasksInv, Shape, FilesInv, PlaceInv
<1>4. Disjoint'
  BY <1>1 DEF IInv, Disjoint
<1>5. CollectionInv'
  BY <1>1 DEF IInv, CollectionInv, Ever
<1>6. Accounted'
  BY <1>1 DEF IInv, Accounted
<1>7. ReferencedExist'
  BY <1>1 DEF IInv, ReferencedExist, CollectionInv
<1>8. RemovedInv'
  BY <1>1 DEF IInv, RemovedInv, Emptying
<1> QED BY <1>2, <1>3, <1>4, <1>5, <1>6, <1>7, <1>8 DEF IInv

LEMMA EraseErrsStep ==
  ASSUME IInv, NEW a \in Assets, EraseErrs(a)
  PROVE  IInv'
<1>1. /\ a \in erasing /\ erasing' = erasing \ {a} /\ torn' = torn \union {a}
      /\ faults' \in 0..MaxFaults /\ blurred' = TRUE
      /\ UNCHANGED <<message, last, images, uploading, task, heard, preview, posts,
                     calls, removed>>
  BY BoundsAssumption DEF EraseErrs, Fault, told, IInv, TypeOK
<1>2. TypeOK'
  BY <1>1 DEF IInv, TypeOK
<1>3. TasksInv'
  BY <1>1 DEF IInv, TasksInv, Shape, FilesInv, PlaceInv
<1>4. Disjoint'
  BY <1>1 DEF IInv, Disjoint
<1>5. CollectionInv'
  BY <1>1 DEF IInv, CollectionInv, Ever
<1>6. Accounted'
  BY <1>1 DEF IInv, Accounted
<1>7. ReferencedExist'
  BY <1>1 DEF IInv, ReferencedExist
<1>8. RemovedInv'
  BY <1>1 DEF IInv, RemovedInv, Emptying
<1> QED BY <1>2, <1>3, <1>4, <1>5, <1>6, <1>7, <1>8 DEF IInv

LEMMA CrashStep ==
  ASSUME IInv, Crash
  PROVE  IInv'
<1>1. PICK sent \in SUBSET uploading, gone \in SUBSET erasing :
        images' = (images \union sent) \ gone
  BY DEF Crash
<1>2. /\ uploading' = {} /\ erasing' = {}
      /\ UNCHANGED <<message, last, heard, preview, posts, calls, removed>>
      /\ faults' \in 0..MaxFaults /\ blurred' = TRUE
      /\ task' = [g \in Handlers |-> Idle]
  BY BoundsAssumption DEF Crash, Fault, told, IInv, TypeOK
<1> DEFINE lost == UNION {task[g].files \union ({task[g].msg} \ {None}) : g \in Handlers}
<1>3. torn' = torn \union (uploading \union erasing \union lost)
  BY DEF Crash, Fault
<1>4. /\ \A g \in Handlers : task[g].files \subseteq lost
      /\ \A g \in Handlers : task[g].msg # None => task[g].msg \in lost
  OBVIOUS
<1>5. lost \subseteq Assets \union Ids
  BY DEF IInv, TypeOK, Task
<1> HIDE DEF lost
<1>6. \A g \in Handlers : task'[g] = Idle
  BY <1>2
<1>7. TypeOK'
  BY <1>1, <1>2, <1>3, <1>5, <1>6, IdleTask DEF IInv, TypeOK
<1>8. TasksInv'
  BY <1>6, IdleTask DEF TasksInv, Shape, FilesInv, PlaceInv, Pending
<1>9. Disjoint'
  BY <1>2, <1>6, IdleTask DEF IInv, Disjoint
<1>10. CollectionInv'
  BY <1>2 DEF IInv, CollectionInv, Ever
<1>11. Accounted'
  BY <1>1, <1>2, <1>3, <1>4 DEF IInv, Accounted
<1>12. ReferencedExist'
  BY <1>1, <1>2 DEF IInv, ReferencedExist, CollectionInv
<1>13. RemovedInv'
  <2> SUFFICES ASSUME NEW n \in removed \ torn'
               PROVE  message[n].action = "gone" \/ message[n].attachments = {}
    BY <1>2 DEF RemovedInv
  <2>1. ~Emptying(n)
    <3>1. n \in Ids /\ n \notin lost
      BY <1>3 DEF IInv, TypeOK
    <3> QED BY <1>4, <3>1, Numbers DEF IInv, Emptying
  <2> QED BY <1>3, <2>1 DEF IInv, RemovedInv
<1> QED BY <1>7, <1>8, <1>9, <1>10, <1>11, <1>12, <1>13 DEF IInv

(* What a write that is reported as failed may have changed.               *)
LEMMA Applied ==
  ASSUME IInv, NEW h \in Handlers, WriteErrs(h)
  PROVE  LET m == task[h].msg IN
         /\ m \in Ids /\ m \in 1..posts
         /\ message' \in [Ids -> Stored]
         /\ message'[m].attachments \subseteq message[m].attachments \union task[h].files
         /\ message'[m].action = "none" => message'[m] = Absent
         /\ message'[m] = Absent => message[m] = Absent
         /\ \A n \in Ids \ {m} : message'[n] = message[n]
         /\ message' = message \/
               \A g \in Handlers \ {h} : task[g].pc \in {"hook", "insert"} => task[g].msg # m
         /\ Ever \subseteq Ever' /\ Ever' \subseteq Ever \union {m}
         /\ removed \subseteq removed' /\ removed' \subseteq Ever'
         /\ removed' \subseteq removed \union {m}
         /\ last' = last \/ last' = m
<1> DEFINE m == task[h].msg
<1>1. /\ m \in Ids /\ m \in 1..posts
      /\ message \in [Ids -> Stored] /\ removed \subseteq Ever
      /\ \A n \in Ids : message[n].action = "none" => message[n] = Absent
      /\ \A g \in Handlers : task[g].pc \in {"hook", "insert"} => message[task[g].msg] = Absent
  BY Numbers DEF WriteErrs, IInv, TypeOK, TasksInv, Shape, PlaceInv, CollectionInv
<1>2. CASE message' = message /\ removed' = removed /\ (last' = last \/ last' = m)
  BY <1>1, <1>2 DEF Ever
<1>3. CASE task[h].pc = "insert" /\ Insert(task[h]) /\ UNCHANGED <<last, removed>>
  <2>1. /\ message' \in [Ids -> Stored] /\ message'[m].attachments = task[h].files
        /\ message'[m].action = "New" /\ message'[m] # Absent
        /\ \A n \in Ids \ {m} : message'[n] = message[n]
        /\ Ever' = Ever \union {m}
    <3>1. /\ message' \in [Ids -> Stored] /\ message'[m] # Absent
          /\ message'[m] = [action |-> "New", attachments |-> task[h].files]
          /\ \A n \in Ids \ {m} : message'[n] = message[n]
          /\ Ever' = Ever \union {m}
      BY <1>3, Inserted
    <3> HIDE <1>3
    <3> QED BY <3>1
  <2>2. \A g \in Handlers \ {h} : task[g].pc \in {"hook", "insert"} => task[g].msg # m
    BY <1>3 DEF IInv, Disjoint
  <2> QED BY <1>1, <1>3, <2>1, <2>2
<1>4. CASE task[h].pc = "update" /\ Update(task[h]) /\ UNCHANGED last
  <2>0. Found(task[h])
    BY <1>4 DEF WriteErrs
  <2>1. /\ m \in Ever /\ message' \in [Ids -> Stored]
        /\ task[h].action \in {"Edited", "Removed"}
        /\ message'[m].action = task[h].action
        /\ \A n \in Ids : /\ message'[n].attachments = message[n].attachments
                          /\ n # m => message'[n] = message[n]
                          /\ message'[n] = Absent <=> message[n] = Absent
        /\ Ever' = Ever
        /\ removed' = removed \union (IF task[h].action = "Removed" THEN {m} ELSE {})
    BY <1>4, <2>0, Updated
  <2>2. message[m] # Absent
    BY <2>1 DEF Ever, Absent
  <2>3. \A g \in Handlers \ {h} : task[g].pc \in {"hook", "insert"} => task[g].msg # m
    BY <1>1, <2>2
  <2> HIDE DEF m
  <2> QED BY <1>1, <1>4, <2>1, <2>3 DEF m
<1>5. CASE task[h].pc = "empty" /\ Empty(task[h]) /\ UNCHANGED <<last, removed>>
  <2>1. /\ m \in Ever /\ message' \in [Ids -> Stored]
        /\ \A n \in Ids : /\ message'[n].action = message[n].action
                          /\ message'[n].attachments \subseteq message[n].attachments
                          /\ n # m => message'[n] = message[n]
                          /\ message'[n] = Absent <=> message[n] = Absent
        /\ Ever' = Ever
    BY <1>5, Emptied
  <2>2. message[m] # Absent
    BY <2>1 DEF Ever, Absent
  <2>3. \A g \in Handlers \ {h} : task[g].pc \in {"hook", "insert"} => task[g].msg # m
    BY <1>1, <2>2
  <2> HIDE DEF m
  <2> QED BY <1>1, <1>5, <2>1, <2>3 DEF m
<1> QED BY <1>2, <1>3, <1>4, <1>5 DEF WriteErrs

LEMMA WriteErrsStep ==
  ASSUME IInv, NEW h \in Handlers, WriteErrs(h)
  PROVE  IInv'
<1>1. PICK m \in Ids :
         /\ m = task[h].msg /\ m \in 1..posts
         /\ message' \in [Ids -> Stored]
         /\ message'[m].attachments \subseteq message[m].attachments \union task[h].files
         /\ message'[m].action = "none" => message'[m] = Absent
         /\ message'[m] = Absent => message[m] = Absent
         /\ \A n \in Ids \ {m} : message'[n] = message[n]
         /\ message' = message \/
               \A g \in Handlers \ {h} : task[g].pc \in {"hook", "insert"} => task[g].msg # m
         /\ Ever \subseteq Ever' /\ Ever' \subseteq Ever \union {m}
         /\ removed \subseteq removed' /\ removed' \subseteq Ever'
         /\ removed' \subseteq removed \union {m}
         /\ last' = last \/ last' = m
  BY Applied
<1>2. /\ UNCHANGED <<images, uploading, erasing, heard, preview, posts, calls>>
      /\ faults' \in 0..MaxFaults /\ blurred' = TRUE
      /\ torn' = torn \union (task[h].files \union {m} \union message[m].attachments)
      /\ task[h].pc \in {"hook", "insert", "update", "empty"}
  BY <1>1, BoundsAssumption DEF WriteErrs, Fault, told, IInv, TypeOK
<1>3. /\ task' \in [Handlers -> Task] /\ task'[h] = Idle
      /\ \A g \in Handlers \ {h} : task'[g] = task[g]
  BY IdleTask, Becomes DEF IInv, WriteErrs, Leave
<1>4. /\ task[h].todo = {} /\ task[h].files \subseteq images \ (uploading \union erasing)
      /\ \A n \in Ids : task[h].files \intersect message[n].attachments = {}
      /\ task[h].files \subseteq Assets /\ message[m].attachments \subseteq Assets
  BY <1>2 DEF IInv, TypeOK, Task, Stored, TasksInv, Shape, FilesInv, Pending, Disjoint
<1>5. \A g \in Handlers : task[g].pc \notin {"idle", "upload"} => task[g].msg \in Ids
  BY Numbers DEF IInv, TasksInv, Shape
<1>6. TypeOK'
  <2>1. \A g \in Handlers :
          /\ task'[g].pc \in {"hook", "insert"} => message'[task'[g].msg] = Absent
          /\ task'[g].pc \in {"empty", "announce"} => message'[task'[g].msg] # Absent
    BY <1>1, <1>3, <1>5, IdleTask DEF IInv, TypeOK
  <2>2. removed' \subseteq Ids /\ torn' \subseteq Assets \union Ids /\ last' \in Ids \union {None}
    BY <1>1, <1>2, <1>4 DEF IInv, TypeOK
  <2> QED BY <1>1, <1>2, <1>3, <2>1, <2>2 DEF IInv, TypeOK
<1>7. TasksInv'
  <2> SUFFICES ASSUME NEW g \in Handlers
               PROVE  (Shape(task[g]) /\ FilesInv(task[g]) /\ PlaceInv(task[g]))'
    BY DEF TasksInv
  <2>1. CASE g = h
    BY <1>3, <2>1, IdleTask DEF Shape, FilesInv, PlaceInv, Pending
  <2>2. CASE g # h
    <3>1. Shape(task[g])'
      BY <1>2, <1>3, <2>2 DEF IInv, TasksInv, Shape
    <3>2. FilesInv(task[g])'
      BY <1>2, <1>3, <2>2 DEF IInv, TasksInv, FilesInv
    <3>3. PlaceInv(task[g])'
      <4>0. task'[g] = task[g] /\ PlaceInv(task[g])
        BY <1>3, <2>2 DEF IInv, TasksInv
      <4>1. task[g].pc \in {"hook", "insert"} => message'[task[g].msg] = Absent
        <5> SUFFICES ASSUME task[g].pc \in {"hook", "insert"}
                     PROVE  message'[task[g].msg] = Absent
          OBVIOUS
        <5>1. task[g].msg \in Ids /\ message[task[g].msg] = Absent
          BY <1>5, <4>0 DEF PlaceInv
        <5>2. CASE message' = message
          BY <5>1, <5>2
        <5>3. CASE task[g].msg # m
          BY <1>1, <5>1, <5>3
        <5> QED BY <1>1, <2>2, <5>2, <5>3
      <4>2. task[g].pc \in {"empty", "announce"} => message'[task[g].msg] # Absent
        BY <1>1, <1>5, <4>0 DEF PlaceInv
      <4>3. ASSUME task[g].pc = "empty"
            PROVE  message'[task[g].msg].attachments \intersect images \subseteq erasing \union torn'
        <5>1. CASE task[g].msg = m
          BY <1>1, <1>2, <4>0, <4>3, <5>1 DEF PlaceInv
        <5>2. CASE task[g].msg # m
          BY <1>1, <1>2, <1>5, <4>0, <4>3, <5>2 DEF PlaceInv
        <5> QED BY <5>1, <5>2
      <4> QED BY <1>2, <4>0, <4>1, <4>2, <4>3 DEF PlaceInv
    <3> QED BY <3>1, <3>2, <3>3
  <2> QED BY <2>1, <2>2
<1>8. Disjoint'
  <2>1. \A g, k \in Handlers :
          g # k => /\ task'[g].files \intersect task'[k].files = {}
                   /\ task'[g].pc \in {"hook", "insert"} /\ task'[k].pc \in {"hook", "insert"} =>
                         task'[g].msg # task'[k].msg
    BY <1>3, IdleTask DEF IInv, Disjoint
  <2>2. \A g \in Handlers \ {h} : task[g].files \intersect task[h].files = {}
    BY DEF IInv, Disjoint
  <2>3. \A g \in Handlers, n \in Ids :
          task'[g].files \intersect message'[n].attachments # {} =>
              task'[g].pc = "announce" /\ task'[g].msg = n
    <3> SUFFICES ASSUME NEW g \in Handlers \ {h}, NEW n \in Ids,
                        task[g].files \intersect message'[n].attachments # {}
                 PROVE  task[g].pc = "announce" /\ task[g].msg = n
      BY <1>3, IdleTask
    <3>1. task[g].files \intersect message[n].attachments # {}
      BY <1>1, <2>2
    <3> QED BY <3>1 DEF IInv, Disjoint
  <2>4. \A n, k \in Ids :
          n # k => message'[n].attachments \intersect message'[k].attachments = {}
    BY <1>1, <1>4 DEF IInv, Disjoint
  <2> QED BY <2>1, <2>3, <2>4 DEF Disjoint
<1>9. CollectionInv'
  <2>1. \A a \in uploading' \ torn' : \E g \in Handlers : a \in task'[g].todo
    BY <1>2, <1>3, <1>4 DEF IInv, CollectionInv
  <2>2. \A n \in Ids : message'[n].action = "none" => message'[n] = Absent
    BY <1>1 DEF IInv, CollectionInv
  <2>3. \A n \in Ids : message'[n].attachments \intersect uploading = {}
    BY <1>1, <1>4 DEF IInv, CollectionInv
  <2>4. \A n \in Ids \ removed' : message'[n].attachments \intersect erasing = {}
    BY <1>1, <1>4 DEF IInv, CollectionInv
  <2>5. Ever' \subseteq 1..posts /\ (last' # None => last' \in 1..posts)
    BY <1>1 DEF IInv, CollectionInv
  <2> QED BY <1>1, <1>2, <2>1, <2>2, <2>3, <2>4, <2>5 DEF CollectionInv
<1>10. Accounted'
  BY <1>1, <1>2, <1>3 DEF IInv, Accounted
<1>11. ReferencedExist'
  BY <1>1, <1>2, <1>4 DEF IInv, ReferencedExist
<1>12. RemovedInv'
  <2> SUFFICES ASSUME NEW n \in removed' \ torn'
               PROVE  \/ message'[n].action = "gone" \/ message'[n].attachments = {}
                       \/ Emptying(n)'
    BY DEF RemovedInv
  <2>1. n # m /\ n \in removed \ torn /\ n \in Ids
    BY <1>1, <1>2 DEF IInv, TypeOK
  <2> QED BY <1>1, <1>3, <2>1 DEF IInv, RemovedInv, Emptying
<1> QED BY <1>6, <1>7, <1>8, <1>9, <1>10, <1>11, <1>12 DEF IInv

(* The oldest message expires: nothing but its action changes.             *)
LEMMA Expired ==
  ASSUME IInv, NEW m \in Ids, Expire(m)
  PROVE  /\ message' \in [Ids -> Stored]
         /\ message'[m].action = "gone" /\ m \in InCollection
         /\ \A n \in Ids : /\ message'[n].attachments = message[n].attachments
                           /\ n # m => message'[n] = message[n]
                           /\ message'[n] = Absent <=> message[n] = Absent
         /\ Ever' = Ever
<1>1. /\ message[m].action \notin {"none", "gone"} /\ m \in InCollection
      /\ message' = [message EXCEPT ![m].action = "gone"] /\ message \in [Ids -> Stored]
  BY DEF Expire, InCollection, IInv, TypeOK
<1>2. /\ message' \in [Ids -> Stored] /\ message'[m].action = "gone"
      /\ \A n \in Ids : /\ message'[n].attachments = message[n].attachments
                        /\ n # m => message'[n] = message[n]
  BY <1>1 DEF Stored
<1>3. message[m] # Absent /\ message'[m] # Absent
  BY <1>1, <1>2 DEF Absent
<1>4. Ever' = Ever
  BY <1>1, <1>2 DEF Ever
<1> QED BY <1>1, <1>2, <1>3, <1>4

LEMMA ExpireStep ==
  ASSUME IInv, NEW m \in Ids, Expire(m)
  PROVE  IInv'
<1>1. UNCHANGED <<last, images, uploading, erasing, task, heard, preview, posts, calls,
                  faults, removed, torn, blurred>>
  BY DEF Expire, told, history
<1>2. /\ message' \in [Ids -> Stored]
      /\ message'[m].action = "gone"
      /\ \A n \in Ids : /\ message'[n].attachments = message[n].attachments
                        /\ n # m => message'[n] = message[n]
                        /\ message'[n] = Absent <=> message[n] = Absent
      /\ Ever' = Ever
  BY Expired
<1>3. \A h \in Handlers : task[h].pc \notin {"idle", "upload"} => task[h].msg \in Ids
  BY Numbers DEF IInv, TasksInv, Shape
<1>4. TypeOK'
  BY <1>1, <1>2, <1>3 DEF IInv, TypeOK
<1>5. TasksInv'
  BY <1>1, <1>2, <1>3 DEF IInv, TasksInv, Shape, FilesInv, PlaceInv
<1>6. Disjoint'
  BY <1>1, <1>2 DEF IInv, Disjoint
<1>7. CollectionInv'
  BY <1>1, <1>2 DEF IInv, CollectionInv
<1>8. Accounted' /\ ReferencedExist'
  BY <1>1, <1>2 DEF IInv, Accounted, ReferencedExist
<1>9. RemovedInv'
  BY <1>1, <1>2 DEF IInv, RemovedInv, Emptying, TypeOK
<1> QED BY <1>4, <1>5, <1>6, <1>7, <1>8, <1>9 DEF IInv

-------------------------------------------------------------------------------
(* The theorems *)

LEMMA InitInv == ASSUME Init PROVE IInv
<1>1. /\ message = [m \in Ids |-> Absent] /\ last = None /\ posts = 0
      /\ images = {} /\ uploading = {} /\ erasing = {} /\ removed = {} /\ torn = {}
      /\ task = [h \in Handlers |-> Idle]
  BY DEF Init
<1>2. \A m \in Ids : message[m].action = "none" /\ message[m].attachments = {}
  BY <1>1 DEF Absent
<1>3. Ever = {}
  BY <1>2 DEF Ever
<1>4. TypeOK
  <2>1. Absent \in Stored
    BY DEF Absent, Stored
  <2>2. preview \in Preview /\ heard \in [Ids -> Actions \union {"none"}]
    BY DEF Init, Preview
  <2>3. \A h \in Handlers : task[h].pc = "idle"
    BY <1>1, IdleTask
  <2>4. message \in [Ids -> Stored] /\ task \in [Handlers -> Task]
    BY <1>1, <2>1, IdleTask
  <2>5. posts \in 0..MaxPosts /\ calls \in 0..MaxCalls /\ faults \in 0..MaxFaults
    BY BoundsAssumption DEF Init
  <2> QED BY <1>1, <2>2, <2>3, <2>4, <2>5 DEF Init, TypeOK
<1>5. TasksInv /\ Disjoint
  BY <1>1, <1>2, IdleTask DEF TasksInv, Shape, FilesInv, PlaceInv, Pending, Disjoint
<1>6. CollectionInv
  BY <1>1, <1>2, <1>3 DEF CollectionInv
<1>7. Accounted /\ ReferencedExist /\ RemovedInv
  BY <1>1, <1>2 DEF Accounted, ReferencedExist, RemovedInv
<1> QED BY <1>4, <1>5, <1>6, <1>7 DEF IInv

LEMMA NextInv == ASSUME IInv, [Next]_vars PROVE IInv'
<1>1. ASSUME NEW h \in Handlers, BeginPost(h) \/ BeginModify(h) \/ UploadErrs(h) \/ WriteErrs(h)
      PROVE  IInv'
  BY <1>1, BeginPostStep, BeginModifyStep, UploadErrsStep, WriteErrsStep
<1>2. ASSUME NEW h \in Handlers, Step(h) PROVE IInv'
  BY <1>2, CreateStep, HookStep, InsertStep, UpdateStep, UpdateRefusedStep, EmptyStep,
     AnnounceStep DEF Step
<1>3. ASSUME NEW a \in Assets, UploadDone(a) \/ EraseDone(a) \/ EraseErrs(a)
      PROVE  IInv'
  BY <1>3, UploadDoneStep, EraseDoneStep, EraseErrsStep
<1>4. CASE UNCHANGED vars
  <2>1. UNCHANGED <<message, last, images, uploading, erasing, task, heard, preview,
                    posts, calls, faults, removed, torn, blurred>>
    BY <1>4 DEF vars, data, told, history
  <2> QED BY <2>1 DEF IInv, TypeOK, TasksInv, Shape, FilesInv, PlaceInv, Disjoint,
                      CollectionInv, Ever, Accounted, ReferencedExist,
                      RemovedInv, Emptying
<1> QED BY <1>1, <1>2, <1>3, <1>4, CrashStep, ExpireStep DEF Next

(* The strengthening of the properties below is inductive.                 *)
THEOREM Invariant == Spec => []IInv
<1>1. Init => IInv
  BY InitInv
<1>2. IInv /\ [Next]_vars => IInv'
  BY NextInv
<1> QED BY <1>1, <1>2, PTL DEF Spec

(* Every variable keeps its type, and a message is inserted once.          *)
THEOREM Types == Spec => []TypeOK
<1>1. IInv => TypeOK
  BY DEF IInv
<1> QED BY Invariant, <1>1, PTL

(* A stored message names images the store has.                            *)
THEOREM References == Spec => []ReferencedExist
<1>1. IInv => ReferencedExist
  BY DEF IInv
<1> QED BY Invariant, <1>1, PTL

(* Each image of the store is a message's, a post's, about to be destroyed, *)
(* an error's, or was left by a message that expired.                      *)
THEOREM Orphans == Spec => []OrphansAccounted
<1>1. IInv => OrphansAccounted
  <2> SUFFICES ASSUME IInv, NEW a \in images, NEW m \in Ids, a \in message[m].attachments
               PROVE  m \in InCollection \/ message[m].action = "gone"
    BY DEF IInv, Accounted, OrphansAccounted
  <2> QED BY DEF IInv, CollectionInv, InCollection, Absent
<1> QED BY Invariant, <1>1, PTL

(* A removed message loses its attachments whatever runs beside.           *)
THEOREM Removals == Spec => []RemovedAreEmpty
<1>1. IInv => RemovedAreEmpty
  BY DEF IInv, RemovedInv, Emptying, RemovedAreEmpty, Quiet, InCollection
<1> QED BY Invariant, <1>1, PTL

-------------------------------------------------------------------------------
(* Events *)

(* What is heard of a message while h alone is at work.                    *)
HeardBut(h, m) ==
    m \in InCollection => \/ heard[m] = message[m].action
                          \/ task[h].pc \in {"empty", "announce"} /\ task[h].msg = m

LEMMA Alone ==
  ASSUME EventsInv, ~blurred, NEW h \in Handlers, task[h].pc # "idle"
  PROVE  /\ \A g \in Handlers \ {h} : task[g].pc = "idle"
         /\ ~Quiet
         /\ ToTell(task[h])
         /\ preview.msg \in 1..posts \union {None}
         /\ \A m \in Ids : HeardBut(h, m)
<1>1. OneAtATime /\ ~Quiet
  BY DEF EventsInv, Quiet
<1>2. \A g \in Handlers \ {h} : task[g].pc = "idle"
  BY <1>1 DEF OneAtATime
<1>3. \A m \in Ids : HeardBut(h, m)
  BY <1>2 DEF EventsInv, TrulyHeard, HeardBut, Telling
<1> QED BY <1>1, <1>2, <1>3 DEF EventsInv

(* A step of the only call there is.                                       *)
LEMMA LoneStep ==
  ASSUME EventsInv, ~blurred, NEW h \in Handlers, task[h].pc # "idle",
         \A g \in Handlers \ {h} : task'[g] = task[g],
         ToTell(task[h])', Quiet' => Settled', preview'.msg \in 1..posts' \union {None},
         \A m \in Ids : HeardBut(h, m)'
  PROVE  EventsInv'
<1>1. \A g \in Handlers \ {h} : task'[g].pc = "idle"
  BY Alone
<1>2. OneAtATime'
  BY <1>1 DEF OneAtATime
<1>3. \A m \in Ids : TrulyHeard(m)'
  BY DEF TrulyHeard, HeardBut, Telling
<1>4. \A g \in Handlers : ToTell(task[g])'
  BY <1>1 DEF ToTell
<1> QED BY <1>2, <1>3, <1>4 DEF EventsInv

LEMMA EventsBegin ==
  ASSUME IInv, EventsInv, NEW h \in Handlers, BeginPost(h) \/ BeginModify(h), ~blurred'
  PROVE  EventsInv'
<1>1. ~blurred /\ Quiet
  BY DEF BeginPost, BeginModify, Begin
<1>2. UNCHANGED <<message, last, heard, preview, posts>> /\ Settled
  BY <1>1 DEF BeginPost, BeginModify, data, told, EventsInv
<1>3. \A snap \in Snapshots : snap = last \/ InCollection = {}
  BY <1>1, <1>2 DEF Snapshots, Settled, Newest
<1>4. PICK T \in Task :
        /\ Become(h, T) /\ T.pc \in {"upload", "update"}
        /\ T.snap = last \/ InCollection = {}
  <2>1. CASE BeginPost(h)
    <3>1. PICK files \in Uploads, snap \in Snapshots :
            Become(h, [[Idle EXCEPT !.action = "New", !.pc = "upload", !.files = files,
                                    !.todo = files] EXCEPT !.snap = snap])
      BY <2>1 DEF BeginPost, Begin
    <3> DEFINE T == [[Idle EXCEPT !.action = "New", !.pc = "upload", !.files = files,
                                  !.todo = files] EXCEPT !.snap = snap]
    <3>2. T \in Task /\ T.pc = "upload" /\ T.snap = snap
      BY SnapshotsOK, IdleTask, UploadsAssumption DEF IInv, TypeOK, Idle, Task, Actions
    <3> QED BY <1>3, <3>1, <3>2
  <2>2. CASE BeginModify(h)
    <3>1. PICK action \in {"Edited", "Removed"}, m \in 1..posts, snap \in Snapshots :
            Become(h, [[Idle EXCEPT !.action = action, !.pc = "update", !.msg = m]
                          EXCEPT !.snap = snap])
      BY <2>2 DEF BeginModify, Begin
    <3> DEFINE T == [[Idle EXCEPT !.action = action, !.pc = "update", !.msg = m]
                        EXCEPT !.snap = snap]
    <3>2. m \in Ids
      BY Numbers DEF IInv
    <3>3. T \in Task /\ T.pc = "update" /\ T.snap = snap
      BY <3>2, SnapshotsOK, IdleTask DEF IInv, TypeOK, Idle, Task, Actions
    <3> QED BY <1>3, <3>1, <3>3
  <2> QED BY <2>1, <2>2
<1>5. /\ task' \in [Handlers -> Task] /\ task'[h] = T
      /\ \A g \in Handlers \ {h} : task'[g] = task[g] /\ task[g].pc = "idle"
  BY <1>1, <1>4, Becomes DEF IInv, Quiet
<1>6. Settled' /\ InCollection' = InCollection
  BY <1>2 DEF Settled, Newest, Shown, NothingTold, InCollection
<1>7. OneAtATime'
  BY <1>5 DEF OneAtATime
<1>8. \A m \in Ids : TrulyHeard(m)'
  BY <1>1, <1>2, <1>6 DEF EventsInv, TrulyHeard, Telling, Quiet
<1>9. \A g \in Handlers : ToTell(task[g])'
  BY <1>2, <1>4, <1>5, <1>6 DEF ToTell
<1>10. preview'.msg \in 1..posts' \union {None}
  BY <1>1, <1>2 DEF EventsInv
<1> QED BY <1>6, <1>7, <1>8, <1>9, <1>10 DEF EventsInv

(* Steps that change nothing an event tells of.                            *)
LEMMA EventsSame ==
  ASSUME EventsInv, UNCHANGED <<message, last, heard, preview, posts, blurred>>,
         \A h \in Handlers : /\ task'[h].pc = task[h].pc /\ task'[h].msg = task[h].msg
                             /\ task'[h].snap = task[h].snap
                             /\ task'[h].action = task[h].action
  PROVE  EventsInv'
<1>1. InCollection' = InCollection
  BY DEF InCollection
<1>2. (Newest <=> Newest') /\ (Shown <=> Shown') /\ (Settled <=> Settled')
  BY <1>1 DEF Newest, Settled, Shown, NothingTold
<1>3. (OneAtATime <=> OneAtATime') /\ (Quiet <=> Quiet')
      /\ \A m \in Ids : TrulyHeard(m) <=> TrulyHeard(m)'
  BY <1>1 DEF OneAtATime, Quiet, TrulyHeard, Telling
<1>4. \A h \in Handlers : ToTell(task[h]) => ToTell(task[h])'
  BY <1>1, <1>2 DEF ToTell
<1> QED BY <1>2, <1>3, <1>4 DEF EventsInv

LEMMA EventsCreate ==
  ASSUME IInv, IInv', EventsInv, NEW h \in Handlers, Create(h), ~blurred'
  PROVE  EventsInv'
<1> DEFINE T == [task[h] EXCEPT !.pc = "hook", !.msg = posts + 1]
<1>1. /\ task[h].pc = "upload" /\ posts' = posts + 1 /\ Become(h, T) /\ posts < MaxPosts
      /\ UNCHANGED <<message, last, heard, preview, blurred>>
  BY DEF Create, data, told, history
<1>2. /\ ~blurred /\ Settled /\ (task[h].snap = last \/ InCollection = {})
      /\ preview.msg \in 1..posts \union {None}
      /\ \A m \in Ids : HeardBut(h, m)
  BY <1>1, Alone DEF ToTell
<1>3. task[h] \in Task /\ posts + 1 \in Ids /\ posts \in Nat
  BY <1>1, Numbers, BoundsAssumption DEF IInv, TypeOK
<1>4. /\ T \in Task /\ T.pc = "hook" /\ T.msg = posts + 1 /\ T.snap = task[h].snap
  BY <1>3 DEF Task
<1>5. /\ task'[h] = T /\ \A g \in Handlers \ {h} : task'[g] = task[g]
  BY <1>1, <1>4, Becomes DEF IInv
<1> HIDE DEF T
<1>6. InCollection' = InCollection /\ InCollection \subseteq Ids
  BY <1>1 DEF InCollection
<1>7. task[h].snap = None => InCollection = {}
  <2>1. last = None => last \notin InCollection
    BY <1>6, Numbers DEF IInv
  <2> QED BY <1>1, <1>2, <2>1, Alone DEF ToTell, Settled, Newest
<1>8. preview'.msg # posts' /\ preview'.msg \in 1..posts' \union {None}
  BY <1>1, <1>2, <1>3, NoneAssumption
<1>9. ToTell(task[h])'
  BY <1>1, <1>4, <1>5, <1>6, <1>7, <1>8 DEF ToTell
<1>10. ~Quiet'
  BY <1>4, <1>5 DEF Quiet
<1>11. \A m \in Ids : HeardBut(h, m)'
  BY <1>1, <1>2, <1>6 DEF HeardBut
<1> QED BY <1>1, <1>2, <1>5, <1>8, <1>9, <1>10, <1>11, LoneStep

LEMMA EventsHook ==
  ASSUME IInv, IInv', EventsInv, NEW h \in Handlers, HookWritesLast(h), ~blurred'
  PROVE  EventsInv'
<1>1. /\ task[h].pc = "hook" /\ last' = task[h].msg
      /\ UNCHANGED <<message, heard, preview, posts, blurred>>
  BY DEF HookWritesLast, told, history
<1>2. /\ task'[h].pc = "insert" /\ task'[h].snap = task[h].snap
      /\ task'[h].msg = task[h].msg
      /\ \A g \in Handlers \ {h} : task'[g] = task[g]
  BY Goes DEF IInv, HookWritesLast
<1>3. /\ ~blurred /\ ToTell(task[h]) /\ preview.msg \in 1..posts \union {None}
      /\ \A m \in Ids : HeardBut(h, m)
  BY <1>1, Alone
<1>4. InCollection' = InCollection
  BY <1>1 DEF InCollection
<1>5. ToTell(task[h])'
  BY <1>1, <1>2, <1>3, <1>4 DEF ToTell
<1>6. ~Quiet'
  BY <1>2 DEF Quiet
<1>7. \A m \in Ids : HeardBut(h, m)'
  BY <1>1, <1>3, <1>4 DEF HeardBut
<1> QED BY <1>1, <1>2, <1>3, <1>5, <1>6, <1>7, LoneStep

LEMMA EventsInsert ==
  ASSUME IInv, IInv', EventsInv, NEW h \in Handlers, InsertMessage(h), ~blurred'
  PROVE  EventsInv'
<1>1. /\ task[h].pc = "insert" /\ UNCHANGED <<last, heard, preview, posts, blurred>>
  BY DEF InsertMessage, told, history
<1>2. /\ task'[h].pc = "announce" /\ task'[h].snap = task[h].snap
      /\ task'[h].msg = task[h].msg /\ task'[h].action = task[h].action
      /\ \A g \in Handlers \ {h} : task'[g] = task[g]
  BY Goes DEF IInv, InsertMessage
<1>3. /\ ~blurred /\ ToTell(task[h]) /\ preview.msg \in 1..posts \union {None}
      /\ \A m \in Ids : HeardBut(h, m)
  BY <1>1, Alone
<1>4. /\ task[h].action = "New" /\ task[h].msg \in Ids /\ task[h].msg \in 1..posts
      /\ task[h].msg = posts /\ last = posts
  BY <1>1, <1>3, Numbers DEF IInv, TasksInv, Shape, Pending, ToTell
<1>5. /\ message'[task[h].msg].action = "New"
      /\ \A n \in Ids \ {task[h].msg} : message'[n] = message[n]
      /\ InCollection' = InCollection \union {task[h].msg}
  <2>1. /\ message'[task[h].msg] = [action |-> "New", attachments |-> task[h].files]
        /\ \A n \in Ids \ {task[h].msg} : message'[n] = message[n]
    BY Inserted DEF InsertMessage
  <2>2. message'[task[h].msg].action = "New"
    BY <2>1
  <2> QED BY <1>4, <2>1, <2>2 DEF InCollection
<1>6. Newest'
  BY <1>1, <1>4, <1>5 DEF Newest
<1>7. ToTell(task[h])'
  BY <1>1, <1>2, <1>3, <1>4, <1>5, <1>6 DEF ToTell
<1>8. ~Quiet'
  BY <1>2 DEF Quiet
<1>9. \A m \in Ids : HeardBut(h, m)'
  BY <1>1, <1>2, <1>3, <1>5 DEF HeardBut
<1> QED BY <1>1, <1>2, <1>3, <1>7, <1>8, <1>9, LoneStep

LEMMA EventsUpdate ==
  ASSUME IInv, IInv', EventsInv, NEW h \in Handlers, UpdateMessage(h), ~blurred'
  PROVE  EventsInv'
<1> DEFINE pc == IF ToErase(task[h]) = {} THEN "announce" ELSE "empty"
<1>1. /\ task[h].pc = "update" /\ UNCHANGED <<last, heard, preview, posts, blurred>>
      /\ Goto(h, pc)
  BY DEF UpdateMessage, AfterUpdate, told
<1>2. /\ task'[h].pc \in {"empty", "announce"} /\ task'[h].snap = task[h].snap
      /\ task'[h].msg = task[h].msg /\ task'[h].action = task[h].action
      /\ \A g \in Handlers \ {h} : task'[g] = task[g]
  <2> HIDE DEF pc
  <2>1. pc \in {"announce", "empty"}
    BY DEF pc
  <2> QED BY <1>1, <2>1, Goes DEF IInv
<1>3. /\ ~blurred /\ Settled /\ preview.msg \in 1..posts \union {None}
      /\ task[h].snap = last \/ InCollection = {}
      /\ \A n \in Ids : HeardBut(h, n)
  BY <1>1, Alone DEF ToTell
<1>4. PICK m \in InCollection :
        /\ m = task[h].msg /\ m \in Ids
        /\ task[h].action \in {"Edited", "Removed"}
        /\ message'[m].action = task[h].action
        /\ \A n \in Ids \ {m} : message'[n] = message[n]
  BY Updated DEF UpdateMessage, Found
<1>5. InCollection' = InCollection /\ InCollection \subseteq Ids
  BY <1>4 DEF InCollection
<1>6. last \in InCollection /\ last \in Ids /\ task[h].snap = last
  BY <1>3, <1>4, <1>5 DEF Settled, Newest
<1>7. Newest'
  BY <1>1, <1>3, <1>5 DEF Settled, Newest
<1>8. ASSUME m # last PROVE Shown'
  <2>1. ~NothingTold
    BY <1>4, <1>8 DEF NothingTold
  <2>2. preview = [msg |-> last, action |-> message[last].action]
    BY <1>3, <1>6, <2>1 DEF Settled, Shown
  <2>3. message'[last] = message[last]
    BY <1>4, <1>6, <1>8
  <2> QED BY <1>1, <2>2, <2>3 DEF Shown
<1>9. ToTell(task[h])'
  BY <1>1, <1>2, <1>3, <1>4, <1>6, <1>7, <1>8 DEF ToTell
<1>10. ~Quiet'
  BY <1>2 DEF Quiet
<1>11. \A n \in Ids : HeardBut(h, n)'
  BY <1>1, <1>2, <1>3, <1>4, <1>5 DEF HeardBut
<1> QED BY <1>1, <1>2, <1>3, <1>9, <1>10, <1>11, LoneStep

LEMMA EventsEmpty ==
  ASSUME IInv, IInv', EventsInv, NEW h \in Handlers, EmptyAttachments(h), ~blurred'
  PROVE  EventsInv'
<1>1. /\ task[h].pc = "empty" /\ UNCHANGED <<last, heard, preview, posts, blurred>>
  BY DEF EmptyAttachments, told, history
<1>2. /\ task'[h].pc = "announce" /\ task'[h].snap = task[h].snap
      /\ task'[h].msg = task[h].msg /\ task'[h].action = task[h].action
      /\ \A g \in Handlers \ {h} : task'[g] = task[g]
  BY Goes DEF IInv, EmptyAttachments
<1>3. /\ ~blurred /\ ToTell(task[h]) /\ task[h].action # "New"
      /\ preview.msg \in 1..posts \union {None} /\ \A n \in Ids : HeardBut(h, n)
  BY <1>1, Alone DEF IInv, TasksInv, Shape
<1>4. /\ \A n \in Ids : message'[n].action = message[n].action
      /\ task[h].msg \in Ids
  BY Emptied DEF EmptyAttachments
<1>5. InCollection' = InCollection /\ InCollection \subseteq Ids
  BY <1>4 DEF InCollection
<1>6. (Shown => Shown') /\ (Newest => Newest')
  BY <1>1, <1>4, <1>5 DEF Shown, NothingTold, Newest
<1>7. ToTell(task[h])'
  BY <1>1, <1>2, <1>3, <1>4, <1>5, <1>6 DEF ToTell
<1>8. ~Quiet'
  BY <1>2 DEF Quiet
<1>9. \A n \in Ids : HeardBut(h, n)'
  BY <1>1, <1>2, <1>3, <1>4, <1>5 DEF HeardBut
<1> QED BY <1>1, <1>2, <1>3, <1>7, <1>8, <1>9, LoneStep

(* A call ends: what it leaves is settled.                                 *)
LEMMA EventsEnd ==
  ASSUME IInv, IInv', EventsInv, NEW h \in Handlers, UpdateRefused(h) \/ Announce(h),
         ~blurred'
  PROVE  EventsInv'
<1>1. /\ task[h].pc \in {"update", "announce"} /\ Leave(h)
      /\ UNCHANGED <<message, last, posts, blurred>>
  BY DEF UpdateRefused, Announce, data, history
<1>2. /\ task'[h] = Idle /\ \A g \in Handlers \ {h} : task'[g] = task[g]
  BY <1>1, IdleTask, Becomes DEF IInv, Leave
<1>3. /\ ~blurred /\ ToTell(task[h]) /\ InCollection' = InCollection
      /\ preview.msg \in 1..posts \union {None} /\ \A n \in Ids : HeardBut(h, n)
  BY <1>1, Alone DEF InCollection
<1>4. ToTell(task[h])'
  BY <1>2, IdleTask DEF ToTell
<1>5. CASE UpdateRefused(h)
  <2>1. task[h].pc = "update" /\ UNCHANGED <<heard, preview>>
    BY <1>5 DEF UpdateRefused, told
  <2>2. Settled'
    BY <1>1, <1>3, <2>1 DEF ToTell, Settled, Newest, Shown, NothingTold
  <2>3. \A n \in Ids : HeardBut(h, n)'
    BY <1>1, <1>3, <2>1 DEF HeardBut
  <2> QED BY <1>1, <1>2, <1>3, <1>4, <2>1, <2>2, <2>3, LoneStep
<1>6. CASE Announce(h)
  <2> DEFINE t == task[h]
  <2>1. /\ t.pc = "announce" /\ heard' = [heard EXCEPT ![t.msg] = t.action]
        /\ preview' = IF LastMessageValidate(t)
                      THEN [msg |-> t.msg, action |-> t.action] ELSE preview
    BY <1>6 DEF Announce, Tells
  <2>2. /\ t.msg \in Ids /\ t.msg \in 1..posts /\ Newest
        /\ message[t.msg].action \in {t.action, "gone"}
    BY <1>3, <2>1, Numbers DEF IInv, TasksInv, Shape, ToTell
  <2>3. heard \in [Ids -> Actions \union {"none"}]
    BY DEF IInv, TypeOK
  <2>4. t.msg \in InCollection => message[t.msg].action = t.action
    BY <2>2 DEF InCollection
  <2>5. \A n \in Ids : HeardBut(h, n)'
    <3> SUFFICES ASSUME NEW n \in Ids, n \in InCollection
                 PROVE  heard'[n] = message'[n].action
      BY <1>3 DEF HeardBut
    <3>1. heard'[n] = IF n = t.msg THEN t.action ELSE heard[n]
      BY <2>1, <2>3
    <3> QED BY <1>1, <1>3, <2>4, <3>1 DEF HeardBut
  <2>6. preview'.msg \in 1..posts' \union {None}
    BY <1>1, <1>3, <2>1, <2>2
  <2>7. Shown'
    <3> SUFFICES ASSUME last \in InCollection
                 PROVE  preview' = [msg |-> last, action |-> message[last].action]
                        \/ (preview'.msg # last /\ message[last].action = "New"
                            /\ InCollection = {last})
      BY <1>1, <1>3 DEF Shown, NothingTold
    <3>1. last # None
      BY Numbers DEF IInv, InCollection
    <3>2. CASE t.msg = last /\ (t.action = "New" => t.snap # None)
      <4>1. t.snap = last \/ t.action = "New"
        BY <1>3, <2>1 DEF ToTell
      <4> QED BY <2>1, <2>4, <3>1, <3>2, <4>1 DEF LastMessageValidate
    <3>3. CASE t.action = "New" /\ t.snap = None
      <4>1. /\ last = t.msg /\ preview.msg # last /\ InCollection \subseteq {last}
            /\ preview' = preview
        BY <1>3, <2>1, <3>3 DEF ToTell, LastMessageValidate
      <4> QED BY <2>4, <3>3, <4>1
    <3>4. CASE t.action # "New" /\ t.msg # last
      <4>1. Shown /\ t.snap = last
        BY <1>3, <2>1, <3>4 DEF ToTell
      <4>2. preview' = preview
        BY <2>1, <3>4, <4>1 DEF LastMessageValidate
      <4> QED BY <4>1, <4>2 DEF Shown, NothingTold
    <3>5. t.action = "New" => t.msg = last
      BY <1>3, <2>1 DEF ToTell
    <3> QED BY <3>2, <3>3, <3>4, <3>5
  <2>8. Settled'
    BY <1>1, <1>3, <2>2, <2>7 DEF Settled, Newest
  <2> QED BY <1>1, <1>2, <1>3, <1>4, <2>5, <2>6, <2>8, LoneStep
<1> QED BY <1>5, <1>6

(* The oldest message expires: the newest one only after all others.       *)
LEMMA EventsExpire ==
  ASSUME IInv, IInv', EventsInv, NEW m \in Ids, Expire(m), ~blurred'
  PROVE  EventsInv'
<1>1. /\ UNCHANGED <<last, task, heard, preview, posts, blurred>>
      /\ \A k \in InCollection : m <= k
  BY DEF Expire, told, history
<1>2. /\ message'[m].action = "gone"
      /\ \A n \in Ids : n # m => message'[n] = message[n]
      /\ m \in InCollection
  BY Expired
<1>3. InCollection' = InCollection \ {m}
  BY <1>2 DEF InCollection
<1>4. Newest => Newest'
  <2> SUFFICES ASSUME Newest, last = m PROVE InCollection \subseteq {m}
    BY <1>1, <1>3 DEF Newest
  <2>1. posts # 0 /\ m = posts /\ InCollection \subseteq 1..posts
    BY <1>2, NoneAssumption, Numbers
       DEF Newest, IInv, CollectionInv, Ever, InCollection
  <2>2. \A k \in InCollection : k <= m /\ m <= k
    BY <1>1, <2>1 DEF IInv, TypeOK
  <2>3. InCollection \subseteq Int
    BY <2>1
  <2> QED BY <2>1, <2>2, <2>3 DEF IInv, TypeOK
<1>5. Shown => Shown'
  <2> SUFFICES ASSUME Shown, last \in InCollection, last # m PROVE Shown'
    BY <1>1, <1>3 DEF Shown
  <2>1. message'[last] = message[last]
    BY <1>2 DEF InCollection
  <2>2. ~NothingTold
    BY <1>2 DEF NothingTold
  <2> QED BY <1>1, <2>1, <2>2 DEF Shown
<1>6. (Settled => Settled') /\ (Quiet <=> Quiet') /\ (OneAtATime <=> OneAtATime')
  BY <1>1, <1>4, <1>5 DEF Settled, Quiet, OneAtATime
<1>7. ASSUME NEW n \in Ids, TrulyHeard(n) PROVE TrulyHeard(n)'
  BY <1>1, <1>2, <1>3, <1>7 DEF TrulyHeard, Telling
<1>8. ASSUME NEW h \in Handlers, ToTell(task[h]) PROVE ToTell(task[h])'
  <2>1. task[h].pc \in {"empty", "announce"} =>
           /\ task[h].msg \in Ids
           /\ message'[task[h].msg].action \in {message[task[h].msg].action, "gone"}
    BY <1>2, Numbers DEF IInv, TasksInv, Shape
  <2> QED BY <1>1, <1>3, <1>4, <1>5, <1>6, <1>8, <2>1 DEF ToTell
<1> QED BY <1>1, <1>6, <1>7, <1>8 DEF EventsInv

LEMMA EventsStep ==
  ASSUME IInv, IInv', EventsInv, [Next]_vars
  PROVE  EventsInv'
<1> SUFFICES ASSUME ~blurred' PROVE EventsInv'
  BY DEF EventsInv
<1>1. ASSUME NEW h \in Handlers, BeginPost(h) \/ BeginModify(h) PROVE EventsInv'
  BY <1>1, EventsBegin
<1>2. ASSUME NEW h \in Handlers, UploadErrs(h) \/ WriteErrs(h) PROVE FALSE
  BY <1>2 DEF UploadErrs, WriteErrs, Fault
<1>3. ASSUME NEW h \in Handlers, Step(h) PROVE EventsInv'
  BY <1>3, EventsCreate, EventsHook, EventsInsert, EventsUpdate, EventsEmpty, EventsEnd DEF Step
<1>4. ASSUME NEW a \in Assets, UploadDone(a) PROVE EventsInv'
  <2>1. /\ task' = [h \in Handlers |-> [task[h] EXCEPT !.todo = @ \ {a}]]
        /\ \A h \in Handlers : task[h] \in Task
    BY <1>4 DEF UploadDone, IInv, TypeOK
  <2>2. \A h \in Handlers : /\ task'[h].pc = task[h].pc /\ task'[h].msg = task[h].msg
                            /\ task'[h].snap = task[h].snap
                            /\ task'[h].action = task[h].action
    BY <2>1 DEF Task
  <2> QED BY <1>4, <2>2, EventsSame DEF UploadDone, told, history
<1>5. ASSUME NEW a \in Assets, EraseDone(a) PROVE EventsInv'
  BY <1>5, EventsSame DEF EraseDone, told, history
<1>6. ASSUME NEW a \in Assets, EraseErrs(a) PROVE FALSE
  BY <1>6 DEF EraseErrs, Fault
<1>7. ~Crash
  BY DEF Crash, Fault
<1>8. ASSUME NEW m \in Ids, Expire(m) PROVE EventsInv'
  BY <1>8, EventsExpire
<1>9. CASE UNCHANGED vars
  BY <1>9, EventsSame DEF vars, data, told, history
<1> QED BY <1>1, <1>2, <1>3, <1>4, <1>5, <1>6, <1>7, <1>8, <1>9 DEF Next

(* After calls made one at a time the members have been told the truth of  *)
(* every message and of the last one, however many calls there were.       *)
THEOREM Events == Spec => []EventsAreTrue
<1>1. Init => EventsInv
  <2> SUFFICES ASSUME Init PROVE EventsInv
    OBVIOUS
  <2>1. \A h \in Handlers : task[h].pc = "idle"
    BY IdleTask DEF Init
  <2>2. InCollection = {} /\ \A m \in Ids : heard[m] = message[m].action
    BY DEF Init, InCollection, Absent
  <2>3. Settled /\ preview.msg = None
    BY <2>2 DEF Init, Settled, Newest, Shown
  <2>4. \A m \in Ids : TrulyHeard(m)
    BY <2>2 DEF TrulyHeard
  <2> QED BY <2>1, <2>3, <2>4 DEF EventsInv, OneAtATime, ToTell
<1>2. IInv /\ IInv' /\ EventsInv /\ [Next]_vars => EventsInv'
  BY EventsStep
<1>3. IInv /\ EventsInv => EventsAreTrue
  <2> SUFFICES ASSUME IInv, EventsInv, Quiet, ~blurred PROVE EventsAreTrue
    BY DEF EventsAreTrue
  <2>1. Settled /\ \A m \in InCollection : heard[m] = message[m].action
    BY DEF EventsInv, TrulyHeard, Telling, Quiet, InCollection
  <2>2. \A m \in InCollection : m <= last
    <3> SUFFICES ASSUME NEW m \in InCollection PROVE m <= last
      OBVIOUS
    <3>1. m \in 1..posts
      BY DEF IInv, CollectionInv, Ever, InCollection
    <3> QED BY <2>1, <3>1 DEF Settled, Newest, IInv, TypeOK
  <2> QED BY <2>1, <2>2 DEF Settled, Shown, NothingTold, EventsAreTrue
<1> QED BY <1>1, <1>2, <1>3, Invariant, PTL DEF Spec

-------------------------------------------------------------------------------
(* MessageLedger *)

(* What a handler knows of the ledger: its message is not lost before it   *)
(* is stored, and what it empties or tells as removed has been removed.    *)
LedgerTask(t, to, re) ==
    /\ t.pc = "idle" => t.msg = None
    /\ t.pc \in {"hook", "insert"} => t.msg \notin to
    /\ t.pc = "empty" \/ (t.pc = "announce" /\ t.action = "Removed") => t.msg \in re

LedgerInv ==
    /\ IInv
    /\ torn \subseteq Assets \union 1..posts
    /\ \A h \in Handlers : LedgerTask(task[h], torn, removed)

LEMMA IdleMsg == Idle.msg = None
BY DEF Idle

LEMMA LedgerFacts ==
  ASSUME LedgerInv, NEW h \in Handlers
  PROVE  /\ IInv /\ task[h] \in Task /\ Shape(task[h]) /\ FilesInv(task[h])
         /\ PlaceInv(task[h]) /\ LedgerTask(task[h], torn, removed)
         /\ task[h].pc \notin {"idle", "upload"} => task[h].msg \in Ids
         /\ \A a \in Assets : a \notin Ids
         /\ message \in [Ids -> Stored]
<1>1. \A a \in Assets : a \notin Ids
  BY AssetsAssumption, BoundsAssumption DEF Ids
<1> QED BY <1>1, Numbers DEF LedgerInv, IInv, TypeOK, TasksInv, Shape

(* What the sets of the ledger contain, now and after a step.              *)
LEMMA Memberships ==
  /\ \A F : F \in Due <=> F # {} /\ \E h \in Handlers : task[h].pc \in Pending /\ F = task[h].files
  /\ \A a : a \in UNION Due <=> \E h \in Handlers : task[h].pc \in Pending /\ a \in task[h].files
  /\ \A a : a \in Doomed <=> a \in erasing \/ \E m \in removed : a \in message[m].attachments
  /\ \A a : a \in Ledger!Named <=> \E m \in Ids : a \in message[m].attachments
<1>1. \A F : F \in Due <=> F # {} /\ \E h \in Handlers : task[h].pc \in Pending /\ F = task[h].files
  BY DEF Due
<1>2. \A a : a \in UNION Due <=> \E h \in Handlers : task[h].pc \in Pending /\ a \in task[h].files
  BY <1>1
<1>3. \A a : a \in Doomed <=> a \in erasing \/ \E m \in removed : a \in message[m].attachments
  BY DEF Doomed
<1>4. \A a : a \in Ledger!Named <=> \E m \in Ids : a \in message[m].attachments
  BY DEF Ledger!Named
<1> QED BY <1>1, <1>2, <1>3, <1>4

LEMMA NextMemberships ==
  /\ \A F : F \in Due' <=> F # {} /\ \E h \in Handlers : task'[h].pc \in Pending /\ F = task'[h].files
  /\ \A a : a \in Doomed' <=> a \in erasing' \/ \E m \in removed' : a \in message'[m].attachments
  /\ \A a : a \in Ledger!Named' <=> \E m \in Ids : a \in message'[m].attachments
<1>1. \A F : F \in Due' <=> F # {} /\ \E h \in Handlers : task'[h].pc \in Pending /\ F = task'[h].files
  BY DEF Due
<1>2. \A a : a \in Doomed' <=> a \in erasing' \/ \E m \in removed' : a \in message'[m].attachments
  BY DEF Doomed
<1>3. \A a : a \in Ledger!Named' <=> \E m \in Ids : a \in message'[m].attachments
  BY DEF Ledger!Named
<1> QED BY <1>1, <1>2, <1>3

(* A step of one handler: what the others know stays true.                 *)
LEMMA LedgerKeeps ==
  ASSUME LedgerInv, IInv', NEW h \in Handlers, \A g \in Handlers \ {h} : task'[g] = task[g],
         LedgerTask(task'[h], torn', removed'),
         removed \subseteq removed', torn' \subseteq Assets \union 1..posts',
         \A g \in Handlers \ {h} :
            task[g].pc \in {"hook", "insert"} => task[g].msg \notin torn' \ torn
  PROVE  LedgerInv'
BY DEF LedgerInv, LedgerTask

LEMMA DueKept ==
  ASSUME \A h \in Handlers : /\ task'[h].pc \in Pending <=> task[h].pc \in Pending
                             /\ task[h].pc \in Pending => task'[h].files = task[h].files
  PROVE  Due' = Due
BY Memberships, NextMemberships

(* A post that is over, or stored, gives up its claim.                     *)
LEMMA DueLeft ==
  ASSUME LedgerInv, NEW h \in Handlers, \A g \in Handlers \ {h} : task'[g] = task[g],
         task[h].pc \in Pending, task'[h].pc \notin Pending
  PROVE  /\ task[h].files \in Due \union {{}}
         /\ Due' = Due \ {task[h].files}
<1>1. \A g \in Handlers \ {h} : task[g].files \intersect task[h].files = {}
  BY DEF LedgerInv, IInv, Disjoint
<1> QED BY <1>1, Memberships, NextMemberships

LEMMA BeginPostLedger ==
  ASSUME LedgerInv, IInv', NEW h \in Handlers, BeginPost(h)
  PROVE  LedgerInv' /\ [Ledger!Next]_Ledger!vars
<1>1. PICK files \in Uploads, snap \in Snapshots :
        /\ files \intersect Known = {}
        /\ task[h].pc = "idle"
        /\ Become(h, [[Idle EXCEPT !.action = "New", !.pc = "upload", !.files = files,
                                   !.todo = files] EXCEPT !.snap = snap])
  BY DEF BeginPost, Begin
<1>2. /\ task'[h].pc = "upload" /\ task'[h].files = files
      /\ \A g \in Handlers \ {h} : task'[g] = task[g]
  BY <1>1, LedgerFacts DEF Become, Idle, LedgerInv, IInv, TypeOK
<1>3. UNCHANGED <<message, images, erasing, removed, torn, heard, posts>>
  BY DEF BeginPost, told
<1>4. LedgerInv'
  BY <1>2, <1>3, LedgerKeeps DEF LedgerInv, LedgerTask
<1>5. Due' = Due \union ({files} \ {{}})
  BY <1>1, <1>2, Memberships, NextMemberships DEF Pending
<1>6. Doomed' = Doomed
  BY <1>3 DEF Doomed
<1>7. CASE files = {}
  BY <1>3, <1>4, <1>5, <1>6, <1>7 DEF Ledger!vars
<1>8. CASE files # {}
  <2>1. files \intersect (images \union Ledger!Claimed) = {}
    <3>1. \A a \in files : /\ a \notin images \union erasing \union torn
                           /\ \A m \in Ids : a \notin message[m].attachments
                           /\ \A g \in Handlers : a \notin task[g].files
      BY <1>1 DEF Known
    <3>2. removed \subseteq Ids
      BY DEF LedgerInv, IInv, TypeOK
    <3> QED BY <3>1, <3>2, Memberships DEF Ledger!Claimed
  <2>2. Ledger!Claim(files)
    BY <1>3, <1>5, <1>6, <1>8, <2>1 DEF Ledger!Claim
  <2> QED BY <1>4, <2>2, UploadsAssumption DEF Ledger!Next
<1> QED BY <1>7, <1>8

LEMMA UploadDoneLedger ==
  ASSUME LedgerInv, IInv', NEW a \in Assets, UploadDone(a)
  PROVE  LedgerInv' /\ [Ledger!Next]_Ledger!vars
<1>1. /\ a \in uploading /\ images' = images \union {a}
      /\ UNCHANGED <<message, erasing, removed, torn, heard, posts>>
  BY DEF UploadDone, told, history
<1>2. \A h \in Handlers :
        /\ task'[h].pc = task[h].pc /\ task'[h].files = task[h].files
        /\ task'[h].msg = task[h].msg /\ task'[h].action = task[h].action
  BY LedgerFacts DEF UploadDone, Task
<1>3. LedgerInv'
  BY <1>1, <1>2 DEF LedgerInv, LedgerTask
<1>4. Due' = Due /\ Doomed' = Doomed
  BY <1>1, <1>2, DueKept DEF Doomed
<1>5. a \in (UNION Due) \union torn
  <2>1. a \in torn \/ \E h \in Handlers : a \in task[h].todo
    BY <1>1 DEF LedgerInv, IInv, CollectionInv
  <2>2. ASSUME NEW h \in Handlers, a \in task[h].todo
        PROVE  task[h].pc \in Pending /\ a \in task[h].files
    BY <2>2, LedgerFacts DEF Shape, Pending
  <2> QED BY <2>1, <2>2, Memberships
<1>6. Ledger!Arrive(a)
  BY <1>1, <1>4, <1>5 DEF Ledger!Arrive
<1> QED BY <1>3, <1>6 DEF Ledger!Next

LEMMA UploadErrsLedger ==
  ASSUME LedgerInv, IInv', NEW h \in Handlers, UploadErrs(h)
  PROVE  LedgerInv' /\ [Ledger!Next]_Ledger!vars
<1>1. /\ task[h].todo # {} /\ torn' = torn \union task[h].files
      /\ UNCHANGED <<message, images, erasing, removed, heard, posts>>
  BY DEF UploadErrs, Fault, told
<1>2. /\ task'[h] = Idle /\ \A g \in Handlers \ {h} : task'[g] = task[g]
  BY IdleTask, Becomes DEF UploadErrs, Leave, LedgerInv, IInv
<1>3. task[h].pc = "upload" /\ task[h].files # {} /\ task[h].files \subseteq Assets
  BY <1>1, LedgerFacts DEF Shape, Task
<1>4. LedgerInv'
  <2>1. torn' \subseteq Assets \union 1..posts'
    BY <1>1, <1>3 DEF LedgerInv
  <2>2. \A g \in Handlers \ {h} :
          task[g].pc \in {"hook", "insert"} => task[g].msg \notin torn' \ torn
    <3>1. \A g \in Handlers : task[g].pc \in {"hook", "insert"} => task[g].msg \notin Assets
      BY LedgerFacts
    <3> QED BY <1>1, <1>3, <3>1
  <2>3. LedgerTask(task'[h], torn', removed')
    BY <1>2, IdleTask, IdleMsg DEF LedgerTask
  <2> QED BY <1>1, <1>2, <2>1, <2>2, <2>3, LedgerKeeps
<1>5. task[h].files \in Due /\ Due' = Due \ {task[h].files}
  <2>1. task[h].pc \in Pending /\ task'[h].pc \notin Pending
    BY <1>2, <1>3, IdleTask DEF Pending
  <2> QED BY <1>2, <1>3, <2>1, DueLeft
<1>6. Ledger!UploadFails
  BY <1>1, <1>5 DEF Ledger!UploadFails, Doomed
<1> QED BY <1>4, <1>6 DEF Ledger!Next

(* The steps the ledger does not see.                                      *)
LEMMA LedgerUnseen ==
  ASSUME LedgerInv, IInv', NEW h \in Handlers,
         Create(h) \/ HookWritesLast(h) \/ BeginModify(h) \/ UpdateRefused(h)
  PROVE  LedgerInv' /\ UNCHANGED Ledger!vars
<1>1. UNCHANGED <<message, images, erasing, removed, torn, heard>>
  BY DEF Create, HookWritesLast, BeginModify, UpdateRefused, data, told, history
<1>2. /\ \A g \in Handlers \ {h} : task'[g] = task[g]
      /\ task'[h].pc \in Pending <=> task[h].pc \in Pending
      /\ task[h].pc \in Pending => task'[h].files = task[h].files
      /\ task'[h].pc \notin {"empty", "announce"}
      /\ task'[h].pc = "idle" => task'[h].msg = None
      /\ task'[h].pc \in {"hook", "insert"} => task'[h].msg \notin torn
      /\ posts' \in {posts, posts + 1}
  <2>1. task \in [Handlers -> Task] /\ task[h] \in Task /\ posts \in Nat
    BY BoundsAssumption DEF LedgerInv, IInv, TypeOK
  <2>2. CASE Create(h)
    <3>1. posts + 1 \notin torn
      <4>1. posts + 1 \in Nat /\ posts + 1 \notin 1..posts
        BY <2>1
      <4> QED BY <4>1, AssetsAssumption DEF LedgerInv
    <3> QED BY <2>1, <2>2, <3>1 DEF Create, Become, Task, Pending
  <2>3. CASE HookWritesLast(h)
    <3>1. task[h].pc = "hook" /\ task[h].msg \notin torn
      BY <2>3, LedgerFacts DEF HookWritesLast, LedgerTask
    <3> QED BY <2>1, <2>3, <3>1 DEF HookWritesLast, Goto, Become, Task, Pending
  <2>4. CASE BeginModify(h)
    BY <2>1, <2>4 DEF BeginModify, Begin, Become, Idle, Pending
  <2>5. CASE UpdateRefused(h)
    BY <2>1, <2>5 DEF UpdateRefused, Leave, Become, Idle, Pending
  <2> QED BY <2>2, <2>3, <2>4, <2>5
<1>3. LedgerInv'
  <2>1. 1..posts \subseteq 1..posts'
    BY <1>2, BoundsAssumption DEF LedgerInv, IInv, TypeOK
  <2>2. LedgerTask(task'[h], torn', removed')
    BY <1>1, <1>2 DEF LedgerTask
  <2>3. torn' \subseteq Assets \union 1..posts'
    BY <1>1, <2>1 DEF LedgerInv
  <2> QED BY <1>1, <1>2, <2>2, <2>3, LedgerKeeps
<1>4. Due' = Due /\ Doomed' = Doomed
  BY <1>1, <1>2, DueKept DEF Doomed
<1> QED BY <1>1, <1>3, <1>4 DEF Ledger!vars

(* What is doomed is forgotten only when no message names it, and was      *)
(* destroyed or torn.                                                      *)
LEMMA NotAttached ==
  ASSUME LedgerInv, NEW a \in erasing, NEW m \in Ids \ removed
  PROVE  a \notin message[m].attachments
BY DEF LedgerInv, IInv, CollectionInv

LEMMA InsertLedger ==
  ASSUME LedgerInv, IInv', NEW h \in Handlers, InsertMessage(h)
  PROVE  LedgerInv' /\ [Ledger!Next]_Ledger!vars
<1> DEFINE m == task[h].msg
           F == task[h].files
<1>1. /\ task[h].pc = "insert" /\ Insert(task[h])
      /\ UNCHANGED <<images, erasing, removed, torn, heard, posts>>
  BY DEF InsertMessage, told, history
<1>2. /\ task'[h].pc = "announce" /\ task'[h].action = task[h].action
      /\ \A g \in Handlers \ {h} : task'[g] = task[g]
  BY Goes DEF InsertMessage, LedgerInv, IInv
<1>3. /\ m \in Ids \ Ever /\ message[m] = Absent /\ F \subseteq images
      /\ \A n \in Ids \ {m} : message'[n] = message[n]
  BY <1>1, Inserted DEF LedgerInv
<1>4. /\ task[h].pc \in Pending /\ task[h].action = "New" /\ m \notin torn
      /\ m \notin removed /\ removed \subseteq Ids
  BY <1>1, <1>3, LedgerFacts DEF Shape, LedgerTask, Pending, LedgerInv, IInv, CollectionInv, TypeOK
<1>5. LedgerInv'
  BY <1>1, <1>2, <1>4, LedgerKeeps DEF LedgerInv, LedgerTask
<1>6. F \in Due \union {{}} /\ Due' = Due \ {F}
  BY <1>2, <1>4, DueLeft DEF Pending
<1>7. Doomed' = Doomed
  BY <1>1, <1>3, <1>4, Memberships, NextMemberships
<1>8. Ledger!Insert(m, F)
  BY <1>1 DEF Insert, Ledger!Insert
<1> HIDE DEF m, F
<1>9. Ledger!Keep(m)
  BY <1>1, <1>3, <1>4, <1>6, <1>7, <1>8 DEF Ledger!Keep, Absent, Ledger!Absent
<1> QED BY <1>3, <1>5, <1>9 DEF Ledger!Next

(* An update of a message, with the answer or without: what a removal is   *)
(* about to erase is doomed by it already.                                 *)
LEMMA UpdatedLedger ==
  ASSUME LedgerInv, NEW h \in Handlers, task[h].pc = "update", Found(task[h]),
         Update(task[h]),
         erasing' = erasing \/ erasing' = erasing \union ToErase(task[h])
  PROVE  /\ Ledger!There(task[h].msg) /\ Ledger!Change(task[h].msg, task[h].action)
         /\ task[h].msg \in Ids /\ task[h].action \in {"Edited", "Removed"}
<1> DEFINE m == task[h].msg
<1>1. /\ m \in InCollection /\ m \in Ids /\ task[h].action \in {"Edited", "Removed"}
      /\ \A n \in Ids : message'[n].attachments = message[n].attachments
      /\ removed' = removed \union (IF task[h].action = "Removed" THEN {m} ELSE {})
      /\ removed \subseteq Ids
  BY Updated DEF LedgerInv, IInv, TypeOK, Found
<1>2. message' = [message EXCEPT ![m].action = task[h].action]
  BY DEF Update
<1>3. task[h].action # "Removed" => Doomed' = Doomed
  BY <1>1, Memberships, NextMemberships DEF ToErase
<1>4. task[h].action = "Removed" => Doomed' = Doomed \union message[m].attachments
  BY <1>1, Memberships, NextMemberships DEF ToErase
<1>5. Ledger!Change(m, task[h].action)
  BY <1>1, <1>2, <1>3, <1>4 DEF Ledger!Change
<1> QED BY <1>1, <1>5 DEF Ledger!There, Ledger!WasStored, InCollection

LEMMA UpdateLedger ==
  ASSUME LedgerInv, IInv', NEW h \in Handlers, UpdateMessage(h)
  PROVE  LedgerInv' /\ [Ledger!Next]_Ledger!vars
<1> DEFINE m == task[h].msg
<1>1. /\ task[h].pc = "update" /\ Found(task[h]) /\ Update(task[h])
      /\ erasing' = erasing \union ToErase(task[h])
      /\ UNCHANGED <<images, torn, heard, posts>>
  BY DEF UpdateMessage, told
<1>2. /\ task'[h].pc \in {"empty", "announce"} /\ task'[h].action = task[h].action
      /\ task'[h].msg = m
      /\ task'[h].pc = "empty" => task[h].action = "Removed"
      /\ \A g \in Handlers \ {h} : task'[g] = task[g]
  <2>1. AfterUpdate(task[h]) \in {"empty", "announce"}
    BY DEF AfterUpdate
  <2>2. AfterUpdate(task[h]) = "empty" => task[h].action = "Removed"
    BY DEF AfterUpdate, ToErase
  <2> QED BY <2>1, <2>2, Goes DEF UpdateMessage, LedgerInv, IInv
<1>3. /\ Ledger!There(m) /\ Ledger!Change(m, task[h].action)
      /\ m \in Ids /\ task[h].action \in {"Edited", "Removed"}
  BY <1>1, UpdatedLedger
<1>4. removed' = removed \union (IF task[h].action = "Removed" THEN {m} ELSE {})
  BY <1>1 DEF Update
<1>5. LedgerInv'
  <2>1. LedgerTask(task'[h], torn', removed')
    BY <1>2, <1>4 DEF LedgerTask
  <2> QED BY <1>1, <1>2, <1>4, <2>1, LedgerKeeps DEF LedgerInv
<1>6. Due' = Due
  BY <1>1, <1>2, DueKept DEF Pending
<1> HIDE DEF m
<1>7. Ledger!Modify(m, task[h].action)
  BY <1>1, <1>3, <1>6 DEF Ledger!Modify
<1> QED BY <1>3, <1>5, <1>7 DEF Ledger!Next, Ledger!Actions

(* A list is emptied, with the answer or without, unless the message has   *)
(* expired.                                                                *)
LEMMA StripLedger ==
  ASSUME LedgerInv, NEW h \in Handlers, task[h].pc = "empty", Empty(task[h]),
         UNCHANGED <<images, erasing, removed>>, torn \subseteq torn'
  PROVE  /\ task[h].msg \in removed /\ task[h].msg \in Ids
         /\ Ledger!Strip(task[h].msg) \/ UNCHANGED message
<1> DEFINE m == task[h].msg
<1>1. /\ m \in Ids /\ m \in removed /\ removed \subseteq Ids /\ message \in [Ids -> Stored]
      /\ message[m].attachments \intersect images \subseteq erasing \union torn
  BY LedgerFacts DEF LedgerTask, PlaceInv, IInv, TypeOK
<1> SUFFICES ASSUME m \in InCollection PROVE Ledger!Strip(m)
  BY <1>1 DEF Empty
<1>2. message' = [message EXCEPT ![m].attachments = {}]
  BY DEF Empty
<1>3. /\ message'[m].attachments = {}
      /\ \A n \in Ids \ {m} : message'[n] = message[n]
  BY <1>1, <1>2 DEF Stored
<1>4. Doomed' \subseteq Doomed
  BY <1>1, <1>3, Memberships, NextMemberships
<1>5. ASSUME NEW a \in Doomed \ Doomed'
      PROVE  a \notin Ledger!Named' /\ (a \in images' => a \in torn')
  <2>1. a \notin erasing /\ a \in message[m].attachments
    BY <1>1, <1>3, <1>5, Memberships, NextMemberships
  <2>2. \A n \in Ids \ {m} : a \notin message[n].attachments
    BY <1>1, <2>1 DEF LedgerInv, IInv, Disjoint
  <2> QED BY <1>1, <1>3, <2>1, <2>2, NextMemberships
<1>6. Ledger!Forgets
  BY <1>4, <1>5 DEF Ledger!Forgets
<1> QED BY <1>1, <1>2, <1>6 DEF Ledger!Strip

LEMMA EmptyLedger ==
  ASSUME LedgerInv, IInv', NEW h \in Handlers, EmptyAttachments(h)
  PROVE  LedgerInv' /\ [Ledger!Next]_Ledger!vars
<1> DEFINE m == task[h].msg
<1>1. /\ task[h].pc = "empty" /\ Empty(task[h])
      /\ UNCHANGED <<images, erasing, removed, torn, heard, posts>>
  BY DEF EmptyAttachments, told, history
<1>2. /\ task'[h].pc = "announce" /\ task'[h].msg = m
      /\ \A g \in Handlers \ {h} : task'[g] = task[g]
  BY Goes DEF EmptyAttachments, LedgerInv, IInv
<1>3. m \in removed /\ m \in Ids /\ (Ledger!Strip(m) \/ UNCHANGED message)
  BY <1>1, StripLedger
<1>4. LedgerInv'
  <2>1. LedgerTask(task'[h], torn', removed')
    BY <1>1, <1>2, <1>3 DEF LedgerTask
  <2> QED BY <1>1, <1>2, <2>1, LedgerKeeps DEF LedgerInv
<1>5. Due' = Due
  BY <1>1, <1>2, DueKept DEF Pending
<1> HIDE DEF m
<1>6. CASE Ledger!Strip(m)
  <2>1. Ledger!Empty(m)
    BY <1>1, <1>3, <1>5, <1>6 DEF Ledger!Empty
  <2> QED BY <1>3, <1>4, <2>1 DEF Ledger!Next
<1>7. CASE UNCHANGED message
  <2>1. Doomed' = Doomed
    BY <1>1, <1>7 DEF Doomed
  <2> QED BY <1>1, <1>4, <1>5, <1>7, <2>1 DEF Ledger!vars
<1> QED BY <1>3, <1>6, <1>7

LEMMA AnnounceLedger ==
  ASSUME LedgerInv, IInv', NEW h \in Handlers, Announce(h)
  PROVE  LedgerInv' /\ [Ledger!Next]_Ledger!vars
<1> DEFINE m == task[h].msg
<1>1. /\ task[h].pc = "announce" /\ heard' = [heard EXCEPT ![m] = task[h].action]
      /\ UNCHANGED <<message, images, erasing, removed, torn, posts>>
  BY DEF Announce, Tells, data, history
<1>2. task'[h] = Idle /\ \A g \in Handlers \ {h} : task'[g] = task[g]
  BY IdleTask, Becomes DEF Announce, Leave, LedgerInv, IInv
<1>3. /\ m \in Ids /\ message[m].action # "none" /\ task[h].action \in Actions
      /\ task[h].action = "Removed" => m \in removed
  <2>1. /\ m \in Ids /\ message[m] # Absent /\ task[h].action \in Actions
        /\ task[h].action = "Removed" => m \in removed
    BY <1>1, LedgerFacts DEF PlaceInv, LedgerTask, Shape, Task
  <2> QED BY <2>1 DEF LedgerInv, IInv, CollectionInv
<1>4. LedgerInv'
  <2>1. LedgerTask(task'[h], torn', removed')
    BY <1>2, IdleTask, IdleMsg DEF LedgerTask
  <2> QED BY <1>1, <1>2, <2>1, LedgerKeeps DEF LedgerInv
<1>5. Due' = Due /\ Doomed' = Doomed
  BY <1>1, <1>2, IdleTask, DueKept DEF Pending, Doomed
<1> HIDE DEF m
<1>6. Ledger!Tell(m, task[h].action)
  BY <1>1, <1>3, <1>5 DEF Ledger!Tell, Ledger!WasStored
<1> QED BY <1>3, <1>4, <1>6 DEF Ledger!Next, Ledger!Actions, Actions

(* The store destroys an image, or fails to.                               *)
LEMMA EraseLedger ==
  ASSUME LedgerInv, IInv', NEW a \in Assets, EraseDone(a) \/ EraseErrs(a)
  PROVE  LedgerInv' /\ [Ledger!Next]_Ledger!vars
<1>1. /\ a \in erasing /\ erasing' = erasing \ {a}
      /\ UNCHANGED <<message, task, removed, heard, posts>>
      /\ \/ images' = images \ {a} /\ torn' = torn
         \/ images' = images /\ torn' = torn \union {a}
  BY DEF EraseDone, EraseErrs, Fault, told, history
<1>2. LedgerInv'
  BY <1>1, LedgerFacts DEF LedgerInv, LedgerTask
<1>3. Due' = Due
  BY <1>1, DueKept
<1>4. a \in Doomed
  BY <1>1, Memberships
<1>5. Ledger!Forgets
  <2>1. Doomed' \subseteq Doomed
    BY <1>1, Memberships, NextMemberships
  <2>2. ASSUME NEW b \in Doomed \ Doomed' PROVE b = a
    BY <1>1, <2>2, Memberships, NextMemberships
  <2>3. ASSUME NEW b \in Doomed \ Doomed', NEW m \in Ids PROVE b \notin message'[m].attachments
    BY <1>1, <2>2, <2>3, NotAttached, NextMemberships
  <2>4. a \in images' => a \in torn'
    BY <1>1
  <2> QED BY <2>1, <2>2, <2>3, <2>4, NextMemberships DEF Ledger!Forgets
<1>6. Ledger!Erase(a) \/ Ledger!EraseFails(a)
  BY <1>1, <1>3, <1>4, <1>5 DEF Ledger!Erase, Ledger!EraseFails
<1> QED BY <1>2, <1>6 DEF Ledger!Next

(* What a handler at a write tears by failing there.                       *)
LEMMA WriteErrsTears ==
  ASSUME LedgerInv, IInv', NEW h \in Handlers, WriteErrs(h)
  PROVE  /\ LedgerInv'
         /\ torn' = torn \union task[h].files \union {task[h].msg}
                         \union message[task[h].msg].attachments
         /\ task'[h] = Idle /\ \A g \in Handlers \ {h} : task'[g] = task[g]
         /\ UNCHANGED <<images, erasing, heard>>
         /\ task[h].pc \in {"hook", "insert", "update", "empty"}
<1> DEFINE m == task[h].msg
<1>1. /\ task[h].pc \in {"hook", "insert", "update", "empty"}
      /\ torn' = torn \union (task[h].files \union {m} \union message[m].attachments)
      /\ UNCHANGED <<images, erasing, heard, posts>>
      /\ task[h].pc = "update" => Found(task[h])
  BY DEF WriteErrs, Fault, told
<1>2. task'[h] = Idle /\ \A g \in Handlers \ {h} : task'[g] = task[g]
  BY IdleTask, Becomes DEF WriteErrs, Leave, LedgerInv, IInv
<1>3. /\ m \in 1..posts /\ m \in Ids
      /\ task[h].files \union message[m].attachments \subseteq Assets
  BY <1>1, LedgerFacts, Numbers DEF Shape, Task, Stored
<1>4. removed \subseteq removed'
  BY DEF WriteErrs, Update
<1>5. torn' \subseteq Assets \union 1..posts'
  BY <1>1, <1>3 DEF LedgerInv
<1>6. ASSUME NEW g \in Handlers \ {h}, task[g].pc \in {"hook", "insert"}
      PROVE  task[g].msg \notin torn' \ torn
  <2>1. task[g].msg \in Ids /\ message[task[g].msg] = Absent
    BY <1>6, LedgerFacts DEF PlaceInv
  <2>2. task[g].msg # m
    <3>1. CASE task[h].pc \in {"hook", "insert"}
      BY <1>6, <3>1 DEF LedgerInv, IInv, Disjoint
    <3>2. CASE task[h].pc = "update"
      BY <1>1, <2>1, <3>2 DEF Found, InCollection, Absent
    <3>3. CASE task[h].pc = "empty"
      BY <2>1, <3>3, LedgerFacts DEF PlaceInv
    <3> QED BY <1>1, <3>1, <3>2, <3>3
  <2>3. task[g].msg \notin Assets
    BY <2>1, LedgerFacts
  <2> QED BY <1>1, <1>3, <2>2, <2>3
<1>7. LedgerTask(task'[h], torn', removed')
  BY <1>2, IdleTask, IdleMsg DEF LedgerTask
<1>8. LedgerInv'
  BY <1>2, <1>4, <1>5, <1>6, <1>7, LedgerKeeps
<1> QED BY <1>1, <1>2, <1>8

LEMMA WriteErrsLedger ==
  ASSUME LedgerInv, IInv', NEW h \in Handlers, WriteErrs(h)
  PROVE  LedgerInv' /\ [Ledger!Next]_Ledger!vars
<1> DEFINE m == task[h].msg
           F == task[h].files
<1>1. /\ LedgerInv' /\ torn' = torn \union F \union {m} \union message[m].attachments
      /\ task'[h] = Idle /\ \A g \in Handlers \ {h} : task'[g] = task[g]
      /\ UNCHANGED <<images, erasing, heard>> /\ m \in Ids
      /\ task[h].pc \in {"hook", "insert", "update", "empty"}
  BY WriteErrsTears, LedgerFacts
<1>2. CASE task[h].pc \in {"hook", "insert"}
  <2>1. /\ message[m] = Absent /\ m \notin torn /\ task[h].pc \in Pending
        /\ m \notin Ever
    BY <1>1, <1>2, LedgerFacts DEF PlaceInv, LedgerTask, Pending, Ever, Absent
  <2>2. torn' = torn \union F \union {m}
    BY <1>1, <2>1 DEF Absent
  <2>3. F \in Due \union {{}} /\ Due' = Due \ {F}
    BY <1>1, <2>1, IdleTask, DueLeft DEF Pending
  <2>4. /\ removed' = removed /\ m \notin removed /\ removed \subseteq Ids
        /\ message' = message \/ Insert(task[h])
        /\ message' # message => task[h].pc = "insert"
    BY <1>2, <2>1 DEF WriteErrs, LedgerInv, IInv, CollectionInv, TypeOK
  <2>5. message' # message => F \subseteq images /\ Ledger!Insert(m, F)
    BY <2>4, Inserted DEF LedgerInv, Insert, Ledger!Insert
  <2>6. Doomed' = Doomed
    <3>1. \A n \in removed : message'[n] = message[n]
      BY <2>4, Inserted DEF LedgerInv
    <3> QED BY <1>1, <2>4, <3>1, Memberships, NextMemberships
  <2> HIDE DEF m, F
  <2>7. Ledger!PostFails(m)
    BY <1>1, <2>1, <2>2, <2>3, <2>4, <2>5, <2>6 DEF Ledger!PostFails, Absent, Ledger!Absent
  <2> QED BY <1>1, <2>7 DEF Ledger!Next
<1>3. CASE task[h].pc \in {"update", "empty"}
  <2>1. F = {} /\ task[h].pc \notin Pending
    BY <1>3, LedgerFacts DEF Shape, Pending
  <2>2. torn' = torn \union {m} \union message[m].attachments
    BY <1>1, <2>1
  <2>3. Due' = Due
    BY <1>1, <2>1, IdleTask, DueKept DEF Pending
  <2>4. Ledger!WasStored(m)
    <3>1. message[m] # Absent \/ m \in InCollection
      BY <1>3, LedgerFacts DEF PlaceInv, WriteErrs, Found
    <3> QED BY <1>1, <3>1 DEF LedgerInv, IInv, CollectionInv, InCollection, Ledger!WasStored
  <2>5. \/ UNCHANGED <<message, removed>>
        \/ task[h].pc = "update" /\ Found(task[h]) /\ Update(task[h])
        \/ task[h].pc = "empty" /\ Empty(task[h]) /\ removed' = removed
    BY <1>3 DEF WriteErrs
  <2>6. CASE UNCHANGED <<message, removed>>
    <3>1. Doomed' = Doomed
      BY <1>1, <2>6 DEF Doomed
    <3> HIDE DEF m, F
    <3>2. Ledger!ModifyFails(m)
      BY <1>1, <2>2, <2>3, <2>4, <2>6, <3>1 DEF Ledger!ModifyFails
    <3> QED BY <1>1, <3>2 DEF Ledger!Next
  <2>7. CASE task[h].pc = "update" /\ Found(task[h]) /\ Update(task[h])
    <3>1. /\ Ledger!There(m) /\ Ledger!Change(m, task[h].action)
          /\ task[h].action \in {"Edited", "Removed"}
      BY <1>1, <2>7, UpdatedLedger
    <3> HIDE DEF m, F
    <3>2. Ledger!ModifyFails(m)
      BY <1>1, <2>2, <2>3, <2>4, <3>1 DEF Ledger!ModifyFails
    <3> QED BY <1>1, <3>2 DEF Ledger!Next
  <2>8. CASE task[h].pc = "empty" /\ Empty(task[h]) /\ removed' = removed
    <3>1. m \in removed /\ (Ledger!Strip(m) \/ UNCHANGED message)
      BY <1>1, <2>2, <2>8, StripLedger
    <3> HIDE DEF m, F
    <3>2. UNCHANGED message => Doomed' = Doomed
      BY <1>1, <2>8 DEF Doomed
    <3>3. Ledger!ModifyFails(m)
      BY <1>1, <2>2, <2>3, <2>4, <2>8, <3>1, <3>2 DEF Ledger!ModifyFails
    <3> QED BY <1>1, <3>3 DEF Ledger!Next
  <2> QED BY <2>5, <2>6, <2>7, <2>8
<1> QED BY <1>1, <1>2, <1>3

(* A file a handler holds when the process stops is awaited, doomed or     *)
(* torn, or is that of the message the handler has yet to tell.            *)
LEMMA HeldFiles ==
  ASSUME LedgerInv, NEW h \in Handlers, NEW a \in task[h].files, a \in images
  PROVE  \/ a \in (UNION Due) \union Doomed \union torn
         \/ task[h].msg \in Ids /\ a \in message[task[h].msg].attachments
<1>1. CASE task[h].pc \in Pending
  BY <1>1, Memberships
<1>2. CASE task[h].pc \notin Pending
  <2>1. task[h].pc = "announce" /\ task[h].msg \in Ids
    BY <1>2, LedgerFacts DEF Shape, Task, Pending
  <2>2. CASE \E m \in Ids : a \in message[m].attachments
    BY <2>2 DEF LedgerInv, IInv, Disjoint
  <2>3. CASE \E g \in Handlers : task[g].pc \in Pending /\ a \in task[g].files
    BY <2>3, Memberships
  <2>4. CASE a \in erasing \union torn
    BY <2>4, Memberships
  <2> QED BY <2>2, <2>3, <2>4 DEF LedgerInv, IInv, Accounted
<1> QED BY <1>1, <1>2

LEMMA CrashLedger ==
  ASSUME LedgerInv, IInv', Crash
  PROVE  LedgerInv' /\ [Ledger!Next]_Ledger!vars
<1> DEFINE Held == UNION {task[h].files \union ({task[h].msg} \ {None}) : h \in Handlers}
<1>1. /\ torn' = torn \union (uploading \union erasing \union Held)
      /\ erasing' = {} /\ task' = [h \in Handlers |-> Idle]
      /\ UNCHANGED <<message, removed, heard, posts>>
      /\ \E sent \in SUBSET uploading, gone \in SUBSET erasing :
            images' = (images \union sent) \ gone
  BY DEF Crash, Fault, told
<1>2. \A h \in Handlers : task'[h].pc = "idle" /\ task'[h].msg = None
  BY <1>1, IdleTask, IdleMsg
<1>3. ASSUME NEW a \in Held
      PROVE  \E h \in Handlers : a \in task[h].files \/ (a = task[h].msg /\ a # None)
  BY <1>3
<1>4. \A h \in Handlers : /\ task[h].files \subseteq Held
                          /\ task[h].msg # None => task[h].msg \in Held
  OBVIOUS
<1> HIDE DEF Held
<1>5. ASSUME NEW h \in Handlers, task[h].msg # None PROVE task[h].msg \in 1..posts
  BY <1>5, LedgerFacts DEF Shape, LedgerTask
<1>6. uploading \subseteq (UNION Due) \union torn
  <2> SUFFICES ASSUME NEW a \in uploading \ torn PROVE a \in UNION Due
    OBVIOUS
  <2>1. PICK h \in Handlers : a \in task[h].todo
    BY DEF LedgerInv, IInv, CollectionInv
  <2>2. task[h].pc \in Pending /\ a \in task[h].files
    BY <2>1, LedgerFacts DEF Shape, Pending
  <2> QED BY <2>2, Memberships
<1>7. LedgerInv'
  <2>1. Held \subseteq Assets \union 1..posts
    BY <1>3, <1>5, LedgerFacts DEF Task
  <2>2. uploading \union erasing \subseteq Assets
    BY DEF LedgerInv, IInv, TypeOK
  <2>3. torn' \subseteq Assets \union 1..posts'
    BY <1>1, <2>1, <2>2 DEF LedgerInv
  <2> QED BY <1>2, <2>3 DEF LedgerInv, LedgerTask
<1>8. Due' = {}
  BY <1>2, NextMemberships DEF Pending
<1>9. torn \union (UNION Due) \subseteq torn' /\ torn' \subseteq Assets \union Ids
  <2>1. UNION Due \subseteq Held
    BY <1>4, Memberships
  <2> QED BY <1>1, <1>7, <2>1 DEF LedgerInv, IInv, TypeOK
<1>10. ASSUME NEW a \in (torn' \ torn) \intersect images
       PROVE  a \in (UNION Due) \union Doomed
                    \union UNION {message[m].attachments : m \in torn' \intersect Ids}
  <2>1. a \in Assets
    BY DEF LedgerInv, IInv, TypeOK
  <2>2. CASE a \in uploading
    BY <1>6, <2>2
  <2>3. CASE a \in erasing
    BY <2>3, Memberships
  <2>4. CASE a \in Held
    <3>1. PICK h \in Handlers : a \in task[h].files \/ (a = task[h].msg /\ a # None)
      BY <1>3, <2>4
    <3>2. a \in task[h].files
      <4>1. 1..posts \subseteq Ids
        BY Numbers DEF LedgerInv, IInv
      <4> QED BY <1>5, <2>1, <3>1, <4>1, LedgerFacts
    <3>3. CASE a \in (UNION Due) \union Doomed
      BY <3>3
    <3>4. CASE task[h].msg \in Ids /\ a \in message[task[h].msg].attachments
      <4>1. task[h].msg \in torn' \intersect Ids
        BY <1>1, <1>4, <3>4, Numbers DEF LedgerInv, IInv
      <4> QED BY <3>4, <4>1
    <3> QED BY <3>2, <3>3, <3>4, HeldFiles
  <2> QED BY <1>1, <2>2, <2>3, <2>4
<1>11. /\ images \ Doomed \subseteq images'
       /\ images' \subseteq images \union (UNION Due) \union torn
  <2>1. erasing \subseteq Doomed
    BY Memberships
  <2> QED BY <1>1, <1>6, <2>1
<1>12. Ledger!Forgets
  <2>1. Doomed' \subseteq Doomed
    BY <1>1, Memberships, NextMemberships
  <2>2. ASSUME NEW a \in Doomed \ Doomed'
        PROVE  a \in torn' /\ a \notin Ledger!Named'
    <3>1. a \in erasing /\ \A m \in removed : a \notin message[m].attachments
      BY <1>1, <2>2, Memberships, NextMemberships
    <3>2. \A m \in Ids : a \notin message[m].attachments
      BY <3>1, NotAttached
    <3> QED BY <1>1, <3>1, <3>2, NextMemberships
  <2> QED BY <2>1, <2>2 DEF Ledger!Forgets
<1>13. Ledger!Stop
  BY <1>1, <1>8, <1>9, <1>10, <1>11, <1>12 DEF Ledger!Stop
<1> QED BY <1>7, <1>13 DEF Ledger!Next

(* A message expires: what it had attached keeps its claim.                *)
LEMMA ExpireLedger ==
  ASSUME LedgerInv, IInv', NEW m \in Ids, Expire(m)
  PROVE  LedgerInv' /\ [Ledger!Next]_Ledger!vars
<1>1. /\ UNCHANGED <<images, erasing, removed, torn, heard, task, posts>>
      /\ m \in InCollection /\ message' = [message EXCEPT ![m].action = "gone"]
  BY DEF Expire, told, history
<1>2. \A n \in Ids : message'[n].attachments = message[n].attachments
  BY Expired DEF LedgerInv
<1>3. LedgerInv'
  BY <1>1 DEF LedgerInv, LedgerTask
<1>4. Due' = Due /\ Doomed' = Doomed
  <2>1. removed \subseteq Ids
    BY DEF LedgerInv, IInv, TypeOK
  <2> QED BY <1>1, <1>2, <2>1, DueKept, Memberships, NextMemberships
<1>5. Ledger!Expire(m)
  BY <1>1, <1>4 DEF Ledger!Expire, Ledger!There, Ledger!WasStored, InCollection
<1> QED BY <1>3, <1>5 DEF Ledger!Next

LEMMA StutterLedger ==
  ASSUME LedgerInv, IInv', UNCHANGED vars
  PROVE  LedgerInv' /\ UNCHANGED Ledger!vars
<1>1. UNCHANGED <<message, images, erasing, removed, torn, heard, task, posts>>
  BY DEF vars, data, told, history
<1> QED BY <1>1 DEF LedgerInv, Due, Doomed, Ledger!vars

LEMMA InitLedger ==
  ASSUME Init PROVE LedgerInv /\ Ledger!Init
<1>1. /\ message = [m \in Ids |-> Absent] /\ heard = [m \in Ids |-> "none"]
      /\ images = {} /\ erasing = {} /\ removed = {} /\ torn = {}
      /\ \A h \in Handlers : task[h] = Idle
  BY DEF Init
<1>2. LedgerInv
  BY <1>1, InitInv, IdleTask, IdleMsg DEF LedgerInv, LedgerTask
<1>3. Due = {} /\ Doomed = {}
  BY <1>1, IdleTask, Memberships DEF Pending
<1> QED BY <1>1, <1>2, <1>3 DEF Ledger!Init, Absent, Ledger!Absent

LEMMA NextLedger ==
  ASSUME LedgerInv, [Next]_vars
  PROVE  LedgerInv' /\ [Ledger!Next]_Ledger!vars
<1>1. IInv'
  BY NextInv DEF LedgerInv
<1>2. ASSUME NEW h \in Handlers, BeginPost(h) \/ BeginModify(h) \/ UploadErrs(h) \/ WriteErrs(h)
      PROVE  LedgerInv' /\ [Ledger!Next]_Ledger!vars
  BY <1>1, <1>2, BeginPostLedger, LedgerUnseen, UploadErrsLedger, WriteErrsLedger
<1>3. ASSUME NEW h \in Handlers, Step(h)
      PROVE  LedgerInv' /\ [Ledger!Next]_Ledger!vars
  BY <1>1, <1>3, LedgerUnseen, InsertLedger, UpdateLedger, EmptyLedger, AnnounceLedger DEF Step
<1>4. ASSUME NEW a \in Assets, UploadDone(a) \/ EraseDone(a) \/ EraseErrs(a)
      PROVE  LedgerInv' /\ [Ledger!Next]_Ledger!vars
  BY <1>1, <1>4, UploadDoneLedger, EraseLedger
<1>5. CASE Crash
  BY <1>1, <1>5, CrashLedger
<1>6. ASSUME NEW m \in Ids, Expire(m)
      PROVE  LedgerInv' /\ [Ledger!Next]_Ledger!vars
  BY <1>1, <1>6, ExpireLedger
<1>7. CASE UNCHANGED vars
  BY <1>1, <1>7, StutterLedger
<1> QED BY <1>2, <1>3, <1>4, <1>5, <1>6, <1>7 DEF Next

(* Every behaviour of the handlers, the store, their failures and the TTL, *)
(* with every interleaving, is a behaviour of MessageLedger.               *)
THEOREM Implements == Spec => ImplementsLedger
<1>1. Init => LedgerInv /\ Ledger!Init
  BY InitLedger
<1>2. LedgerInv /\ [Next]_vars => LedgerInv' /\ [Ledger!Next]_Ledger!vars
  BY NextLedger
<1> QED BY <1>1, <1>2, PTL DEF Spec, ImplementsLedger, Ledger!Spec

-------------------------------------------------------------------------------
(* What MessageLedger promises *)

LEMMA LedgerTypes ==
  ASSUME Ledger!TypeOK
  PROVE  /\ message \in [Ids -> [action: Actions \union {"none", "gone"}, attachments: SUBSET Assets]]
         /\ heard \in [Ids -> Actions \union {"none"}] /\ removed \subseteq Ids
BY DEF Ledger!TypeOK, Ledger!Actions, Actions

(* Sound, image by image.                                                  *)
ClaimsSound ==
    /\ \A F, G \in Due : F # G => F \intersect G = {}
    /\ \A F \in Due : \A a \in F :
          a \notin Doomed /\ \A m \in Ids : a \notin message[m].attachments
    /\ \A m, n \in Ids :
          m # n => message[m].attachments \intersect message[n].attachments = {}

MessageSound(m) ==
    /\ m \in removed => message[m].attachments \subseteq Doomed
    /\ m \notin removed => /\ message[m].attachments \intersect Doomed = {}
                           /\ message[m].attachments \subseteq images
    /\ m \in removed \/ heard[m] # "none" => message[m].action # "none"
    /\ heard[m] = "Removed" => m \in removed

StoreSound ==
    \A a \in images : \/ a \in torn \/ a \in Doomed
                      \/ \E F \in Due : a \in F
                      \/ \E m \in Ids : a \in message[m].attachments

LEMMA LedgerParts ==
  Ledger!Sound <=> ClaimsSound /\ StoreSound /\ \A m \in Ids : MessageSound(m)
<1>1. Ledger!OneClaim <=>
        /\ ClaimsSound
        /\ \A m \in Ids : IF m \in removed THEN message[m].attachments \subseteq Doomed
                          ELSE message[m].attachments \intersect Doomed = {}
  BY Memberships DEF Ledger!OneClaim, ClaimsSound
<1>2. images \subseteq Ledger!Claimed <=> StoreSound
  BY Memberships DEF Ledger!Claimed, StoreSound
<1> QED BY <1>1, <1>2 DEF Ledger!Sound, Ledger!WasStored, MessageSound

LEMMA NextLedgerParts ==
  Ledger!Sound' <=> ClaimsSound' /\ StoreSound' /\ \A m \in Ids : MessageSound(m)'
<1>1. Ledger!OneClaim' <=>
        /\ ClaimsSound'
        /\ \A m \in Ids : IF m \in removed' THEN message'[m].attachments \subseteq Doomed'
                          ELSE message'[m].attachments \intersect Doomed' = {}
  BY NextMemberships DEF Ledger!OneClaim, ClaimsSound
<1>2. images' \subseteq Ledger!Claimed' <=> StoreSound'
  BY NextMemberships DEF Ledger!Claimed, StoreSound
<1> QED BY <1>1, <1>2 DEF Ledger!Sound, Ledger!WasStored, MessageSound

(* Messages stay as they are, images come and go.                          *)
LEMMA ImagesSound ==
  ASSUME Ledger!Sound, UNCHANGED <<message, removed, heard>>, torn \subseteq torn',
         Ledger!Forgets, Due' \subseteq Due, \A F \in Due \ Due' : F \subseteq torn',
         images \ Doomed \subseteq images', images' \subseteq images \union (UNION Due) \union torn
  PROVE  Ledger!Sound'
<1>1. /\ Doomed' \subseteq Doomed
      /\ \A a \in Doomed \ Doomed' :
           /\ \A m \in Ids : a \notin message[m].attachments
           /\ a \in images' => a \in torn'
  BY NextMemberships DEF Ledger!Forgets
<1>2. ClaimsSound'
  BY <1>1, LedgerParts DEF ClaimsSound
<1>3. StoreSound'
  BY <1>1, LedgerParts DEF StoreSound
<1>4. ASSUME NEW m \in Ids PROVE MessageSound(m)'
  BY <1>1, LedgerParts DEF MessageSound
<1> QED BY <1>2, <1>3, <1>4, NextLedgerParts

(* A post claims new files.                                                *)
LEMMA ClaimSound ==
  ASSUME Ledger!Sound, NEW files, Ledger!Claim(files)
  PROVE  Ledger!Sound'
<1>1. /\ UNCHANGED <<message, images, removed, torn, heard>> /\ Doomed' = Doomed
      /\ Due' = Due \union {files}
  BY DEF Ledger!Claim
<1>2. \A a \in files : /\ a \notin Doomed /\ \A F \in Due : a \notin F
                       /\ \A m \in Ids : a \notin message[m].attachments
  BY Memberships DEF Ledger!Claim, Ledger!Claimed
<1>3. ClaimsSound'
  BY <1>1, <1>2, LedgerParts DEF ClaimsSound
<1>4. StoreSound'
  BY <1>1, LedgerParts DEF StoreSound
<1>5. ASSUME NEW m \in Ids PROVE MessageSound(m)'
  BY <1>1, LedgerParts DEF MessageSound
<1> QED BY <1>3, <1>4, <1>5, NextLedgerParts

(* A message is stored with the files its post had claimed.                *)
LEMMA KeptSound ==
  ASSUME Ledger!Sound, Ledger!TypeOK, NEW m \in Ids, NEW files \in Due \union {{}},
         message[m] = Ledger!Absent, Ledger!Insert(m, files), files \subseteq images,
         Due' = Due \ {files}, Doomed' = Doomed, torn \subseteq torn',
         UNCHANGED <<images, removed, heard>>
  PROVE  Ledger!Sound'
<1>1. /\ message'[m].action = "New" /\ message'[m].attachments = files
      /\ \A n \in Ids \ {m} : message'[n] = message[n]
      /\ message[m].action = "none" /\ message[m].attachments = {}
  BY LedgerTypes DEF Ledger!Insert, Ledger!Absent
<1>2. \A a \in files : /\ a \notin Doomed /\ \A F \in Due : F # files => a \notin F
                       /\ \A n \in Ids : a \notin message[n].attachments
  BY LedgerParts DEF ClaimsSound
<1>3. ClaimsSound'
  <2>1. \A F, G \in Due' : F # G => F \intersect G = {}
    BY LedgerParts DEF ClaimsSound
  <2>2. \A F \in Due' : \A a \in F :
           a \notin Doomed' /\ \A n \in Ids : a \notin message'[n].attachments
    BY <1>1, <1>2, LedgerParts DEF ClaimsSound
  <2>3. \A n, k \in Ids :
           n # k => message'[n].attachments \intersect message'[k].attachments = {}
    BY <1>1, <1>2, LedgerParts DEF ClaimsSound
  <2> QED BY <2>1, <2>2, <2>3 DEF ClaimsSound
<1>4. StoreSound'
  BY <1>1, LedgerParts DEF StoreSound
<1>5. ASSUME NEW n \in Ids PROVE MessageSound(n)'
  <2>1. m \notin removed /\ heard[m] = "none"
    BY <1>1, LedgerParts DEF MessageSound
  <2> QED BY <1>1, <1>2, <2>1, LedgerParts DEF MessageSound
<1> QED BY <1>3, <1>4, <1>5, NextLedgerParts

(* A message is edited or removed.                                         *)
LEMMA ChangedSound ==
  ASSUME Ledger!Sound, Ledger!TypeOK, NEW m \in Ids, NEW action \in {"Edited", "Removed"},
         Ledger!There(m), Ledger!Change(m, action), torn \subseteq torn',
         UNCHANGED <<images, heard>>, Due' = Due
  PROVE  Ledger!Sound'
<1>1. /\ \A n \in Ids : message'[n].attachments = message[n].attachments
      /\ \A n \in Ids : message[n].action # "none" => message'[n].action # "none"
      /\ message[m].action # "none"
  BY LedgerTypes DEF Ledger!Change, Ledger!There, Ledger!WasStored
<1>2. \/ removed' = removed /\ Doomed' = Doomed
      \/ removed' = removed \union {m} /\ Doomed' = Doomed \union message[m].attachments
  BY DEF Ledger!Change
<1>3. ClaimsSound'
  BY <1>1, <1>2, LedgerParts DEF ClaimsSound
<1>4. StoreSound'
  BY <1>1, <1>2, LedgerParts DEF StoreSound
<1>5. ASSUME NEW n \in Ids PROVE MessageSound(n)'
  <2>1. n # m => message[n].attachments \intersect message[m].attachments = {}
    BY LedgerParts DEF ClaimsSound
  <2> QED BY <1>1, <1>2, <2>1, LedgerParts DEF MessageSound
<1> QED BY <1>3, <1>4, <1>5, NextLedgerParts

(* A removed message loses its list.                                       *)
LEMMA StrippedSound ==
  ASSUME Ledger!Sound, Ledger!TypeOK, NEW m \in removed, Ledger!Strip(m), torn \subseteq torn',
         UNCHANGED <<images, removed, heard>>, Due' = Due
  PROVE  Ledger!Sound'
<1>1. /\ m \in Ids /\ message'[m].attachments = {} /\ message'[m].action = message[m].action
      /\ \A n \in Ids \ {m} : message'[n] = message[n]
  BY LedgerTypes DEF Ledger!Strip
<1>2. /\ Doomed' \subseteq Doomed
      /\ \A a \in Doomed \ Doomed' :
           /\ \A n \in Ids : a \notin message'[n].attachments
           /\ a \in images => a \in torn'
  BY NextMemberships DEF Ledger!Strip, Ledger!Forgets
<1>3. ClaimsSound'
  BY <1>1, <1>2, LedgerParts DEF ClaimsSound
<1>4. StoreSound'
  <2>1. message[m].attachments \subseteq Doomed
    BY <1>1, LedgerParts DEF MessageSound
  <2> QED BY <1>1, <1>2, <2>1, LedgerParts DEF StoreSound
<1>5. ASSUME NEW n \in Ids PROVE MessageSound(n)'
  BY <1>1, <1>2, LedgerParts DEF MessageSound
<1> QED BY <1>3, <1>4, <1>5, NextLedgerParts

(* A message expires, and keeps what it named.                             *)
LEMMA ExpiredSound ==
  ASSUME Ledger!Sound, Ledger!TypeOK, NEW m \in Ids, Ledger!Expire(m)
  PROVE  Ledger!Sound'
<1>1. /\ UNCHANGED <<images, removed, torn, heard>> /\ Due' = Due /\ Doomed' = Doomed
      /\ \A n \in Ids : /\ message'[n].attachments = message[n].attachments
                        /\ message[n].action # "none" => message'[n].action # "none"
  BY LedgerTypes DEF Ledger!Expire
<1>2. ClaimsSound' /\ StoreSound'
  BY <1>1, LedgerParts DEF ClaimsSound, StoreSound
<1>3. ASSUME NEW n \in Ids PROVE MessageSound(n)'
  BY <1>1, LedgerParts DEF MessageSound
<1> QED BY <1>2, <1>3, NextLedgerParts

LEMMA ToldSound ==
  ASSUME Ledger!Sound, Ledger!TypeOK, NEW m \in Ids, NEW action \in Actions,
         Ledger!Tell(m, action)
  PROVE  Ledger!Sound'
<1>1. /\ UNCHANGED <<message, images, removed, torn>> /\ Due' = Due /\ Doomed' = Doomed
      /\ message[m].action # "none" /\ (action = "Removed" => m \in removed)
      /\ \A n \in Ids : heard'[n] = IF n = m THEN action ELSE heard[n]
  BY LedgerTypes DEF Ledger!Tell, Ledger!WasStored
<1>2. ClaimsSound' /\ StoreSound'
  BY <1>1, LedgerParts DEF ClaimsSound, StoreSound
<1>3. ASSUME NEW n \in Ids PROVE MessageSound(n)'
  BY <1>1, LedgerParts DEF MessageSound
<1> QED BY <1>2, <1>3, NextLedgerParts

(* A command on a message fails, before it was applied or after.           *)
LEMMA FailedSound ==
  ASSUME Ledger!Sound, Ledger!TypeOK, NEW m \in Ids,
         Ledger!PostFails(m) \/ Ledger!ModifyFails(m)
  PROVE  Ledger!Sound'
<1>1. CASE Ledger!PostFails(m)
  <2>1. PICK files \in Due \union {{}} :
          /\ torn' = torn \union files \union {m} /\ Due' = Due \ {files}
          /\ UNCHANGED message \/ (files \subseteq images /\ Ledger!Insert(m, files))
    BY <1>1 DEF Ledger!PostFails
  <2>2. /\ message[m] = Ledger!Absent /\ UNCHANGED <<images, removed, heard>>
        /\ Doomed' = Doomed
    BY <1>1 DEF Ledger!PostFails
  <2>3. CASE UNCHANGED message
    BY <2>1, <2>2, <2>3, ImagesSound DEF Ledger!Forgets
  <2> QED BY <2>1, <2>2, <2>3, KeptSound
<1>2. CASE Ledger!ModifyFails(m)
  <2>1. /\ torn \subseteq torn' /\ UNCHANGED <<images, heard>>
        /\ Due' = Due
    BY <1>2 DEF Ledger!ModifyFails
  <2>2. CASE UNCHANGED <<message, removed>> /\ Doomed' = Doomed
    BY <2>1, <2>2, ImagesSound DEF Ledger!Forgets
  <2>3. CASE Ledger!There(m) /\ \E action \in {"Edited", "Removed"} : Ledger!Change(m, action)
    BY <2>1, <2>3, ChangedSound
  <2>4. CASE m \in removed /\ Ledger!Strip(m) /\ UNCHANGED removed
    BY <2>1, <2>4, StrippedSound
  <2> QED BY <1>2, <2>2, <2>3, <2>4 DEF Ledger!ModifyFails
<1> QED BY <1>1, <1>2

LEMMA LedgerIsSound ==
  ASSUME Ledger!Sound, Ledger!TypeOK, [Ledger!Next]_Ledger!vars
  PROVE  Ledger!Sound'
<1>1. ASSUME NEW m \in Ids, Ledger!Keep(m) \/ Ledger!Empty(m) PROVE Ledger!Sound'
  BY <1>1, KeptSound, StrippedSound DEF Ledger!Keep, Ledger!Empty
<1>2. ASSUME NEW m \in Ids, NEW action \in Ledger!Actions, Ledger!Modify(m, action)
      PROVE  Ledger!Sound'
  <2>1. action \in {"Edited", "Removed"}
    BY <1>2 DEF Ledger!Modify, Ledger!Actions
  <2> QED BY <1>2, <2>1, ChangedSound DEF Ledger!Modify
<1>3. ASSUME NEW m \in Ids, NEW action \in Ledger!Actions, Ledger!Tell(m, action)
      PROVE  Ledger!Sound'
  BY <1>3, ToldSound DEF Ledger!Actions, Actions
<1>4. ASSUME NEW a \in Assets, Ledger!Arrive(a) \/ Ledger!Erase(a) \/ Ledger!EraseFails(a)
      PROVE  Ledger!Sound'
  <2>1. CASE Ledger!Arrive(a)
    BY <2>1, ImagesSound DEF Ledger!Arrive, Ledger!Forgets
  <2>2. CASE Ledger!Erase(a)
    BY <2>2, ImagesSound DEF Ledger!Erase
  <2>3. CASE Ledger!EraseFails(a)
    BY <2>3, ImagesSound DEF Ledger!EraseFails
  <2> QED BY <1>4, <2>1, <2>2, <2>3
<1>5. CASE Ledger!UploadFails
  BY <1>5, ImagesSound DEF Ledger!UploadFails, Ledger!Forgets
<1>6. CASE Ledger!Stop
  BY <1>6, ImagesSound DEF Ledger!Stop
<1>7. CASE UNCHANGED Ledger!vars
  BY <1>7, ImagesSound DEF Ledger!vars, Ledger!Forgets
<1> QED BY <1>1, <1>2, <1>3, <1>4, <1>5, <1>6, <1>7, ClaimSound, ExpiredSound,
        FailedSound DEF Ledger!Next

LEMMA LedgerTyped == ASSUME LedgerInv PROVE Ledger!TypeOK
<1>1. \A h \in Handlers : task[h].files \subseteq Assets
  BY LedgerFacts DEF Task
<1>2. \A m \in Ids : message[m].attachments \subseteq Assets
  BY DEF LedgerInv, IInv, TypeOK, Stored
<1>3. Due \subseteq SUBSET Assets /\ Doomed \subseteq Assets
  BY <1>1, <1>2, Memberships DEF LedgerInv, IInv, TypeOK
<1> QED BY <1>3 DEF LedgerInv, IInv, TypeOK, Stored, Actions, Ledger!TypeOK, Ledger!Actions

(* So, whatever the interleaving and whatever fails: an image has one      *)
(* claim, a message that nobody removed finds its images in the store,     *)
(* each image there is named by a message, left by one that expired,       *)
(* awaited, doomed or held by a failed call, and the members are told of   *)
(* no message that was never stored and of no removal that nobody made.    *)
THEOREM LedgerKept == Spec => []Ledger!Sound
<1>1. LedgerInv => Ledger!TypeOK
  BY LedgerTyped
<1>2. Init => LedgerInv /\ Ledger!Sound
  <2> SUFFICES ASSUME Init PROVE LedgerInv /\ Ledger!Sound
    OBVIOUS
  <2>1. LedgerInv /\ Ledger!Init
    BY InitLedger
  <2>2. ClaimsSound /\ StoreSound /\ \A m \in Ids : MessageSound(m)
    BY <2>1 DEF Ledger!Init, Ledger!Absent, ClaimsSound, StoreSound, MessageSound
  <2> QED BY <2>1, <2>2, LedgerParts
<1>3. LedgerInv /\ Ledger!Sound /\ [Next]_vars => LedgerInv' /\ Ledger!Sound'
  BY <1>1, NextLedger, LedgerIsSound
<1> QED BY <1>2, <1>3, PTL DEF Spec

===============================================================================
