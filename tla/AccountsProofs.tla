----------------------------- MODULE AccountsProofs -----------------------------
(***************************************************************************)
(* Theorems about Accounts for every set of accounts, addresses and        *)
(* handlers, and every number of files and faults.                         *)
(***************************************************************************)
EXTENDS Accounts, FiniteSetTheorems, TLAPS

-------------------------------------------------------------------------------
(* The inductive invariant *)

(* What a handler does at each of its awaits.                              *)
Shape(t) ==
    /\ t.op = "none" <=> t.pc = "idle"
    /\ t.op \in {"register", "upload"} <=> t.pc \in {"parts", "abort"}
    /\ t.op = "get" <=> t.pc \in {"read", "fetch", "fill"}
    /\ t.op = "status" <=> t.pc \in {"find", "write", "answer"}
    /\ t.op # "none" => t.account \in Accounts
    /\ t.op = "status" => t.want \in Statuses
    /\ t.op \notin {"register", "upload"} => t.todo = {}
    /\ t.op = "register" => t.todo \subseteq {"user", "profile", "clear", "image"}
    /\ t.op = "upload" => t.todo \subseteq {"find", "avatar", "clear", "image"}
    /\ "image" \in t.todo => t.version # 0
    /\ "clear" \in t.todo => "image" \in t.todo

(* What is no longer to be done by a registration is done; an avatar is    *)
(* set in a profile that was found.                                        *)
PartsInv(t, em, us, pr, av, im, gi) ==
    /\ t.op = "register" => em[t.account] # None
    /\ t.op = "register" /\ t.pc = "parts" =>
          /\ "user" \in t.todo \/ t.account \in us
          /\ "profile" \in t.todo \/ t.account \in pr
          /\ "profile" \notin t.todo /\ t.account \in gi => t.account \in av
          /\ t.account \in gi /\ "image" \notin t.todo => im[t.account] # 0
    /\ "avatar" \in t.todo /\ "find" \notin t.todo => t.account \in pr

(* A fetched image is the stored one, and there is no cached one between   *)
(* the two commands of an upload, unless readers and uploads met.          *)
PictureInv(t, im, ca, unsure) ==
    /\ t.pc = "fill" /\ t.account \notin unsure => t.version = im[t.account]
    /\ "image" \in t.todo /\ "clear" \notin t.todo /\ t.account \notin unsure =>
          ca[t.account] = Miss

StatusInv(t, st) ==
    /\ t.op = "status" => st[t.account] \in t.saw
    /\ t.pc = "answer" => t.want \in t.saw

Unsure == raced \union failed

TasksInv ==
    \A h \in Handlers :
        /\ Shape(task[h])
        /\ PartsInv(task[h], email, users, profiles, avatars, image, given)
        /\ PictureInv(task[h], image, cache, Unsure)
        /\ StatusInv(task[h], status)

Registers(t, a) == t.op = "register" /\ t.account = a
Succeeding(t, a) == Registers(t, a) /\ t.pc = "parts"

(* An account is registered by one handler, which creates the user once.   *)
RegistersAlone ==
    /\ \A g, h \in Handlers, a \in Accounts :
          Registers(task[g], a) /\ Registers(task[h], a) => g = h
    /\ \A h \in Handlers : "user" \in task[h].todo => task[h].account \notin users

OneUser ==
    /\ \A a \in users \union given : email[a] # None
    /\ \A a, b \in users : email[a] = email[b] => a = b

(* Without faults somebody gets the address: a user's registration has     *)
(* succeeded or will, and an address without a user has an applicant.      *)
SomebodyWins ==
    faults = 0 =>
        /\ \A a \in users : a \in answered \/ \E h \in Handlers : Succeeding(task[h], a)
        /\ \A a \in Accounts : email[a] # None =>
              \/ \E u \in users : email[u] = email[a]
              \/ \E h \in Handlers : Succeeding(task[h], a) /\ "user" \in task[h].todo
        /\ \A h \in Handlers :
              task[h].op = "register" /\ task[h].pc = "abort" => "user" \notin task[h].todo

IInv ==
    /\ TypeOK
    /\ TasksInv
    /\ RegistersAlone
    /\ OneUser
    /\ SomebodyWins
    /\ AnsweredIsComplete
    /\ CachedIsFresh

-------------------------------------------------------------------------------
(* What every step keeps *)

DataOK ==
    /\ email \in [Accounts -> Emails \union {None}]
    /\ users \subseteq Accounts /\ profiles \subseteq Accounts
    /\ status \in [Accounts -> Statuses]
    /\ avatars \subseteq profiles
    /\ image \in [Accounts -> Versions]
    /\ cache \in [Accounts -> Versions \union {Miss}]
    /\ versions \in Versions /\ faults \in 0..MaxFaults
    /\ given \subseteq Accounts /\ answered \subseteq Accounts
    /\ failed \subseteq Accounts /\ raced \subseteq Accounts

Grows ==
    /\ users \subseteq users' /\ profiles \subseteq profiles' /\ avatars \subseteq avatars'
    /\ \A a \in Accounts :
          /\ email[a] # None => email'[a] = email[a]
          /\ email[a] # None /\ a \in given' => a \in given
          /\ image[a] # 0 => image'[a] # 0

LEMMA PartsInvKeeps ==
  ASSUME NEW t, Shape(t), Grows,
         PartsInv(t, email, users, profiles, avatars, image, given)
  PROVE  PartsInv(t, email', users', profiles', avatars', image', given')
<1>1. t.op = "register" => t.account \in Accounts
  BY DEF Shape
<1> QED BY <1>1 DEF PartsInv, Grows

LEMMA AnsweredKeeps ==
  ASSUME TypeOK, OneUser, AnsweredIsComplete, Grows, answered' = answered
  PROVE  AnsweredIsComplete'
  BY DEF AnsweredIsComplete, Grows, TypeOK, OneUser

(* A step of one handler that does not touch a status.                     *)
LEMMA HandlerStep ==
  ASSUME IInv, NEW h \in Handlers, NEW T \in Task, Become(h, T), Grows, DataOK',
         status' = status, Shape(T),
         PartsInv(T, email', users', profiles', avatars', image', given'),
         PictureInv(T, image', cache', Unsure'), StatusInv(T, status),
         \A g \in Handlers \ {h} : PictureInv(task[g], image', cache', Unsure'),
         RegistersAlone', OneUser', SomebodyWins', AnsweredIsComplete', CachedIsFresh'
  PROVE  IInv'
<1>1. /\ task' \in [Handlers -> Task] /\ task'[h] = T
      /\ \A g \in Handlers \ {h} : task'[g] = task[g]
  BY DEF Become, IInv, TypeOK
<1>2. TypeOK'
  BY <1>1 DEF TypeOK, DataOK
<1>3. TasksInv'
  <2> SUFFICES ASSUME NEW g \in Handlers
               PROVE  /\ Shape(task'[g])
                      /\ PartsInv(task'[g], email', users', profiles', avatars', image', given')
                      /\ PictureInv(task'[g], image', cache', Unsure')
                      /\ StatusInv(task'[g], status')
    BY DEF TasksInv
  <2>1. CASE g = h
    BY <2>1, <1>1
  <2>2. CASE g # h
    <3>1. /\ Shape(task[g]) /\ StatusInv(task[g], status)
          /\ PartsInv(task[g], email, users, profiles, avatars, image, given)
      BY DEF IInv, TasksInv
    <3>2. PartsInv(task[g], email', users', profiles', avatars', image', given')
      BY <3>1, PartsInvKeeps
    <3> QED BY <3>1, <3>2, <2>2, <1>1
  <2> QED BY <2>1, <2>2
<1> QED BY <1>2, <1>3 DEF IInv

(* The common case: only the task of h and the counts change, and h does   *)
(* not take part in a registration that may still succeed.                 *)
LEMMA QuietStep ==
  ASSUME IInv, NEW h \in Handlers, NEW T \in Task, Become(h, T),
         UNCHANGED <<mongo, pictures, history>>,
         versions' \in Versions, faults' \in 0..MaxFaults, faults' \in {faults, faults + 1},
         ~(task[h].op = "register" /\ task[h].pc = "parts"), T.op # "register",
         Shape(T), PartsInv(T, email, users, profiles, avatars, image, given),
         PictureInv(T, image, cache, Unsure), StatusInv(T, status)
  PROVE  IInv'
<1>1. UNCHANGED <<email, users, profiles, status, avatars, image, cache, given, answered,
                  failed, raced>>
  BY DEF mongo, pictures, history
<1>2. Grows /\ Unsure' = Unsure
  BY <1>1 DEF Grows, Unsure
<1>3. DataOK'
  BY <1>1 DEF DataOK, IInv, TypeOK
<1>4. /\ task'[h] = T
      /\ \A g \in Handlers \ {h} : task'[g] = task[g]
  BY DEF Become, IInv, TypeOK
<1>5. RegistersAlone'
  <2>1. "user" \notin T.todo
    BY DEF Shape
  <2> QED BY <1>1, <1>4, <2>1 DEF IInv, RegistersAlone, Registers
<1>6. SomebodyWins'
  <2>1. faults' = 0 => faults = 0
    BY DEF IInv, TypeOK
  <2>2. \A g \in Handlers, a \in Accounts :
           Succeeding(task[g], a) => task'[g] = task[g]
    BY <1>4 DEF Succeeding, Registers
  <2> QED BY <1>1, <1>4, <2>1, <2>2 DEF IInv, TypeOK, SomebodyWins
<1>7. OneUser' /\ AnsweredIsComplete' /\ CachedIsFresh'
  BY <1>1 DEF IInv, OneUser, AnsweredIsComplete, CachedIsFresh
<1>8. \A g \in Handlers \ {h} : PictureInv(task[g], image', cache', Unsure')
  BY <1>1, <1>2 DEF IInv, TasksInv
<1>9. /\ PartsInv(T, email', users', profiles', avatars', image', given')
      /\ PictureInv(T, image', cache', Unsure') /\ StatusInv(T, status)
  BY <1>1, <1>2
<1> QED BY <1>1, <1>2, <1>3, <1>5, <1>6, <1>7, <1>8, <1>9, HandlerStep

LEMMA IdleFine ==
  ASSUME NEW em, NEW us, NEW pr, NEW av, NEW im, NEW gi, NEW ca, NEW un, NEW st
  PROVE  /\ Idle \in Task /\ Shape(Idle) /\ Idle.op = "none" /\ Idle.todo = {}
         /\ PartsInv(Idle, em, us, pr, av, im, gi)
         /\ PictureInv(Idle, im, ca, un) /\ StatusInv(Idle, st)
<1>1. 0 \in Versions
  BY BoundsAssumption DEF Versions
<1> QED BY <1>1 DEF Idle, Task, Shape, PartsInv, PictureInv, StatusInv

LEMMA HandlerFacts ==
  ASSUME IInv, NEW h \in Handlers
  PROVE  /\ task[h] \in Task /\ Shape(task[h])
         /\ PartsInv(task[h], email, users, profiles, avatars, image, given)
         /\ PictureInv(task[h], image, cache, Unsure) /\ StatusInv(task[h], status)
         /\ versions \in Versions /\ faults \in 0..MaxFaults
  BY DEF IInv, TypeOK, TasksInv

-------------------------------------------------------------------------------
(* The steps that only wait or answer *)

LEMMA FaultFacts ==
  ASSUME TypeOK, Fault PROVE faults' \in 0..MaxFaults /\ faults' = faults + 1
  BY BoundsAssumption DEF TypeOK, Fault

LEMMA LeaveStep ==
  ASSUME IInv, NEW h \in Handlers, Leave(h), UNCHANGED <<mongo, pictures, versions, history>>,
         faults' = faults \/ Fault, ~(task[h].op = "register" /\ task[h].pc = "parts")
  PROVE  IInv'
<1>1. faults' \in 0..MaxFaults /\ faults' \in {faults, faults + 1} /\ versions' \in Versions
  BY FaultFacts DEF IInv, TypeOK
<1>2. UNCHANGED <<mongo, pictures, history>>
  OBVIOUS
<1> QED BY <1>1, <1>2, IdleFine, QuietStep DEF Leave

LEMMA BeginUploadStep ==
  ASSUME IInv, NEW h \in Handlers, BeginUpload(h) PROVE IInv'
<1>1. PICK a \in users :
        Become(h, [Idle EXCEPT !.op = "upload", !.pc = "parts", !.account = a,
                               !.version = versions + 1,
                               !.todo = {"find", "avatar"} \union Picture])
  BY DEF BeginUpload
<1> DEFINE T == [Idle EXCEPT !.op = "upload", !.pc = "parts", !.account = a,
                             !.version = versions + 1,
                             !.todo = {"find", "avatar"} \union Picture]
<1>2. /\ versions' = versions + 1 /\ versions' \in Versions /\ versions' # 0
      /\ task[h].pc = "idle" /\ faults' = faults
      /\ UNCHANGED <<mongo, pictures, history>>
  BY BoundsAssumption DEF BeginUpload, IInv, TypeOK, Versions
<1>3. a \in Accounts
  BY DEF IInv, TypeOK
<1>4. T \in Task
  BY <1>2, <1>3 DEF Task, Idle, Picture, Parts
<1>5. /\ Shape(T) /\ StatusInv(T, status) /\ PictureInv(T, image, cache, Unsure)
      /\ PartsInv(T, email, users, profiles, avatars, image, given)
  BY <1>2, <1>3 DEF Shape, StatusInv, PictureInv, PartsInv, Idle, Picture
<1>6. T.op # "register"
  BY DEF Idle
<1> QED BY <1>1, <1>2, <1>4, <1>5, <1>6, HandlerFacts, QuietStep

LEMMA GetStep ==
  ASSUME IInv, NEW h \in Handlers,
         BeginGet(h) \/ ReadCached(h) \/ FetchImage(h) \/ FetchErrs(h)
  PROVE  IInv'
<1> DEFINE t == task[h]
<1>1. /\ t \in Task /\ Shape(t) /\ PictureInv(t, image, cache, Unsure)
      /\ versions \in Versions /\ faults \in 0..MaxFaults
  BY HandlerFacts
<1>2. CASE BeginGet(h)
  <2>1. PICK a \in avatars :
          Become(h, [Idle EXCEPT !.op = "get", !.pc = "read", !.account = a])
    BY <1>2 DEF BeginGet
  <2> DEFINE T == [Idle EXCEPT !.op = "get", !.pc = "read", !.account = a]
  <2>2. a \in Accounts
    BY DEF IInv, TypeOK
  <2>3. T \in Task /\ T.op = "get"
    BY <2>2, IdleFine DEF Task, Idle
  <2>4. /\ Shape(T) /\ StatusInv(T, status) /\ PictureInv(T, image, cache, Unsure)
        /\ PartsInv(T, email, users, profiles, avatars, image, given)
    BY <2>2 DEF Shape, StatusInv, PictureInv, PartsInv, Idle
  <2> QED BY <1>1, <1>2, <2>1, <2>3, <2>4, QuietStep DEF BeginGet
<1>3. ASSUME t.pc \in {"read", "fetch"}, NEW pc \in {"fetch", "fill"},
             NEW v \in Versions, pc = "fill" => v = image[t.account],
             Become(h, [t EXCEPT !.pc = pc, !.version = v]),
             UNCHANGED <<mongo, pictures, versions, faults, history>>
      PROVE  IInv'
  <2> DEFINE T == [t EXCEPT !.pc = pc, !.version = v]
  <2>1. T \in Task /\ T.op = "get" /\ t.op = "get" /\ T.todo = {} /\ t.todo = {}
    BY <1>1, <1>3 DEF Task, Shape
  <2>2. Shape(T)
    BY <1>1, <1>3, <2>1 DEF Task, Shape
  <2>3. /\ StatusInv(T, status) /\ PictureInv(T, image, cache, Unsure)
        /\ PartsInv(T, email, users, profiles, avatars, image, given)
    BY <1>1, <1>3, <2>1 DEF Task, StatusInv, PictureInv, PartsInv
  <2> QED BY <1>1, <1>3, <2>1, <2>2, <2>3, QuietStep
<1>4. CASE ReadCached(h)
  <2>1. CASE Leave(h)
    BY <1>1, <1>4, <2>1, LeaveStep DEF ReadCached
  <2>2. CASE Goto(h, "fetch")
    <3>1. [t EXCEPT !.pc = "fetch"] = [t EXCEPT !.pc = "fetch", !.version = t.version]
      BY <1>1 DEF Task
    <3>2. t.version \in Versions
      BY <1>1 DEF Task
    <3> QED BY <1>3, <1>4, <2>2, <3>1, <3>2 DEF ReadCached, Goto
  <2> QED BY <1>4, <2>1, <2>2 DEF ReadCached
<1>5. CASE FetchImage(h)
  <2>1. image[t.account] \in Versions
    BY <1>1, <1>5 DEF FetchImage, Shape, IInv, TypeOK
  <2> QED BY <1>3, <1>5, <2>1 DEF FetchImage
<1>6. CASE FetchErrs(h)
  BY <1>6, LeaveStep DEF FetchErrs
<1> QED BY <1>2, <1>4, <1>5, <1>6

LEMMA AskStatusStep ==
  ASSUME IInv, NEW h \in Handlers, BeginStatus(h) \/ FindProfile(h) \/ AnswerStatus(h)
  PROVE  IInv'
<1> DEFINE t == task[h]
<1>1. /\ t \in Task /\ Shape(t) /\ StatusInv(t, status)
      /\ versions \in Versions /\ faults \in 0..MaxFaults
  BY HandlerFacts
<1>2. CASE BeginStatus(h)
  <2>1. PICK a \in users, s \in Statuses :
          Become(h, [Idle EXCEPT !.op = "status", !.pc = "find", !.account = a,
                                 !.want = s, !.saw = {status[a]}])
    BY <1>2 DEF BeginStatus
  <2> DEFINE T == [Idle EXCEPT !.op = "status", !.pc = "find", !.account = a,
                               !.want = s, !.saw = {status[a]}]
  <2>2. a \in Accounts /\ status[a] \in Statuses
    BY DEF IInv, TypeOK
  <2>3. T \in Task /\ T.op = "status"
    BY <2>2, IdleFine DEF Task, Idle
  <2>4. /\ Shape(T) /\ StatusInv(T, status) /\ PictureInv(T, image, cache, Unsure)
        /\ PartsInv(T, email, users, profiles, avatars, image, given)
    BY <2>2 DEF Shape, StatusInv, PictureInv, PartsInv, Idle
  <2> QED BY <1>1, <1>2, <2>1, <2>3, <2>4, QuietStep DEF BeginStatus
<1>3. CASE FindProfile(h)
  <2>1. CASE Leave(h)
    BY <1>3, <2>1, LeaveStep DEF FindProfile
  <2>2. ASSUME NEW pc \in {"write", "answer"}, Goto(h, pc),
               pc = "answer" => status[t.account] = t.want
        PROVE  IInv'
    <3> DEFINE T == [t EXCEPT !.pc = pc]
    <3>1. t.pc = "find" /\ UNCHANGED <<mongo, pictures, versions, faults, history>>
      BY <1>3 DEF FindProfile
    <3>2. T \in Task /\ T.op = "status" /\ t.op = "status" /\ T.todo = {}
      BY <1>1, <2>2, <3>1 DEF Task, Shape
    <3>3. Shape(T)
      BY <1>1, <2>2, <3>1, <3>2 DEF Task, Shape
    <3>4. /\ StatusInv(T, status) /\ PictureInv(T, image, cache, Unsure)
          /\ PartsInv(T, email, users, profiles, avatars, image, given)
      BY <1>1, <2>2, <3>1, <3>2 DEF Task, StatusInv, PictureInv, PartsInv
    <3> QED BY <1>1, <2>2, <3>1, <3>2, <3>3, <3>4, QuietStep DEF Goto
  <2> QED BY <1>3, <2>1, <2>2 DEF FindProfile, NeedsWrite
<1>4. CASE AnswerStatus(h)
  BY <1>4, LeaveStep DEF AnswerStatus
<1> QED BY <1>2, <1>3, <1>4

-------------------------------------------------------------------------------
(* Registration and upload *)

LEMMA BeginRegisterStep ==
  ASSUME IInv, NEW h \in Handlers, BeginRegister(h) PROVE IInv'
<1>1. PICK a \in Accounts, e \in Emails, withAvatar \in BOOLEAN :
        /\ email[a] = None
        /\ withAvatar => versions < MaxVersions
        /\ email' = [email EXCEPT ![a] = e]
        /\ versions' = IF withAvatar THEN versions + 1 ELSE versions
        /\ given' = IF withAvatar THEN given \union {a} ELSE given
        /\ Become(h, [Idle EXCEPT
                !.op = "register", !.pc = "parts", !.account = a,
                !.version = IF withAvatar THEN versions' ELSE 0,
                !.todo = {"user", "profile"} \union (IF withAvatar THEN Picture ELSE {})])
  BY DEF BeginRegister
<1> DEFINE T == [Idle EXCEPT
                !.op = "register", !.pc = "parts", !.account = a,
                !.version = IF withAvatar THEN versions' ELSE 0,
                !.todo = {"user", "profile"} \union (IF withAvatar THEN Picture ELSE {})]
<1>2. /\ UNCHANGED <<users, profiles, status, avatars, image, cache, faults, answered,
                     failed, raced>>
      /\ task[h].pc = "idle"
  BY DEF BeginRegister, pictures
<1>3. /\ email[a] = None /\ email' = [email EXCEPT ![a] = e] /\ e # None
      /\ versions' \in Versions /\ (withAvatar => versions' # 0) /\ 0 \in Versions
      /\ given' = IF withAvatar THEN given \union {a} ELSE given
  BY <1>1, NoneAssumption, BoundsAssumption DEF IInv, TypeOK, Versions
<1>4. a \notin users /\ a \notin given
  BY <1>3 DEF IInv, OneUser
<1>5. /\ T.op = "register" /\ T.pc = "parts" /\ T.account = a
      /\ T.todo = {"user", "profile"} \union (IF withAvatar THEN Picture ELSE {})
      /\ T.version = IF withAvatar THEN versions' ELSE 0
  BY DEF Idle
<1>6. T \in Task /\ Shape(T) /\ StatusInv(T, status) /\ PictureInv(T, image, cache, Unsure)
  BY <1>3 DEF Task, Shape, StatusInv, PictureInv, Idle, Picture, Parts
<1>7. Grows /\ Unsure' = Unsure
  BY <1>2, <1>3, <1>4 DEF Grows, Unsure, IInv, TypeOK
<1>8. DataOK'
  BY <1>2, <1>3 DEF DataOK, IInv, TypeOK
<1>9. PartsInv(T, email', users', profiles', avatars', image', given')
  BY <1>2, <1>3, <1>4, <1>5 DEF PartsInv, Picture, IInv, TypeOK
<1>10. /\ task'[h] = T
       /\ \A g \in Handlers \ {h} : task'[g] = task[g]
  BY <1>1 DEF Become, IInv, TypeOK
<1>11. RegistersAlone'
  <2>1. \A g \in Handlers : ~Registers(task[g], a)
    BY <1>3 DEF IInv, TasksInv, PartsInv, Registers
  <2>2. \A b \in Accounts : Registers(T, b) => b = a
    BY <1>5 DEF Registers
  <2> HIDE DEF T
  <2> QED BY <1>2, <1>4, <1>5, <1>10, <2>1, <2>2 DEF IInv, RegistersAlone
<1>12. OneUser'
  BY <1>2, <1>3, <1>4 DEF IInv, TypeOK, OneUser
<1>13. SomebodyWins'
  <2> SUFFICES ASSUME faults = 0
               PROVE  /\ \A b \in users : b \in answered
                                   \/ \E g \in Handlers : Succeeding(task'[g], b)
                      /\ \A b \in Accounts : email'[b] # None =>
                            \/ \E u \in users : email'[u] = email'[b]
                            \/ \E g \in Handlers : Succeeding(task'[g], b)
                                                   /\ "user" \in task'[g].todo
                      /\ \A g \in Handlers :
                            task'[g].op = "register" /\ task'[g].pc = "abort"
                               => "user" \notin task'[g].todo
    BY <1>2 DEF SomebodyWins
  <2>1. ~(\E b \in Accounts : Succeeding(task[h], b)) /\ users \subseteq Accounts
    BY <1>2 DEF Succeeding, IInv, TypeOK
  <2>2. Succeeding(T, a) /\ "user" \in T.todo
    BY <1>5 DEF Succeeding, Registers
  <2>3. \A b \in Accounts : b # a => email'[b] = email[b]
    BY <1>3 DEF IInv, TypeOK
  <2>4. \A u \in users : email'[u] = email[u]
    BY <1>4, <2>1, <2>3
  <2> HIDE DEF T
  <2>5. \A b \in Accounts, g \in Handlers : Succeeding(task[g], b) => task'[g] = task[g]
    BY <1>10, <2>1
  <2>6. \A g \in Handlers : task'[g].pc = "abort" => task'[g] = task[g]
    BY <1>5, <1>10
  <2> QED BY <1>10, <2>1, <2>2, <2>3, <2>4, <2>5, <2>6 DEF IInv, SomebodyWins
<1>14. AnsweredIsComplete' /\ CachedIsFresh'
  BY <1>2, <1>7, AnsweredKeeps DEF IInv, CachedIsFresh
<1>15. \A g \in Handlers \ {h} : PictureInv(task[g], image', cache', Unsure')
  BY <1>2, <1>7 DEF IInv, TasksInv
<1>16. status' = status /\ PictureInv(T, image', cache', Unsure')
  BY <1>2, <1>6, <1>7
<1> HIDE DEF T
<1> QED BY <1>1, <1>6, <1>7, <1>8, <1>9, <1>11, <1>12, <1>13, <1>14, <1>15, <1>16,
           HandlerStep DEF T

(* The part was done and is ticked off, or the call gives up on it.        *)
Ticked(h, part, T) ==
    /\ T = [task[h] EXCEPT !.todo = @ \ {part}]
    /\ Perform(part, task[h])
    /\ failed' = failed /\ faults' = faults

GivenUp(h, part, T) ==
    /\ T = [task[h] EXCEPT !.pc = "abort", !.todo = Rest(part, @)]
    /\ Perform(part, task[h]) \/ UNCHANGED <<mongo, pictures>>
    /\ failed' = failed \union {task[h].account}
    /\ \/ faults' = faults + 1
       \/ /\ faults' = faults /\ UNCHANGED <<mongo, pictures>>
          /\ (part = "user" /\ EmailTaken(task[h].account)) \/ part = "find"

(* What one part can change, given the account and the file of its task.   *)
PartEffect(part, a, version) ==
    /\ email' = email /\ status' = status
    /\ users' = users \/ (part = "user" /\ ~EmailTaken(a) /\ users' = users \union {a})
    /\ \/ profiles' = profiles /\ avatars' = avatars
       \/ /\ part = "profile" /\ profiles' = profiles \union {a}
          /\ avatars' = IF a \in given THEN avatars \union {a} ELSE avatars
       \/ part = "avatar" /\ profiles' = profiles /\ avatars' = avatars \union {a}
    /\ image' = image \/ (part = "image" /\ image' = [image EXCEPT ![a] = version])
    /\ cache' = cache \/ (part = "clear" /\ cache' = [cache EXCEPT ![a] = Miss])

LEMMA PerformEffect ==
  ASSUME NEW part, NEW t, Perform(part, t) \/ UNCHANGED <<mongo, pictures>>
  PROVE  PartEffect(part, t.account, t.version)
<1>1. CASE UNCHANGED <<mongo, pictures>>
  BY <1>1 DEF mongo, pictures, PartEffect
<1>2. CASE Perform(part, t)
  BY <1>2 DEF Perform, CreateUser, CreateProfile, SetAvatar, ClearCached, SendImage,
              mongo, pictures, PartEffect
<1> QED BY <1>1, <1>2

LEMMA PartStep ==
  ASSUME IInv, NEW h \in Handlers, NEW part \in task[h].todo, Ready(part, task[h].todo),
         NEW T, Become(h, T), Ticked(h, part, T) \/ GivenUp(h, part, T),
         Overlap(part, task[h].account), UNCHANGED <<versions, given, answered>>,
         faults' \in 0..MaxFaults
  PROVE  IInv'
<1> DEFINE t == task[h]
           a == t.account
<1>1. /\ t \in Task /\ Shape(t) /\ StatusInv(t, status)
      /\ PartsInv(t, email, users, profiles, avatars, image, given)
      /\ PictureInv(t, image, cache, Unsure)
  BY HandlerFacts
<1>2. /\ t.op \in {"register", "upload"} /\ t.pc \in {"parts", "abort"} /\ a \in Accounts
      /\ t.op = "register" => part \in {"user", "profile", "clear", "image"}
      /\ t.op = "upload" => part \in {"find", "avatar", "clear", "image"}
      /\ t.todo \subseteq Parts /\ t.version \in Versions
  BY <1>1 DEF Shape, Task
<1>3. /\ T \in Task /\ T.op = t.op /\ T.account = a /\ T.version = t.version
      /\ T.pc = t.pc \/ (T.pc = "abort" /\ a \in failed')
      /\ T.todo \subseteq t.todo \ {part}
      /\ T.todo = t.todo \ {part} \/ T.todo = Rest(part, t.todo)
      /\ T.want = t.want /\ T.saw = t.saw
  <2>1. CASE Ticked(h, part, T)
    <3>1. T = [t EXCEPT !.todo = t.todo \ {part}]
      BY <2>1 DEF Ticked
    <3>2. T \in Task
      BY <1>1, <1>2, <3>1 DEF Task
    <3> QED BY <1>1, <3>1, <3>2 DEF Task
  <2>2. CASE GivenUp(h, part, T)
    <3>1. Rest(part, t.todo) \subseteq t.todo \ {part}
      BY DEF Rest
    <3>2. T = [t EXCEPT !.pc = "abort", !.todo = Rest(part, t.todo)] /\ a \in failed'
      BY <2>2 DEF GivenUp
    <3>3. T \in Task
      BY <1>1, <1>2, <3>1, <3>2 DEF Task
    <3> QED BY <1>1, <3>1, <3>2, <3>3 DEF Task
  <2> QED BY <2>1, <2>2
<1>4. PartEffect(part, a, t.version)
  BY PerformEffect DEF Ticked, GivenUp
<1>5. /\ raced' = raced \/ raced' = raced \union {a}
      /\ failed' = failed \/ failed' = failed \union {a}
      /\ Unsure \subseteq Unsure'
  BY DEF Overlap, Ticked, GivenUp, Unsure
<1>6. part = "image" => t.version # 0 /\ "clear" \notin t.todo
  BY <1>1 DEF Shape, Ready
<1>7. Grows
  BY <1>2, <1>4, <1>6 DEF Grows, PartEffect, IInv, TypeOK
<1>8. DataOK'
  <2>1. part = "avatar" => a \in profiles
    BY <1>1 DEF PartsInv, Ready
  <2> QED BY <1>2, <1>4, <1>5, <2>1 DEF DataOK, PartEffect, IInv, TypeOK
<1>9. Shape(T)
  <2>1. "clear" \in T.todo => "image" \in T.todo
    BY <1>1, <1>3, <1>6 DEF Shape, Rest
  <2> QED BY <1>1, <1>2, <1>3, <2>1 DEF Shape
<1>10. PartsInv(T, email', users', profiles', avatars', image', given')
  <2>1. CASE Ticked(h, part, T)
    <3>1. T.pc = t.pc /\ T.todo = t.todo \ {part} /\ Perform(part, t)
      BY <2>1, <1>1 DEF Ticked, Task
    <3>2. PartsInv(t, email', users', profiles', avatars', image', given')
      BY <1>1, <1>7, PartsInvKeeps
    <3>3. /\ part = "user" => a \in users'
          /\ part = "profile" => a \in profiles' /\ (a \in given => a \in avatars')
          /\ part = "find" => a \in profiles'
          /\ part = "image" => image'[a] # 0
      BY <1>2, <1>6, <3>1
         DEF Perform, CreateUser, CreateProfile, SendImage, mongo, IInv, TypeOK
    <3> QED BY <1>3, <3>1, <3>2, <3>3 DEF PartsInv
  <2>2. CASE GivenUp(h, part, T)
    <3>1. T.pc = "abort" /\ T.todo = Rest(part, t.todo)
      BY <2>2, <1>1 DEF GivenUp, Task
    <3>2. PartsInv(t, email', users', profiles', avatars', image', given')
      BY <1>1, <1>7, PartsInvKeeps
    <3> QED BY <1>3, <3>1, <3>2 DEF PartsInv, Rest
  <2> QED BY <2>1, <2>2
<1>11. CachedIsFresh'
  <2> SUFFICES ASSUME NEW b \in Accounts, b \notin raced', b \notin failed'
               PROVE  cache'[b] = Miss \/ cache'[b] = image'[b]
    BY DEF CachedIsFresh
  <2>1. b \notin Unsure /\ (cache[b] = Miss \/ cache[b] = image[b])
    BY <1>5 DEF Unsure, IInv, CachedIsFresh
  <2>2. part = "image" => cache[a] = Miss \/ a # b
    BY <1>1, <1>6, <2>1 DEF PictureInv
  <2> QED BY <1>2, <1>4, <2>1, <2>2 DEF PartEffect, IInv, TypeOK
<1>12. \A g \in Handlers \ {h} : PictureInv(task[g], image', cache', Unsure')
  <2> SUFFICES ASSUME NEW g \in Handlers \ {h}
               PROVE  PictureInv(task[g], image', cache', Unsure')
    OBVIOUS
  <2>1. PictureInv(task[g], image, cache, Unsure) /\ Shape(task[g])
    BY DEF IInv, TasksInv
  <2>2. task[g].pc = "fill" \/ "image" \in task[g].todo => task[g].account \in Accounts
    BY <2>1 DEF Shape
  <2>3. part = "image" /\ task[g].pc = "fill" /\ task[g].account = a => a \in Unsure'
    BY <2>1 DEF Shape, Overlap, Reading, Unsure
  <2> QED BY <1>2, <1>4, <1>5, <2>1, <2>2, <2>3 DEF PictureInv, PartEffect, IInv, TypeOK
<1>13. PictureInv(T, image', cache', Unsure')
  <2>1. part = "clear" /\ a \notin Unsure' => cache'[a] = Miss
    <3>1. CASE Ticked(h, part, T)
      BY <1>2, <3>1 DEF Ticked, Perform, ClearCached, IInv, TypeOK
    <3>2. CASE GivenUp(h, part, T)
      BY <3>2 DEF GivenUp, Unsure
    <3> QED BY <3>1, <3>2
  <2>2. "image" \in T.todo => part # "image" /\ "image" \in t.todo
    BY <1>3
  <2>3. part # "clear" /\ "clear" \notin T.todo /\ a \notin Unsure' => "clear" \notin t.todo
    BY <1>1, <1>3 DEF Ticked, GivenUp, Task, Unsure
  <2> QED BY <1>1, <1>2, <1>3, <1>4, <1>5, <2>1, <2>2, <2>3 DEF PictureInv, PartEffect
<1>14. StatusInv(T, status) /\ status' = status
  BY <1>1, <1>2, <1>3, <1>4 DEF StatusInv, Shape, PartEffect
<1>15. /\ task'[h] = T
       /\ \A g \in Handlers \ {h} : task'[g] = task[g]
  BY DEF Become, IInv, TypeOK
<1>16. RegistersAlone'
  <2>1. \A b \in Accounts : Registers(T, b) <=> Registers(t, b)
    BY <1>3 DEF Registers
  <2>2. \A g, k \in Handlers, b \in Accounts :
           Registers(task'[g], b) /\ Registers(task'[k], b) => g = k
    BY <1>15, <2>1 DEF IInv, RegistersAlone
  <2>3. ASSUME NEW g \in Handlers, "user" \in task'[g].todo
        PROVE  task'[g].account \notin users'
    <3>1. CASE g = h
      BY <1>3, <1>4, <1>15, <2>3, <3>1 DEF IInv, RegistersAlone, PartEffect
    <3>2. CASE g # h
      <4>1. task'[g] = task[g] /\ Registers(task[g], task[g].account)
            /\ task[g].account \in Accounts
        BY <1>15, <2>3, <3>2 DEF Registers, IInv, TasksInv, Shape
      <4>2. task[g].account # a \/ ~Registers(t, a)
        BY <1>2, <3>2, <4>1 DEF IInv, RegistersAlone
      <4>3. part = "user" => Registers(t, a)
        BY <1>2 DEF Registers
      <4> QED BY <1>4, <2>3, <4>1, <4>2, <4>3 DEF IInv, RegistersAlone, PartEffect
    <3> QED BY <3>1, <3>2
  <2> QED BY <2>2, <2>3 DEF RegistersAlone
<1>17. OneUser'
  <2>1. part = "user" => email[a] # None
    BY <1>1, <1>2 DEF PartsInv
  <2> QED BY <1>4, <2>1 DEF IInv, OneUser, PartEffect, EmailTaken
<1>18. SomebodyWins'
  <2> SUFFICES ASSUME faults' = 0 PROVE SomebodyWins'
    BY DEF SomebodyWins
  <2>1. faults = 0 /\ users \subseteq Accounts
    BY DEF Ticked, GivenUp, IInv, TypeOK
  <2>2. CASE Ticked(h, part, T)
    <3>1. T.pc = t.pc /\ T.todo = t.todo \ {part} /\ Perform(part, t)
      BY <2>2, <1>1 DEF Ticked, Task
    <3>2. \A b \in Accounts : Succeeding(T, b) <=> Succeeding(t, b)
      BY <1>3, <3>1 DEF Succeeding, Registers
    <3>3. part = "user" => Succeeding(T, a) /\ users' = users \union {a}
      BY <1>2, <1>3, <2>1, <3>1
         DEF Succeeding, Registers, Perform, CreateUser, IInv, SomebodyWins
    <3>4. \A b \in users' : b \in answered' \/ \E g \in Handlers : Succeeding(task'[g], b)
      BY <1>4, <1>15, <2>1, <3>2, <3>3 DEF IInv, SomebodyWins, PartEffect
    <3>5. ASSUME NEW b \in Accounts, email'[b] # None,
                 ~\E u \in users' : email'[u] = email'[b]
          PROVE  \E g \in Handlers : Succeeding(task'[g], b) /\ "user" \in task'[g].todo
      <4>1. PICK g \in Handlers : Succeeding(task[g], b) /\ "user" \in task[g].todo
        BY <1>4, <2>1, <3>5 DEF IInv, SomebodyWins, PartEffect
      <4>2. g = h => a = b
        BY <4>1 DEF Succeeding, Registers
      <4>3. g = h => part # "user"
        BY <1>4, <3>3, <3>5, <4>2 DEF PartEffect
      <4> QED BY <1>15, <3>1, <3>2, <4>1, <4>3
    <3>6. \A g \in Handlers : task'[g].op = "register" /\ task'[g].pc = "abort"
                                 => "user" \notin task'[g].todo
      BY <1>3, <1>15, <2>1, <3>1 DEF IInv, SomebodyWins
    <3> QED BY <3>4, <3>5, <3>6 DEF SomebodyWins
  <2>3. CASE GivenUp(h, part, T)
    <3>1. /\ UNCHANGED <<users, email>> /\ T.pc = "abort"
          /\ (part = "user" /\ EmailTaken(a)) \/ part = "find"
      BY <2>1, <2>3, <1>1 DEF GivenUp, mongo, Task
    <3>2. ASSUME NEW b \in Accounts, Succeeding(t, b)
          PROVE  a = b /\ part = "user" /\ EmailTaken(a) /\ a \notin users
      BY <1>2, <3>1, <3>2 DEF Succeeding, Registers, IInv, RegistersAlone
    <3>3. \A b \in users : b \in answered \/ \E g \in Handlers : Succeeding(task'[g], b)
      BY <1>15, <2>1, <3>2 DEF IInv, SomebodyWins
    <3>4. \A b \in Accounts : email[b] # None =>
              \/ \E u \in users : email[u] = email[b]
              \/ \E g \in Handlers : Succeeding(task'[g], b) /\ "user" \in task'[g].todo
      BY <1>15, <2>1, <3>2 DEF IInv, SomebodyWins, EmailTaken
    <3>5. \A g \in Handlers : task'[g].op = "register" /\ task'[g].pc = "abort"
                                 => "user" \notin task'[g].todo
      <4>1. T.op = "register" => "user" \notin T.todo
        BY <1>2, <1>3, <3>1
      <4> QED BY <1>15, <2>1, <4>1 DEF IInv, SomebodyWins
    <3> QED BY <3>1, <3>3, <3>4, <3>5 DEF SomebodyWins
  <2> QED BY <2>2, <2>3
<1>19. AnsweredIsComplete'
  BY <1>7, AnsweredKeeps DEF IInv
<1> QED BY <1>3, <1>7, <1>8, <1>9, <1>10, <1>11, <1>12, <1>13, <1>14, <1>16, <1>17,
           <1>18, <1>19, HandlerStep

LEMMA PartsStep ==
  ASSUME IInv, NEW h \in Handlers, PartDone(h) \/ PartRefused(h) \/ PartErrs(h)
  PROVE  IInv'
<1> DEFINE t == task[h]
<1>1. CASE PartDone(h)
  <2>1. PICK part \in t.todo :
          /\ Ready(part, t.todo) /\ Perform(part, t) /\ Overlap(part, t.account)
          /\ Become(h, [t EXCEPT !.todo = @ \ {part}])
          /\ UNCHANGED <<versions, faults, given, answered, failed>>
    BY <1>1 DEF PartDone
  <2> DEFINE T == [t EXCEPT !.todo = @ \ {part}]
  <2>2. Ticked(h, part, T)
    BY <2>1 DEF Ticked
  <2> HIDE DEF T
  <2>3. Become(h, T)
    BY <2>1 DEF T
  <2> QED BY <2>1, <2>2, <2>3, HandlerFacts, PartStep
<1>2. CASE PartRefused(h)
  <2>1. PICK part \in t.todo :
          /\ \/ part = "user" /\ EmailTaken(t.account)
             \/ part = "find" /\ t.account \notin profiles
          /\ GiveUp(h, part)
    BY <1>2 DEF PartRefused
  <2> DEFINE T == [t EXCEPT !.pc = "abort", !.todo = Rest(part, @)]
  <2>2. UNCHANGED <<mongo, pictures, versions, faults, given, answered, raced>>
    BY <1>2 DEF PartRefused
  <2>3. GivenUp(h, part, T) /\ Become(h, T)
    BY <2>1, <2>2 DEF GivenUp, GiveUp
  <2>4. Ready(part, t.todo) /\ Overlap(part, t.account)
    BY <2>1, <2>2 DEF Ready, Overlap
  <2> HIDE DEF T
  <2> QED BY <2>2, <2>3, <2>4, HandlerFacts, PartStep
<1>3. CASE PartErrs(h)
  <2>1. PICK part \in t.todo :
          /\ Ready(part, t.todo) /\ Overlap(part, t.account) /\ GiveUp(h, part)
          /\ Perform(part, t) \/ UNCHANGED <<mongo, pictures>>
    BY <1>3 DEF PartErrs
  <2> DEFINE T == [t EXCEPT !.pc = "abort", !.todo = Rest(part, @)]
  <2>2. faults' \in 0..MaxFaults /\ faults' = faults + 1
    BY <1>3, FaultFacts DEF PartErrs, IInv
  <2>3. UNCHANGED <<versions, given, answered>>
    BY <1>3 DEF PartErrs
  <2>4. GivenUp(h, part, T) /\ Become(h, T)
    BY <2>1, <2>2 DEF GivenUp, GiveUp
  <2> HIDE DEF T
  <2> QED BY <2>1, <2>2, <2>3, <2>4, PartStep
<1> QED BY <1>1, <1>2, <1>3

LEMMA PartsEndStep ==
  ASSUME IInv, NEW h \in Handlers, PartsEnd(h) \/ AbortEnds(h) PROVE IInv'
<1> DEFINE t == task[h]
           a == t.account
<1>1. /\ t \in Task /\ Shape(t)
      /\ PartsInv(t, email, users, profiles, avatars, image, given)
      /\ versions \in Versions /\ faults \in 0..MaxFaults
  BY HandlerFacts
<1>2. CASE AbortEnds(h)
  BY <1>2, LeaveStep DEF AbortEnds
<1>3. CASE PartsEnd(h) /\ t.op # "register"
  BY <1>3, LeaveStep DEF PartsEnd, history
<1>4. CASE PartsEnd(h) /\ t.op = "register"
  <2>1. /\ t.pc = "parts" /\ t.todo = {} /\ Become(h, Idle)
        /\ answered' = answered \union {a}
        /\ UNCHANGED <<email, users, profiles, status, avatars, image, cache, versions,
                       faults, given, failed, raced>>
    BY <1>4 DEF PartsEnd, AllDone, Leave, mongo, pictures
  <2>2. /\ a \in Accounts /\ a \in users /\ a \in profiles
        /\ a \in given => a \in avatars /\ image[a] # 0
    BY <1>1, <1>4, <2>1 DEF Shape, PartsInv
  <2>3. Grows /\ Unsure' = Unsure
    BY <2>1 DEF Grows, Unsure
  <2>4. DataOK'
    BY <2>1, <2>2 DEF DataOK, IInv, TypeOK
  <2>5. /\ task'[h] = Idle
        /\ \A g \in Handlers \ {h} : task'[g] = task[g]
    BY <2>1 DEF Become, IInv, TypeOK
  <2>6. Idle.op = "none" /\ Idle.todo = {}
    BY IdleFine
  <2>7. RegistersAlone'
    BY <2>1, <2>5, <2>6 DEF IInv, RegistersAlone, Registers
  <2>8. SomebodyWins'
    <3> SUFFICES ASSUME faults = 0 PROVE SomebodyWins'
      BY <2>1 DEF SomebodyWins
    <3>1. \A b \in Accounts : Succeeding(t, b) => a = b /\ "user" \notin t.todo
      BY <2>1 DEF Succeeding, Registers
    <3> QED BY <2>1, <2>5, <2>6, <3>1 DEF IInv, TypeOK, SomebodyWins
  <2>9. OneUser' /\ AnsweredIsComplete' /\ CachedIsFresh'
    BY <2>1, <2>2 DEF IInv, OneUser, AnsweredIsComplete, CachedIsFresh
  <2>10. \A g \in Handlers \ {h} : PictureInv(task[g], image', cache', Unsure')
    BY <2>1, <2>3 DEF IInv, TasksInv
  <2> QED BY <2>1, <2>3, <2>4, <2>7, <2>8, <2>9, <2>10, IdleFine, HandlerStep
<1> QED BY <1>2, <1>3, <1>4

-------------------------------------------------------------------------------
(* The cached image *)

LEMMA FillCachedStep ==
  ASSUME IInv, NEW h \in Handlers, FillCached(h) PROVE IInv'
<1> DEFINE t == task[h]
           a == t.account
<1>1. /\ t \in Task /\ Shape(t) /\ PictureInv(t, image, cache, Unsure)
  BY HandlerFacts
<1>2. /\ t.pc = "fill" /\ cache' = [cache EXCEPT ![a] = t.version] /\ Become(h, Idle)
      /\ raced' = IF Uploading(a) THEN raced \union {a} ELSE raced
      /\ UNCHANGED <<email, users, profiles, status, avatars, image, versions, faults,
                     given, answered, failed>>
  BY DEF FillCached, Leave, mongo
<1>3. a \in Accounts /\ t.op = "get" /\ t.version \in Versions
  BY <1>1, <1>2 DEF Shape, Task
<1>4. Grows /\ Unsure \subseteq Unsure'
  BY <1>2 DEF Grows, Unsure
<1>5. DataOK'
  BY <1>2, <1>3 DEF DataOK, IInv, TypeOK
<1>6. /\ task'[h] = Idle
      /\ \A g \in Handlers \ {h} : task'[g] = task[g]
  BY <1>2 DEF Become, IInv, TypeOK
<1>7. Idle.op = "none" /\ Idle.todo = {}
  BY IdleFine
<1>8. RegistersAlone'
  BY <1>2, <1>6, <1>7 DEF IInv, RegistersAlone, Registers
<1>9. SomebodyWins'
  <2>1. \A b \in Accounts : ~Succeeding(t, b)
    BY <1>3 DEF Succeeding, Registers
  <2> QED BY <1>2, <1>6, <1>7, <2>1 DEF IInv, TypeOK, SomebodyWins
<1>10. OneUser' /\ AnsweredIsComplete'
  BY <1>2 DEF IInv, OneUser, AnsweredIsComplete
<1>11. CachedIsFresh'
  <2> SUFFICES ASSUME NEW b \in Accounts, b \notin Unsure'
               PROVE  cache'[b] = Miss \/ cache'[b] = image[b]
    BY <1>2 DEF CachedIsFresh, Unsure
  <2>1. b \notin Unsure /\ (cache[b] = Miss \/ cache[b] = image[b])
    BY <1>4 DEF IInv, CachedIsFresh, Unsure
  <2>2. a = b => t.version = image[b]
    BY <1>1, <1>2, <2>1 DEF PictureInv
  <2> QED BY <1>2, <2>1, <2>2 DEF IInv, TypeOK
<1>12. \A g \in Handlers \ {h} : PictureInv(task[g], image', cache', Unsure')
  <2> SUFFICES ASSUME NEW g \in Handlers \ {h}
               PROVE  PictureInv(task[g], image', cache', Unsure')
    OBVIOUS
  <2>1. PictureInv(task[g], image, cache, Unsure) /\ Shape(task[g])
    BY DEF IInv, TasksInv
  <2>2. "image" \in task[g].todo => task[g].account \in Accounts
    BY <2>1 DEF Shape
  <2>3. "image" \in task[g].todo /\ task[g].account = a => a \in Unsure'
    BY <1>2 DEF Uploading, Unsure
  <2> QED BY <1>2, <1>4, <2>1, <2>2, <2>3 DEF PictureInv, IInv, TypeOK
<1> QED BY <1>2, <1>4, <1>5, <1>8, <1>9, <1>10, <1>11, <1>12, IdleFine, HandlerStep

LEMMA ExpireStep ==
  ASSUME IInv, NEW a \in Accounts, Expire(a) PROVE IInv'
<1>1. /\ UNCHANGED <<email, users, profiles, status, avatars, image, task, versions,
                     faults, given, answered, failed, raced>>
      /\ cache' = [cache EXCEPT ![a] = Miss]
  BY DEF Expire, mongo, history
<1>2. \A b \in Accounts : cache'[b] = Miss \/ cache'[b] = cache[b]
  BY <1>1 DEF IInv, TypeOK
<1>3. TypeOK'
  BY <1>1 DEF IInv, TypeOK
<1>4. TasksInv'
  <2>1. ASSUME NEW h \in Handlers PROVE PictureInv(task[h], image, cache', Unsure)
    <3>1. PictureInv(task[h], image, cache, Unsure) /\ Shape(task[h])
      BY DEF IInv, TasksInv
    <3>2. "image" \in task[h].todo => task[h].account \in Accounts
      BY <3>1 DEF Shape
    <3> QED BY <1>2, <3>1, <3>2 DEF PictureInv
  <2>2. Unsure' = Unsure
    BY <1>1 DEF Unsure
  <2> QED BY <1>1, <2>1, <2>2 DEF IInv, TasksInv
<1>5. RegistersAlone' /\ OneUser' /\ SomebodyWins'
  BY <1>1 DEF IInv, RegistersAlone, OneUser, SomebodyWins
<1>6. AnsweredIsComplete' /\ CachedIsFresh'
  BY <1>1, <1>2 DEF IInv, AnsweredIsComplete, CachedIsFresh
<1> QED BY <1>3, <1>4, <1>5, <1>6 DEF IInv

-------------------------------------------------------------------------------
(* The status *)

(* The write of a status goes into what every call under way has seen.     *)
LEMMA SetStatusStep ==
  ASSUME IInv, NEW h \in Handlers, task[h].op = "status",
         NEW T \in Task, T = Idle \/ T = [task[h] EXCEPT !.pc = "answer"],
         NEW a \in Accounts, a = task[h].account, NEW s \in Statuses, s = task[h].want,
         SetStatus(a, s, [task EXCEPT ![h] = T]),
         UNCHANGED <<email, users, profiles, avatars, pictures, versions, history>>,
         faults' \in 0..MaxFaults, faults' \in {faults, faults + 1}
  PROVE  IInv'
<1> DEFINE W(g) == IF g = h THEN T ELSE task[g]
           Saw(t) == [t EXCEPT !.saw = @ \union {s}]
<1>1. /\ status' = [status EXCEPT ![a] = s]
      /\ UNCHANGED <<image, cache, given, answered, failed, raced>>
  BY DEF SetStatus, pictures, history
<1>2. /\ task' = [g \in Handlers |-> IF W(g).op = "status" /\ W(g).account = a
                                     THEN Saw(W(g)) ELSE W(g)]
      /\ status \in [Accounts -> Statuses] /\ faults \in 0..MaxFaults
  BY DEF SetStatus, IInv, TypeOK
<1>3. /\ T \in Task /\ Shape(T)
      /\ T.op \in {"none", "status"}
      /\ T.op = "status" => T.account = a /\ T.want = s
  <2>1. CASE T = Idle
    BY <2>1, IdleFine
  <2>2. CASE T = [task[h] EXCEPT !.pc = "answer"]
    BY <2>2, HandlerFacts DEF Task, Shape
  <2> QED BY <2>1, <2>2
<1>4. ASSUME NEW g \in Handlers
      PROVE  /\ W(g) \in Task /\ Shape(W(g))
             /\ W(g).op # "status" => task'[g] = W(g) /\ StatusInv(W(g), status)
             /\ W(g).op = "status" => /\ task'[g] \in {W(g), Saw(W(g))}
                                      /\ StatusInv(task'[g], status')
             /\ PartsInv(W(g), email, users, profiles, avatars, image, given)
             /\ PictureInv(W(g), image, cache, Unsure)
  <2>1. W(g) \in Task /\ Shape(W(g))
    BY <1>3, HandlerFacts
  <2>2. /\ PartsInv(W(g), email, users, profiles, avatars, image, given)
        /\ PictureInv(W(g), image, cache, Unsure)
    <3>1. CASE g = h
      BY <1>3, <3>1 DEF PartsInv, PictureInv, Shape
    <3>2. CASE g # h
      BY <3>2, HandlerFacts
    <3> QED BY <3>1, <3>2
  <2>3. W(g).op # "status" => task'[g] = W(g) /\ StatusInv(W(g), status)
    BY <1>2, <2>1 DEF StatusInv, Shape
  <2>4. ASSUME W(g).op = "status"
        PROVE  task'[g] \in {W(g), Saw(W(g))} /\ StatusInv(task'[g], status')
    <3>1. task'[g] = IF W(g).account = a THEN Saw(W(g)) ELSE W(g)
      BY <1>2, <2>4
    <3>2. W(g).account \in Accounts
      BY <2>1, <2>4 DEF Shape
    <3>3. CASE g = h
      <4>1. task'[g] = Saw(T) /\ T.account = a /\ T.want = s
        BY <1>3, <2>4, <3>1, <3>3
      <4> QED BY <1>1, <1>2, <1>3, <3>1, <3>3, <4>1 DEF StatusInv, Task
    <3>4. CASE g # h
      <4>1. StatusInv(task[g], status) /\ task[g] \in Task
        BY HandlerFacts
      <4> QED BY <1>1, <1>2, <2>4, <3>1, <3>2, <3>4, <4>1 DEF StatusInv, Task
    <3> QED BY <3>3, <3>4
  <2> QED BY <2>1, <2>2, <2>3, <2>4
<1>5. ASSUME NEW g \in Handlers
      PROVE  /\ task'[g] \in Task /\ Shape(task'[g]) /\ StatusInv(task'[g], status')
             /\ PartsInv(task'[g], email, users, profiles, avatars, image, given)
             /\ PictureInv(task'[g], image, cache, Unsure)
             /\ task'[g].op = "register" => task'[g] = task[g]
             /\ task'[g].todo # {} => task'[g] = task[g]
             /\ task[g].op = "register" => task'[g] = task[g]
  <2>0. task[h].todo = {} /\ T.todo = {}
    BY <1>3, HandlerFacts DEF Shape
  <2>1. CASE W(g).op # "status"
    <3>1. task'[g] = W(g) /\ StatusInv(W(g), status)
      BY <1>4, <2>1
    <3>2. StatusInv(W(g), status')
      BY <2>1, <1>4 DEF StatusInv, Shape
    <3> QED BY <1>3, <1>4, <2>0, <3>1, <3>2
  <2>2. CASE W(g).op = "status"
    <3>1. /\ W(g).todo = {} /\ W(g).pc \in {"find", "write", "answer"} /\ W(g) \in Task
          /\ task[g].op = "status"
      BY <1>4, <2>2 DEF Shape
    <3>2. Saw(W(g)) \in Task /\ Shape(Saw(W(g)))
      BY <1>4, <2>2, <3>1 DEF Task, Shape
    <3>3. /\ Saw(W(g)).op = "status" /\ Saw(W(g)).todo = {} /\ Saw(W(g)).pc # "fill"
      BY <2>2, <3>1 DEF Task
    <3>4. /\ PartsInv(Saw(W(g)), email, users, profiles, avatars, image, given)
          /\ PictureInv(Saw(W(g)), image, cache, Unsure)
      BY <3>3 DEF PartsInv, PictureInv
    <3> HIDE DEF Saw, W
    <3> QED BY <1>4, <2>2, <3>1, <3>2, <3>3, <3>4
  <2> QED BY <2>1, <2>2
<1>6. TypeOK'
  <2>1. task' \in [Handlers -> Task]
    BY <1>2, <1>5
  <2>2. status' \in [Accounts -> Statuses]
    BY <1>1, <1>2
  <2> QED BY <1>1, <2>1, <2>2 DEF IInv, TypeOK
<1>7. TasksInv'
  <2>1. Unsure' = Unsure
    BY <1>1 DEF Unsure
  <2> QED BY <1>1, <1>5, <2>1 DEF TasksInv
<1>8. RegistersAlone'
  <2>1. \A g \in Handlers, b \in Accounts : Registers(task'[g], b) => Registers(task[g], b)
    BY <1>5 DEF Registers
  <2>2. \A g \in Handlers : "user" \in task'[g].todo => task'[g] = task[g]
    BY <1>5
  <2> QED BY <2>1, <2>2 DEF IInv, RegistersAlone
<1>9. SomebodyWins'
  <2>1. \A g \in Handlers, b \in Accounts : Succeeding(task[g], b) => task'[g] = task[g]
    BY <1>5 DEF Succeeding, Registers
  <2>2. \A g \in Handlers : task'[g].op = "register" => task'[g] = task[g]
    BY <1>5
  <2>3. faults' = 0 => faults = 0 /\ users \subseteq Accounts
    BY <1>2 DEF IInv, TypeOK
  <2> QED BY <1>1, <2>1, <2>2, <2>3 DEF IInv, TypeOK, SomebodyWins
<1>10. OneUser' /\ AnsweredIsComplete' /\ CachedIsFresh'
  BY <1>1 DEF IInv, OneUser, AnsweredIsComplete, CachedIsFresh
<1> QED BY <1>6, <1>7, <1>8, <1>9, <1>10 DEF IInv

LEMMA WriteStatusStep ==
  ASSUME IInv, NEW h \in Handlers, WriteStatus(h) \/ StatusErrs(h) PROVE IInv'
<1> DEFINE t == task[h]
<1>1. /\ t.pc = "write" /\ t \in Task /\ Shape(t) /\ faults \in 0..MaxFaults
      /\ faults' \in 0..MaxFaults /\ faults' \in {faults, faults + 1}
  BY HandlerFacts, FaultFacts DEF WriteStatus, StatusErrs, IInv, TypeOK
<1>2. t.op = "status" /\ t.account \in Accounts /\ t.want \in Statuses
  BY <1>1 DEF Shape
<1>3. CASE WriteStatus(h)
  <2> DEFINE T == [t EXCEPT !.pc = "answer"]
  <2>1. T \in Task
    BY <1>1 DEF Task
  <2>2. /\ SetStatus(t.account, t.want, [task EXCEPT ![h] = T])
        /\ UNCHANGED <<email, users, profiles, avatars, pictures, versions, history>>
    <3>1. [task EXCEPT ![h].pc = "answer"] = [task EXCEPT ![h] = T]
      BY DEF IInv, TypeOK
    <3> QED BY <1>3, <3>1 DEF WriteStatus
  <2>3. T = [task[h] EXCEPT !.pc = "answer"]
    OBVIOUS
  <2> HIDE DEF T
  <2> QED BY <1>1, <1>2, <2>1, <2>2, <2>3, SetStatusStep
<1>4. CASE StatusErrs(h)
  <2>1. UNCHANGED <<email, users, profiles, avatars, pictures, versions, history>> /\ Fault
    BY <1>4 DEF StatusErrs
  <2>2. CASE SetStatus(t.account, t.want, [task EXCEPT ![h] = Idle])
    BY <1>1, <1>2, <2>1, <2>2, IdleFine, SetStatusStep
  <2>3. CASE Leave(h) /\ UNCHANGED status
    BY <1>2, <2>1, <2>3, LeaveStep DEF mongo
  <2> QED BY <1>4, <2>2, <2>3 DEF StatusErrs
<1> QED BY <1>3, <1>4

-------------------------------------------------------------------------------
(* The crash *)

LEMMA CrashStep == ASSUME IInv, Crash PROVE IInv'
<1> DEFINE cut == {h \in Handlers : task[h].todo # {}}
<1>1. PICK sent \in SUBSET {h \in cut : Ready("image", task[h].todo)
                                        /\ "image" \in task[h].todo} :
        image' = [a \in Accounts |->
                     IF \E h \in sent : task[h].account = a
                     THEN task[CHOOSE h \in sent : task[h].account = a].version
                     ELSE image[a]]
  BY DEF Crash
<1>2. /\ task' = [h \in Handlers |-> Idle]
      /\ faults' \in 0..MaxFaults /\ faults' = faults + 1 /\ faults \in Nat
      /\ failed' = failed \union {task[h].account : h \in cut}
      /\ UNCHANGED <<email, users, profiles, status, avatars, cache, versions, given,
                     answered, raced>>
  BY FaultFacts, BoundsAssumption DEF Crash, mongo, IInv, TypeOK
<1>3. \A h \in Handlers : task[h] \in Task /\ Shape(task[h])
  BY HandlerFacts
<1>4. \A h \in cut : task[h].account \in Accounts
  BY <1>3 DEF Shape
<1>5. ASSUME NEW a \in Accounts
      PROVE  /\ image'[a] \in Versions
             /\ image'[a] = image[a] \/ (image'[a] # 0 /\ a \in failed')
  <2>1. CASE \E h \in sent : task[h].account = a
    <3>1. PICK k \in sent : k = CHOOSE h \in sent : task[h].account = a
      BY <2>1
    <3>2. task[k].account = a /\ image'[a] = task[k].version
      BY <1>1, <2>1, <3>1
    <3>3. k \in Handlers /\ k \in cut /\ "image" \in task[k].todo
      BY <3>1
    <3> QED BY <1>2, <1>3, <3>2, <3>3 DEF Shape, Task
  <2>2. CASE ~\E h \in sent : task[h].account = a
    BY <1>1, <2>2 DEF IInv, TypeOK
  <2> QED BY <2>1, <2>2
<1>6. TypeOK'
  <2>1. image' \in [Accounts -> Versions]
    BY <1>1, <1>5
  <2>2. task' \in [Handlers -> Task]
    BY <1>2, IdleFine
  <2> QED BY <1>2, <1>4, <2>1, <2>2 DEF IInv, TypeOK
<1>7. TasksInv'
  BY <1>2, IdleFine DEF TasksInv
<1>8. Idle.op = "none" /\ Idle.todo = {}
  BY IdleFine
<1>9. RegistersAlone' /\ SomebodyWins'
  BY <1>2, <1>8 DEF RegistersAlone, Registers, SomebodyWins
<1>10. Grows
  BY <1>2, <1>5 DEF Grows
<1>11. OneUser' /\ AnsweredIsComplete'
  BY <1>2, <1>10, AnsweredKeeps DEF IInv, OneUser
<1>12. CachedIsFresh'
  BY <1>2, <1>5 DEF IInv, CachedIsFresh
<1> QED BY <1>6, <1>7, <1>9, <1>11, <1>12 DEF IInv

-------------------------------------------------------------------------------
(* The invariant is inductive *)

LEMMA InitInv == ASSUME Init PROVE IInv
<1>1. 0 \in Versions /\ 0 \in 0..MaxFaults
  BY BoundsAssumption DEF Versions
<1>2. TypeOK
  BY <1>1, IdleFine, ActiveAssumption DEF Init, TypeOK
<1>3. TasksInv
  BY IdleFine DEF Init, TasksInv
<1>4. RegistersAlone /\ OneUser /\ SomebodyWins
  BY IdleFine DEF Init, RegistersAlone, Registers, OneUser, SomebodyWins
<1>5. AnsweredIsComplete /\ CachedIsFresh
  BY DEF Init, AnsweredIsComplete, CachedIsFresh
<1> QED BY <1>2, <1>3, <1>4, <1>5 DEF IInv

LEMMA NextInv == ASSUME IInv, [Next]_vars PROVE IInv'
<1>1. CASE UNCHANGED vars
  <2>1. UNCHANGED <<email, users, profiles, status, avatars, image, cache, task,
                    versions, faults, given, answered, failed, raced>>
    BY <1>1 DEF vars, mongo, pictures, history
  <2>2. TypeOK' /\ TasksInv'
    BY <2>1 DEF IInv, TypeOK, TasksInv, Unsure
  <2>3. RegistersAlone' /\ OneUser' /\ SomebodyWins'
    BY <2>1 DEF IInv, RegistersAlone, OneUser, SomebodyWins
  <2>4. AnsweredIsComplete' /\ CachedIsFresh'
    BY <2>1 DEF IInv, AnsweredIsComplete, CachedIsFresh
  <2> QED BY <2>2, <2>3, <2>4 DEF IInv
<1>2. ASSUME NEW h \in Handlers,
             \/ BeginRegister(h) \/ BeginUpload(h) \/ BeginGet(h) \/ BeginStatus(h)
             \/ Step(h) \/ PartErrs(h) \/ FetchErrs(h) \/ StatusErrs(h)
      PROVE  IInv'
  BY <1>2, BeginRegisterStep, BeginUploadStep, GetStep, AskStatusStep, PartsStep,
     PartsEndStep, FillCachedStep, WriteStatusStep DEF Step
<1> QED BY <1>1, <1>2, ExpireStep, CrashStep DEF Next

THEOREM Invariant == Spec => []IInv
<1> QED BY InitInv, NextInv, PTL DEF Spec

-------------------------------------------------------------------------------
(* What it gives *)

(* The variables keep their types, and no profile is named that does not   *)
(* exist, whatever fails and in whatever order the parallel writes come.   *)
THEOREM Types == Spec => []TypeOK
<1>1. IInv => TypeOK
  BY DEF IInv
<1> QED BY Invariant, <1>1, PTL

(* A registration that has succeeded has left nothing out.                 *)
THEOREM Complete == Spec => []AnsweredIsComplete
<1>1. IInv => AnsweredIsComplete
  BY DEF IInv
<1> QED BY Invariant, <1>1, PTL

(* Of the registrations with one address one succeeds, and only one.       *)
THEOREM Owners == Spec => []OneOwner
<1>1. ASSUME IInv PROVE OneOwner
  <2> SUFFICES ASSUME NEW e \in Emails
               PROVE  /\ Cardinality({a \in answered : email[a] = e}) <= 1
                      /\ (Quiet /\ faults = 0 /\ \E a \in Accounts : email[a] = e) =>
                            {a \in answered : email[a] = e} # {}
    BY DEF OneOwner
  <2> DEFINE own == {a \in answered : email[a] = e}
  <2>1. \A a, b \in own : a = b
    BY <1>1 DEF IInv, AnsweredIsComplete, OneUser
  <2>2. Cardinality(own) <= 1
    <3>1. CASE own = {}
      <4>1. Cardinality(own) = 0
        BY <3>1, FS_EmptySet
      <4> QED BY <4>1
    <3>2. CASE own # {}
      <4>1. PICK a \in own : own = {a}
        BY <2>1, <3>2
      <4> HIDE DEF own
      <4>2. Cardinality(own) = 1
        BY <4>1, FS_Singleton
      <4> QED BY <4>2
    <3> QED BY <3>1, <3>2
  <2>3. ASSUME Quiet, faults = 0, NEW a \in Accounts, email[a] = e PROVE own # {}
    <3>1. \A h \in Handlers, b \in Accounts : ~Succeeding(task[h], b)
      BY <2>3 DEF Quiet, Succeeding
    <3>2. PICK u \in users : email[u] = e
      BY <1>1, <2>3, <3>1, NoneAssumption DEF IInv, SomebodyWins
    <3>3. u \in answered
      BY <1>1, <2>3, <3>1, <3>2 DEF IInv, TypeOK, SomebodyWins
    <3> QED BY <3>2, <3>3
  <2> QED BY <2>2, <2>3
<1> QED BY Invariant, <1>1, PTL

(* A cached image is the stored one unless readers and uploads overlapped. *)
THEOREM Fresh == Spec => []CachedIsFresh
<1>1. IInv => CachedIsFresh
  BY DEF IInv
<1> QED BY Invariant, <1>1, PTL

(* A change of status is answered with a status the profile has had.       *)
THEOREM StatusAnswers == Spec => []AnswerWasTrue
<1>1. IInv => AnswerWasTrue
  BY DEF IInv, TasksInv, StatusInv, AnswerWasTrue
<1> QED BY Invariant, <1>1, PTL

===============================================================================
