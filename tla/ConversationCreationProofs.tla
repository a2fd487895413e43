---------------------- MODULE ConversationCreationProofs ----------------------
(***************************************************************************)
(* Theorems about ConversationCreation for all users, handlers, requests   *)
(* and bounds.                                                             *)
(***************************************************************************)
EXTENDS ConversationCreation, FiniteSetTheorems, TLAPS

-------------------------------------------------------------------------------
(* The inductive invariant *)

Answering == {"post", "emit"}

(* What a handler holds: the request, and once it has a conversation the   *)
(* members it is going to tell, who are just those asked for unless the    *)
(* request repeats some.                                                   *)
TaskInv(t, count, was) ==
    /\ t.pc # "idle" => t.asked # <<>>
    /\ t.pc \in Answering => t.conv \in 1..count /\ t.snap \subseteq was[t.conv]
    /\ t.pc \notin Answering => t.conv = None
    /\ t.conv # None /\ IsInjective(t.asked) => t.snap = ToSet(t.asked)

TasksInv == \A h \in Handlers : TaskInv(task[h], made, ever)

(* Whoever has created a conversation is going to announce it.             *)
Telling(h, i) ==
    task[h].conv = i /\ task[h].asked = founders[i] /\ task[h].snap = ToSet(founders[i])

AllTold(i) == \A u \in ToSet(founders[i]) \ {Last(founders[i])} : <<i, u>> \in told

FoundersInv ==
    \A i \in 1..made \ cut : AllTold(i) \/ \E h \in Handlers : Telling(h, i)

ToldWereMembers == \A x \in told : x[1] \in 1..made /\ x[2] \in ever[x[1]]

MembersOnRecord == \A i \in 1..made : ToSet(members[i]) \subseteq ever[i]

IInv ==
    /\ TypeOK
    /\ TasksInv
    /\ FoundersInv
    /\ ToldWereMembers
    /\ MembersOnRecord

-------------------------------------------------------------------------------
(* Sequences *)

LEMMA ToSetIn ==
  ASSUME NEW S, NEW s \in Seq(S)
  PROVE  ToSet(s) \subseteq S
  BY DEF ToSet

LEMMA ToSetAppend ==
  ASSUME NEW S, NEW s \in Seq(S), NEW x \in S
  PROVE  Append(s, x) \in Seq(S) /\ ToSet(Append(s, x)) = ToSet(s) \union {x}
<1>1. /\ Append(s, x) \in Seq(S) /\ Len(Append(s, x)) = Len(s) + 1
      /\ \A k \in 1..Len(s) : Append(s, x)[k] = s[k]
      /\ Append(s, x)[Len(s) + 1] = x
  OBVIOUS
<1>2. Len(s) \in Nat /\ DOMAIN s = 1..Len(s) /\ DOMAIN Append(s, x) = 1..Len(s) + 1
  BY <1>1
<1>3. ToSet(Append(s, x)) \subseteq ToSet(s) \union {x}
  BY <1>1, <1>2 DEF ToSet
<1>4. ToSet(s) \union {x} \subseteq ToSet(Append(s, x))
  BY <1>1, <1>2 DEF ToSet
<1> QED BY <1>1, <1>3, <1>4

LEMMA WithoutIn ==
  ASSUME NEW list \in Lists, NEW u, NEW rest \in Without(list, u)
  PROVE  rest \in Lists /\ ToSet(rest) \subseteq ToSet(list)
<1>1. PICK m \in 0..Len(list) : rest \in [1..m -> ToSet(list) \ {u}]
  BY DEF Without, SeqOf
<1>2. ToSet(list) \subseteq Users
  BY ToSetIn DEF Lists
<1>3. m \in Nat
  BY <1>1 DEF Lists
<1>4. rest \in Seq(Users)
  BY <1>1, <1>2, <1>3
<1>5. ToSet(rest) \subseteq ToSet(list)
  BY <1>1 DEF ToSet
<1> QED BY <1>4, <1>5 DEF Lists

(* An array without repetition fills another one of its length that has    *)
(* all its elements.                                                       *)
LEMMA Fills ==
  ASSUME NEW s \in Lists, NEW t \in Lists, IsInjective(s), Len(s) = Len(t),
         ToSet(s) \subseteq ToSet(t)
  PROVE  ToSet(t) = ToSet(s)
<1> DEFINE N == 1..Len(s)
<1>1. /\ Len(s) \in Nat /\ DOMAIN s = N /\ DOMAIN t = N
      /\ s \in [N -> Users] /\ t \in [N -> Users]
  BY DEF Lists
<1>2. IsFiniteSet(N) /\ Cardinality(N) = Len(s)
  <2>1. Len(s) \in Int /\ 1 \in Int
    BY <1>1
  <2>2. IsFiniteSet(1..Len(s)) /\ Cardinality(1..Len(s)) = IF 1 > Len(s) THEN 0 ELSE Len(s) - 1 + 1
    BY <2>1, FS_Interval
  <2> QED BY <1>1, <2>2
<1> HIDE DEF N
<1>3. ToSet(s) = {s[k] : k \in N} /\ ToSet(t) = {t[k] : k \in N}
  BY <1>1 DEF ToSet
<1>4. s \in Injection(N, ToSet(s)) /\ s \in Surjection(N, ToSet(s))
  BY <1>1, <1>3 DEF IsInjective, Injection, Surjection
<1>5. IsFiniteSet(ToSet(s)) /\ Cardinality(ToSet(s)) = Len(s)
  BY <1>2, <1>4, FS_Surjection
<1>6. t \in Surjection(N, ToSet(t))
  BY <1>1, <1>3 DEF Surjection
<1>7. IsFiniteSet(ToSet(t)) /\ Cardinality(ToSet(t)) <= Len(s)
  BY <1>2, <1>6, FS_Surjection
<1>8. Cardinality(ToSet(t)) = Cardinality(ToSet(s))
  <2>1. Cardinality(ToSet(s)) <= Cardinality(ToSet(t))
    BY <1>7, FS_Subset
  <2>2. Cardinality(ToSet(t)) \in Nat /\ Cardinality(ToSet(s)) \in Nat
    BY <1>5, <1>7, FS_CardinalityType
  <2> QED BY <1>1, <1>5, <1>7, <2>1, <2>2
<1> QED BY <1>7, <1>8, FS_Subset

-------------------------------------------------------------------------------
(* What the steps share *)

LEMMA Becomes ==
  ASSUME TypeOK, NEW h \in Handlers, NEW t \in Task, Become(h, t)
  PROVE  /\ task' \in [Handlers -> Task] /\ task'[h] = t
         /\ \A g \in Handlers \ {h} : task'[g] = task[g]
  BY DEF Become, TypeOK

LEMMA MadeAreIds == ASSUME TypeOK PROVE made \in Nat /\ 1..made \subseteq Ids
  BY BoundsAssumption DEF TypeOK, Ids

LEMMA IdleIsTask == Idle \in Task /\ \A count, was : TaskInv(Idle, count, was)
  <1>1. <<>> \in Lists
    BY DEF Lists
  <1>2. Idle \in Task
    BY <1>1 DEF Idle, Task
  <1> QED BY <1>2 DEF Idle, TaskInv, Answering

LEMMA Leaves ==
  ASSUME TypeOK, NEW h \in Handlers, Leave(h)
  PROVE  /\ task' \in [Handlers -> Task] /\ task'[h] = Idle
         /\ \A g \in Handlers \ {h} : task'[g] = task[g]
  BY IdleIsTask, Becomes DEF Leave

LEMMA Goes ==
  ASSUME TypeOK, NEW h \in Handlers, NEW pc \in {"look", "create", "post", "emit"},
         Goto(h, pc)
  PROVE  /\ task' \in [Handlers -> Task] /\ task'[h] = [task[h] EXCEPT !.pc = pc]
         /\ \A g \in Handlers \ {h} : task'[g] = task[g]
<1>1. [task[h] EXCEPT !.pc = pc] \in Task
  BY DEF TypeOK, Task
<1> QED BY <1>1, Becomes DEF Goto

(* Conversations are only added, and those who have been in one remain on  *)
(* record.                                                                 *)
LEMMA TaskInvGrows ==
  ASSUME NEW t, NEW count \in Nat, NEW more \in Nat, count <= more, NEW was, NEW is,
         \A i \in 1..count : was[i] \subseteq is[i], TaskInv(t, count, was)
  PROVE  TaskInv(t, more, is)
  BY DEF TaskInv

(* A handler holds a conversation when it answers, and only then.          *)
LEMMA HoldsWhenAnswering ==
  ASSUME NEW t, NEW count \in Nat, NEW was, TaskInv(t, count, was)
  PROVE  t.pc \in {"post", "emit"} <=> t.conv \in 1..count
  BY NoneAssumption DEF TaskInv, Answering

(* The collection keeps its form: what is left to show of a step that does *)
(* not touch it.                                                           *)
LEMMA SameCollection ==
  ASSUME IInv, UNCHANGED Collection, told' = told, cut \subseteq cut', cut' \subseteq Ids,
         faults' \in 0..MaxFaults, task' \in [Handlers -> Task], TasksInv',
         \A h \in Handlers, i \in 1..made \ cut' : Telling(h, i) => Telling(h, i)'
  PROVE  IInv'
<1> USE DEF Collection
<1>1. TypeOK'
  <2>1. \A h \in Handlers : task'[h].pc \in {"post", "emit"} <=> task'[h].conv \in 1..made'
    BY HoldsWhenAnswering DEF IInv, TypeOK, TasksInv
  <2> QED BY <2>1 DEF IInv, TypeOK
<1>2. FoundersInv'
  BY DEF IInv, FoundersInv, AllTold
<1>3. ToldWereMembers' /\ MembersOnRecord'
  BY DEF IInv, ToldWereMembers, MembersOnRecord
<1> QED BY <1>1, <1>2, <1>3 DEF IInv

(* A document is inserted beside the others.                               *)
LEMMA Inserted ==
  ASSUME IInv, NEW t \in Task, Insert(t)
  PROVE  /\ made' = made + 1 /\ made \in Nat /\ made' \in Ids /\ made' \in 0..MaxMade
         /\ changes' = changes
         /\ members' \in [Ids -> Lists] /\ founders' \in [Ids -> Lists]
         /\ ever' \in [Ids -> SUBSET Users]
         /\ founders'[made + 1] = t.asked /\ ever'[made + 1] = ToSet(t.asked)
         /\ \A i \in 1..made : founders'[i] = founders[i] /\ ever'[i] = ever[i]
         /\ MembersOnRecord'
<1>1. /\ made \in Nat /\ made < MaxMade /\ MaxMade \in Nat /\ made' = made + 1
      /\ made + 1 \in Ids /\ changes' = changes /\ t.asked \in Lists
      /\ 1..made \subseteq Ids /\ made + 1 \notin 1..made
      /\ 1..made' = 1..made \union {made + 1}
  BY BoundsAssumption DEF Insert, IInv, TypeOK, Ids, Task
<1>2. ToSet(t.asked) \subseteq Users
  BY <1>1, ToSetIn DEF Lists
<1>3. /\ members' \in [Ids -> Lists] /\ members'[made + 1] = t.asked
      /\ \A i \in 1..made : members'[i] = members[i]
  BY <1>1 DEF Insert, IInv, TypeOK
<1>4. /\ founders' \in [Ids -> Lists] /\ founders'[made + 1] = t.asked
      /\ \A i \in 1..made : founders'[i] = founders[i]
  BY <1>1 DEF Insert, IInv, TypeOK
<1>5. /\ ever' \in [Ids -> SUBSET Users] /\ ever'[made + 1] = ToSet(t.asked)
      /\ \A i \in 1..made : ever'[i] = ever[i]
  BY <1>1, <1>2 DEF Insert, IInv, TypeOK
<1>6. MembersOnRecord'
  BY <1>1, <1>3, <1>5 DEF IInv, MembersOnRecord
<1>7. made' \in 0..MaxMade
  BY <1>1
<1> QED BY <1>1, <1>3, <1>4, <1>5, <1>6, <1>7

-------------------------------------------------------------------------------
(* The steps of a handler *)

LEMMA InitInv == Init => IInv
<1> SUFFICES ASSUME Init PROVE IInv
  OBVIOUS
<1>1. <<>> \in Lists /\ 1..made = {} /\ made \in 0..MaxMade
  BY BoundsAssumption DEF Init, Lists
<1>2. TypeOK
  <2>1. \A h \in Handlers : task[h].pc \in {"post", "emit"} <=> task[h].conv \in 1..made
    BY <1>1 DEF Init, Idle
  <2>2. /\ members \in [Ids -> Lists] /\ founders \in [Ids -> Lists]
        /\ ever \in [Ids -> SUBSET Users] /\ task \in [Handlers -> Task]
    BY <1>1, IdleIsTask DEF Init
  <2>3. changes \in 0..MaxChanges /\ faults \in 0..MaxFaults
    BY BoundsAssumption DEF Init
  <2> QED BY <1>1, <2>1, <2>2, <2>3 DEF Init, TypeOK
<1>3. TasksInv
  BY IdleIsTask DEF Init, TasksInv
<1>4. FoundersInv /\ ToldWereMembers /\ MembersOnRecord
  BY <1>1 DEF Init, FoundersInv, ToldWereMembers, MembersOnRecord
<1> QED BY <1>2, <1>3, <1>4 DEF IInv

(* A handler without a conversation tells nobody of one.                   *)
LEMMA NothingToTell ==
  ASSUME IInv, NEW h \in Handlers, task[h].pc \notin Answering, NEW i \in 1..made
  PROVE  ~Telling(h, i)
  BY NoneAssumption DEF IInv, TypeOK, TasksInv, TaskInv, Telling

LEMMA BeginKeeps ==
  ASSUME IInv, NEW h \in Handlers, Begin(h)
  PROVE  IInv'
<1>1. PICK asked \in Requests : Become(h, [Idle EXCEPT !.pc = "look", !.asked = asked])
  BY DEF Begin
<1> DEFINE t == [Idle EXCEPT !.pc = "look", !.asked = asked]
<1>2. t \in Task /\ TaskInv(t, made, ever)
  <2>1. asked \in Lists /\ asked # <<>>
    BY RequestsAssumption DEF Lists
  <2> QED BY <2>1, IdleIsTask DEF Idle, Task, TaskInv, Answering
<1>3. /\ task' \in [Handlers -> Task] /\ task'[h] = t
      /\ \A g \in Handlers \ {h} : task'[g] = task[g]
  BY <1>1, <1>2, Becomes DEF IInv
<1> HIDE DEF t
<1>4. TasksInv'
  BY <1>2, <1>3 DEF Begin, Collection, IInv, TasksInv
<1>5. task[h].pc \notin Answering
  BY DEF Begin, Answering
<1>6. \A g \in Handlers, i \in 1..made \ cut' : Telling(g, i) => Telling(g, i)'
  BY <1>3, <1>5, NothingToTell DEF Begin, Collection, Telling
<1>7. UNCHANGED <<Collection, Rest>>
  BY DEF Begin
<1> QED BY <1>3, <1>4, <1>6, <1>7, SameCollection DEF Rest, IInv, TypeOK

LEMMA LookKeeps ==
  ASSUME IInv, NEW h \in Handlers, LookForConversation(h)
  PROVE  IInv'
<1>1. task[h].pc = "look" /\ UNCHANGED <<Collection, Rest>> /\ task[h].pc \notin Answering
  BY DEF LookForConversation, Answering
<1>2. /\ task' \in [Handlers -> Task] /\ TaskInv(task'[h], made, ever)
      /\ \A g \in Handlers \ {h} : task'[g] = task[g]
  <2>1. task[h] \in Task /\ TaskInv(task[h], made, ever) /\ task[h].conv = None
    BY <1>1 DEF IInv, TypeOK, TasksInv, TaskInv
  <2>2. CASE Goto(h, "create")
    <3>1. TaskInv([task[h] EXCEPT !.pc = "create"], made, ever)
      BY <1>1, <2>1 DEF TaskInv, Answering, Task
    <3> QED BY <2>2, <3>1, Goes DEF IInv
  <2>3. ASSUME NEW i \in Matching(task[h]),
               Become(h, [task[h] EXCEPT !.pc = "post", !.conv = i, !.snap = ToSet(members[i])])
        PROVE  /\ task' \in [Handlers -> Task] /\ TaskInv(task'[h], made, ever)
               /\ \A g \in Handlers \ {h} : task'[g] = task[g]
    <3> DEFINE t == [task[h] EXCEPT !.pc = "post", !.conv = i, !.snap = ToSet(members[i])]
    <3>1. /\ i \in 1..made /\ i \in Ids /\ members[i] \in Lists /\ task[h].asked \in Lists
          /\ ToSet(task[h].asked) \subseteq ToSet(members[i])
          /\ Len(task[h].asked) = Len(members[i])
      <4>1. i \in 1..made /\ i \in Ids
        BY MadeAreIds DEF Matching, IInv
      <4> QED BY <2>1, <4>1 DEF Matching, IInv, TypeOK, Task
    <3>2. ToSet(members[i]) \subseteq Users /\ ToSet(members[i]) \subseteq ever[i]
      BY <3>1, ToSetIn DEF Lists, IInv, MembersOnRecord
    <3>3. IsInjective(task[h].asked) => ToSet(members[i]) = ToSet(task[h].asked)
      BY <3>1, Fills
    <3>4. t \in Task
      BY <2>1, <3>1, <3>2 DEF Task
    <3>5. TaskInv(t, made, ever)
      BY <1>1, <2>1, <3>1, <3>2, <3>3 DEF TaskInv, Answering, Task
    <3> HIDE DEF t
    <3>6. Become(h, t)
      BY <2>3 DEF t
    <3> QED BY <3>4, <3>5, <3>6, Becomes DEF IInv
  <2> QED BY <2>2, <2>3 DEF LookForConversation
<1>3. TasksInv'
  BY <1>1, <1>2 DEF Collection, IInv, TasksInv
<1>4. \A g \in Handlers, i \in 1..made \ cut' : Telling(g, i) => Telling(g, i)'
  BY <1>1, <1>2, NothingToTell DEF Collection, Telling
<1> QED BY <1>1, <1>2, <1>3, <1>4, SameCollection DEF Rest, IInv, TypeOK

LEMMA DuplicateKeyKeeps ==
  ASSUME IInv, NEW h \in Handlers, DuplicateKey(h)
  PROVE  IInv'
<1>1. task[h].pc \notin Answering /\ UNCHANGED <<Collection, Rest>>
  BY DEF DuplicateKey, Answering
<1>2. /\ task' \in [Handlers -> Task] /\ task'[h] = Idle
      /\ \A g \in Handlers \ {h} : task'[g] = task[g]
  BY Leaves DEF DuplicateKey, Refused, IInv
<1>3. TasksInv'
  BY <1>1, <1>2, IdleIsTask DEF Collection, IInv, TasksInv
<1>4. \A g \in Handlers, i \in 1..made \ cut' : Telling(g, i) => Telling(g, i)'
  BY <1>1, <1>2, NothingToTell DEF Collection, Telling
<1> QED BY <1>1, <1>2, <1>3, <1>4, SameCollection DEF Rest, IInv, TypeOK

LEMMA PostKeeps ==
  ASSUME IInv, NEW h \in Handlers, Post(h)
  PROVE  IInv'
<1>1. task[h].pc = "post" /\ Goto(h, "emit") /\ UNCHANGED <<Collection, Rest>>
  BY DEF Post, AfterPost
<1>2. /\ task' \in [Handlers -> Task] /\ task'[h] = [task[h] EXCEPT !.pc = "emit"]
      /\ \A g \in Handlers \ {h} : task'[g] = task[g]
  BY <1>1, Goes DEF IInv
<1>3. task[h] \in Task /\ TaskInv(task[h], made, ever)
  BY DEF IInv, TypeOK, TasksInv
<1>4. TaskInv(task'[h], made, ever)
  BY <1>1, <1>2, <1>3 DEF TaskInv, Answering, Task
<1>5. TasksInv'
  BY <1>1, <1>2, <1>4 DEF Collection, IInv, TasksInv
<1>6. \A g \in Handlers, i \in 1..made \ cut' : Telling(g, i) => Telling(g, i)'
  BY <1>1, <1>2, <1>3 DEF Collection, Telling, Task
<1> QED BY <1>1, <1>2, <1>5, <1>6, SameCollection DEF Rest, IInv, TypeOK

(* An insert, whether its handler goes on (Create) or has the error.       *)
LEMMA InsertKeeps ==
  ASSUME IInv, NEW h \in Handlers, task[h].pc = "create",
         Accepts(task[h].asked, 1..made), Insert(task[h]),
         task' \in [Handlers -> Task], \A g \in Handlers \ {h} : task'[g] = task[g],
         TaskInv(task'[h], made', ever'),
         told' = told, cut \subseteq cut', cut' \subseteq Ids, faults' \in 0..MaxFaults,
         Telling(h, made)' \/ made' \in cut'
  PROVE  IInv'
<1>1. task[h] \in Task
  BY DEF IInv, TypeOK
<1>2. /\ made' = made + 1 /\ made \in Nat /\ made' \in 0..MaxMade
      /\ changes' = changes
      /\ members' \in [Ids -> Lists] /\ founders' \in [Ids -> Lists]
      /\ ever' \in [Ids -> SUBSET Users]
      /\ \A i \in 1..made : founders'[i] = founders[i] /\ ever'[i] = ever[i]
      /\ MembersOnRecord'
  BY <1>1, Inserted
<1>3. TasksInv'
  <2> SUFFICES ASSUME NEW g \in Handlers PROVE TaskInv(task'[g], made', ever')
    BY DEF TasksInv
  <2>1. CASE g = h
    BY <2>1
  <2>2. CASE g # h
    <3>1. TaskInv(task[g], made, ever) /\ task'[g] = task[g] /\ made' \in Nat /\ made <= made'
      BY <1>2, <2>2 DEF IInv, TasksInv
    <3> QED BY <1>2, <3>1, TaskInvGrows
  <2> QED BY <2>1, <2>2
<1>4. TypeOK'
  <2>1. \A g \in Handlers : task'[g].pc \in {"post", "emit"} <=> task'[g].conv \in 1..made'
    BY <1>2, <1>3, HoldsWhenAnswering DEF TasksInv
  <2>2. told' \subseteq Ids \X Users /\ changes' \in 0..MaxChanges
    BY <1>2 DEF IInv, TypeOK
  <2> QED BY <1>2, <2>1, <2>2 DEF TypeOK
<1>5. FoundersInv'
  <2> SUFFICES ASSUME NEW i \in 1..made' \ cut'
               PROVE  AllTold(i)' \/ \E g \in Handlers : Telling(g, i)'
    BY DEF FoundersInv
  <2>1. CASE i = made'
    BY <2>1
  <2>2. CASE i \in 1..made
    <3>1. task[h].pc \notin Answering
      BY DEF Answering
    <3>2. ~Telling(h, i)
      BY <2>2, <3>1, NothingToTell
    <3>3. AllTold(i) \/ \E g \in Handlers \ {h} : Telling(g, i)
      BY <2>2, <3>2 DEF IInv, FoundersInv
    <3>4. CASE AllTold(i)
      BY <1>2, <2>2, <3>4 DEF AllTold
    <3>5. ASSUME NEW g \in Handlers \ {h}, Telling(g, i) PROVE Telling(g, i)'
      BY <1>2, <2>2, <3>5 DEF Telling
    <3> QED BY <3>3, <3>4, <3>5
  <2> QED BY <1>2, <2>1, <2>2
<1>6. ToldWereMembers'
  BY <1>2 DEF IInv, ToldWereMembers
<1> QED BY <1>2, <1>3, <1>4, <1>5, <1>6 DEF IInv

LEMMA CreateKeeps ==
  ASSUME IInv, NEW h \in Handlers, Create(h)
  PROVE  IInv'
<1> DEFINE t == [task[h] EXCEPT !.pc = "post", !.conv = made + 1,
                                !.snap = ToSet(task[h].asked)]
<1>1. /\ task[h].pc = "create" /\ Accepts(task[h].asked, 1..made) /\ Insert(task[h])
      /\ Become(h, t) /\ UNCHANGED Rest
  BY DEF Create
<1>2. task[h] \in Task /\ TaskInv(task[h], made, ever)
  BY DEF IInv, TypeOK, TasksInv
<1>3. /\ made' = made + 1 /\ made \in Nat /\ made + 1 \in Ids
      /\ founders'[made + 1] = task[h].asked /\ ever'[made + 1] = ToSet(task[h].asked)
  BY <1>1, <1>2, Inserted
<1>4. ToSet(task[h].asked) \subseteq Users
  BY <1>2, ToSetIn DEF Task, Lists
<1>5. t \in Task /\ TaskInv(t, made', ever') /\ t.conv = made'
      /\ t.asked = task[h].asked /\ t.snap = ToSet(task[h].asked)
  <2>1. /\ t \in Task /\ t.pc = "post" /\ t.conv = made'
        /\ t.asked = task[h].asked /\ t.snap = ToSet(task[h].asked)
    BY <1>2, <1>3, <1>4 DEF Task
  <2>2. task[h].asked # <<>> /\ made' \in 1..made'
    BY <1>1, <1>2, <1>3 DEF TaskInv
  <2>3. t.snap \subseteq ever'[t.conv]
    BY <1>3, <2>1
  <2> HIDE DEF t
  <2> QED BY <2>1, <2>2, <2>3 DEF TaskInv, Answering
<1> HIDE DEF t
<1>6. /\ task' \in [Handlers -> Task] /\ task'[h] = t
      /\ \A g \in Handlers \ {h} : task'[g] = task[g]
  BY <1>1, <1>5, Becomes DEF IInv
<1>7. Telling(h, made)'
  BY <1>3, <1>5, <1>6 DEF Telling
<1> QED BY <1>1, <1>5, <1>6, <1>7, InsertKeeps DEF Rest, IInv, TypeOK

LEMMA EmitKeeps ==
  ASSUME IInv, NEW h \in Handlers, Emit(h)
  PROVE  IInv'
<1> DEFINE news == {<<task[h].conv, u>> : u \in task[h].snap \ {Last(task[h].asked)}}
<1>1. /\ task[h].pc = "emit" /\ told' = told \union news /\ Leave(h)
      /\ UNCHANGED <<Collection, cut, faults>>
  BY DEF Emit
<1>2. /\ task' \in [Handlers -> Task] /\ task'[h] = Idle
      /\ \A g \in Handlers \ {h} : task'[g] = task[g]
  BY <1>1, Leaves DEF IInv
<1>3. TasksInv'
  BY <1>1, <1>2, IdleIsTask DEF Collection, IInv, TasksInv
<1>4. /\ task[h].conv \in 1..made /\ task[h].conv \in Ids
      /\ task[h].snap \subseteq ever[task[h].conv] /\ task[h].snap \subseteq Users
  <2>1. task[h] \in Task /\ TaskInv(task[h], made, ever)
    BY DEF IInv, TypeOK, TasksInv
  <2> QED BY <1>1, <2>1, MadeAreIds DEF TaskInv, Answering, Task, IInv
<1>5. \A x \in news : x \in Ids \X Users /\ x[1] \in 1..made /\ x[2] \in ever[x[1]]
  BY <1>4
<1>6. FoundersInv'
  <2> SUFFICES ASSUME NEW i \in 1..made \ cut
               PROVE  AllTold(i)' \/ \E g \in Handlers : Telling(g, i)'
    BY <1>1 DEF FoundersInv, Collection
  <2>1. CASE AllTold(i)
    BY <1>1, <2>1 DEF AllTold, Collection
  <2>2. CASE Telling(h, i)
    BY <1>1, <2>2 DEF AllTold, Telling, Collection
  <2>3. CASE \E g \in Handlers \ {h} : Telling(g, i)
    BY <1>1, <1>2, <2>3 DEF Telling, Collection
  <2> QED BY <2>1, <2>2, <2>3 DEF IInv, FoundersInv
<1>7. ToldWereMembers'
  BY <1>1, <1>5 DEF IInv, ToldWereMembers, Collection
<1>8. TypeOK'
  <2>1. \A g \in Handlers : task'[g].pc \in {"post", "emit"} <=> task'[g].conv \in 1..made'
    BY <1>1, <1>3, HoldsWhenAnswering, MadeAreIds DEF TasksInv, IInv, Collection
  <2>2. told' \subseteq Ids \X Users
    BY <1>1, <1>5 DEF IInv, TypeOK
  <2> QED BY <1>1, <1>2, <2>1, <2>2 DEF IInv, TypeOK, Collection
<1>9. MembersOnRecord'
  BY <1>1 DEF IInv, MembersOnRecord, Collection
<1> QED BY <1>3, <1>6, <1>7, <1>8, <1>9 DEF IInv

-------------------------------------------------------------------------------
(* Errors and restarts *)

LEMMA ErrsKeeps ==
  ASSUME IInv, NEW h \in Handlers, Errs(h)
  PROVE  IInv'
<1>1. /\ task' \in [Handlers -> Task] /\ task'[h] = Idle
      /\ \A g \in Handlers \ {h} : task'[g] = task[g]
  BY Leaves DEF Errs, IInv
<1>2. told' = told
  BY DEF Errs
<1>3. CASE Fault({task[h].conv} \ {None}) /\ UNCHANGED Collection
  <2>1. /\ cut' = cut \union ({task[h].conv} \ {None})
        /\ cut' \subseteq Ids /\ faults' \in 0..MaxFaults
    BY <1>3, BoundsAssumption DEF Fault, IInv, TypeOK, Task
  <2>2. TasksInv'
    BY <1>1, <1>3, IdleIsTask DEF Collection, IInv, TasksInv
  <2>3. \A g \in Handlers, i \in 1..made \ cut' : Telling(g, i) => Telling(g, i)'
    <3> SUFFICES ASSUME NEW g \in Handlers, NEW i \in 1..made \ cut', Telling(g, i)
                 PROVE  Telling(g, i)'
      OBVIOUS
    <3>1. i # None
      BY NoneAssumption
    <3>2. g # h
      BY <2>1, <3>1 DEF Telling
    <3> QED BY <1>1, <1>3, <3>2 DEF Telling, Collection
  <2> QED BY <1>1, <1>2, <1>3, <2>1, <2>2, <2>3, SameCollection
<1>4. CASE /\ task[h].pc = "create" /\ Accepts(task[h].asked, 1..made)
           /\ Insert(task[h]) /\ Fault({made + 1})
  <2>1. made' = made + 1 /\ made' \in Ids
    BY <1>4, Inserted DEF IInv, TypeOK
  <2>2. cut' = cut \union {made'} /\ cut' \subseteq Ids /\ faults' \in 0..MaxFaults
    BY <1>4, <2>1, BoundsAssumption DEF Fault, IInv, TypeOK
  <2>3. TaskInv(task'[h], made', ever')
    BY <1>1, IdleIsTask
  <2> QED BY <1>1, <1>2, <1>4, <2>2, <2>3, InsertKeeps
<1> QED BY <1>3, <1>4 DEF Errs

LEMMA CrashKeeps ==
  ASSUME IInv, Crash
  PROVE  IInv'
<1> DEFINE held == {task[h].conv : h \in Handlers} \ {None}
<1>1. /\ task' = [h \in Handlers |-> Idle] /\ UNCHANGED <<Collection, told>>
      /\ cut' = cut \union held /\ faults' = faults + 1 /\ faults < MaxFaults
  BY DEF Crash, Fault
<1>2. held \subseteq Ids
  BY DEF IInv, TypeOK, Task
<1>3. task' \in [Handlers -> Task] /\ TasksInv'
  BY <1>1, IdleIsTask DEF TasksInv
<1>4. \A g \in Handlers, i \in 1..made \ cut' : ~Telling(g, i)
  <2> SUFFICES ASSUME NEW g \in Handlers, NEW i \in 1..made \ cut', Telling(g, i)
               PROVE  FALSE
    OBVIOUS
  <2>1. i # None /\ i = task[g].conv
    BY NoneAssumption DEF Telling
  <2> QED BY <1>1, <2>1
<1>5. cut' \subseteq Ids /\ faults' \in 0..MaxFaults
  BY <1>1, <1>2, BoundsAssumption DEF IInv, TypeOK
<1> QED BY <1>1, <1>3, <1>4, <1>5, SameCollection

-------------------------------------------------------------------------------
(* Changes of groups *)

LEMMA MembersChange ==
  ASSUME IInv, NEW i \in 1..made, NEW list \in Lists,
         members' = [members EXCEPT ![i] = list],
         ever' \in [Ids -> SUBSET Users],
         \A j \in 1..made : ever[j] \subseteq ever'[j],
         ToSet(list) \subseteq ever'[i],
         changes < MaxChanges, changes' = changes + 1,
         UNCHANGED <<made, founders, task, Rest>>
  PROVE  IInv'
<1>1. 1..made \subseteq Ids /\ made \in Nat
  BY MadeAreIds DEF IInv
<1>2. /\ members' \in [Ids -> Lists] /\ members'[i] = list
      /\ \A j \in 1..made \ {i} : members'[j] = members[j]
  BY <1>1 DEF IInv, TypeOK
<1>3. TasksInv'
  BY <1>1, TaskInvGrows DEF IInv, TasksInv
<1>4. TypeOK'
  <2>1. changes' \in 0..MaxChanges
    BY BoundsAssumption DEF IInv, TypeOK
  <2> QED BY <1>2, <2>1 DEF IInv, TypeOK, Rest
<1>5. FoundersInv'
  BY DEF IInv, FoundersInv, AllTold, Telling, Rest
<1>6. ToldWereMembers'
  BY DEF IInv, ToldWereMembers, Rest
<1>7. MembersOnRecord'
  BY <1>1, <1>2 DEF IInv, MembersOnRecord
<1> QED BY <1>3, <1>4, <1>5, <1>6, <1>7 DEF IInv

LEMMA MemberGoesKeeps ==
  ASSUME IInv, NEW i \in Ids, NEW u \in Users, MemberGoes(i, u)
  PROVE  IInv'
<1>1. PICK list \in Without(members[i], u) : members' = [members EXCEPT ![i] = list]
  BY DEF MemberGoes
<1>2. i \in 1..made /\ made \in Nat
  BY MadeAreIds DEF MemberGoes, Ids, IInv
<1>3. list \in Lists /\ ToSet(list) \subseteq ToSet(members[i])
  BY <1>1, WithoutIn DEF IInv, TypeOK
<1>4. ToSet(list) \subseteq ever[i]
  BY <1>2, <1>3 DEF IInv, MembersOnRecord
<1> QED BY <1>1, <1>2, <1>3, <1>4, MembersChange DEF MemberGoes, IInv, TypeOK

LEMMA MemberComesKeeps ==
  ASSUME IInv, NEW i \in Ids, NEW u \in Users, MemberComes(i, u)
  PROVE  IInv'
<1> DEFINE list == Append(members[i], u)
<1>1. /\ members' = [members EXCEPT ![i] = list]
      /\ ever' = [ever EXCEPT ![i] = @ \union {u}]
      /\ changes < MaxChanges /\ changes' = changes + 1
      /\ UNCHANGED <<made, founders, task, Rest>>
  BY DEF MemberComes
<1>2. i \in 1..made /\ made \in Nat /\ 1..made \subseteq Ids
  BY MadeAreIds DEF MemberComes, Ids, IInv
<1>3. members[i] \in Seq(Users) /\ ever \in [Ids -> SUBSET Users]
  BY DEF IInv, TypeOK, Lists
<1>4. list \in Lists /\ ToSet(list) = ToSet(members[i]) \union {u}
  BY <1>3, ToSetAppend DEF Lists
<1>5. /\ ever' \in [Ids -> SUBSET Users] /\ ever'[i] = ever[i] \union {u}
      /\ \A j \in 1..made : ever[j] \subseteq ever'[j]
  BY <1>1, <1>2, <1>3
<1>6. ToSet(list) \subseteq ever'[i]
  BY <1>2, <1>4, <1>5 DEF IInv, MembersOnRecord
<1> HIDE DEF list
<1> QED BY <1>1, <1>2, <1>4, <1>5, <1>6, MembersChange

-------------------------------------------------------------------------------

LEMMA StutterKeeps == ASSUME IInv, UNCHANGED vars PROVE IInv'
<1>1. UNCHANGED Collection /\ UNCHANGED Rest /\ task' = task
  BY DEF vars, Collection, Rest
<1>2. TasksInv'
  BY <1>1 DEF Collection, IInv, TasksInv
<1>3. \A h \in Handlers, i \in 1..made \ cut' : Telling(h, i) => Telling(h, i)'
  BY <1>1 DEF Collection, Telling
<1> QED BY <1>1, <1>2, <1>3, SameCollection DEF Rest, IInv, TypeOK

LEMMA NextKeeps == ASSUME IInv, [Next]_vars PROVE IInv'
<1>1. CASE UNCHANGED vars
  BY <1>1, StutterKeeps
<1>2. ASSUME NEW h \in Handlers, Begin(h) \/ Step(h) \/ Errs(h) PROVE IInv'
  BY <1>2, BeginKeeps, LookKeeps, CreateKeeps, DuplicateKeyKeeps, PostKeeps, EmitKeeps,
     ErrsKeeps DEF Step
<1>3. ASSUME NEW i \in Ids, NEW u \in Users, MemberGoes(i, u) \/ MemberComes(i, u)
      PROVE  IInv'
  BY <1>3, MemberGoesKeeps, MemberComesKeeps
<1>4. CASE Crash
  BY <1>4, CrashKeeps
<1> QED BY <1>1, <1>2, <1>3, <1>4 DEF Next

(* All that the other theorems rest on, in every reachable state.          *)
THEOREM Invariant == Spec => []IInv
<1>1. Init => IInv
  BY InitInv
<1>2. IInv /\ [Next]_vars => IInv'
  BY NextKeeps
<1> QED BY <1>1, <1>2, PTL DEF Spec

(* Every variable keeps its type, and a handler holds a conversation just  *)
(* while it answers with it.                                               *)
THEOREM Types == Spec => []TypeOK
<1>1. IInv => TypeOK
  BY DEF IInv
<1> QED BY <1>1, Invariant, PTL

(* A conversation has been announced to everybody it was created for when  *)
(* its creator is done, unless an error came first, and only to members;   *)
(* and a request that repeats nobody is answered with just those it names. *)
THEOREM Told == Spec => []FoundersAreTold
<1>1. ASSUME IInv PROVE FoundersAreTold
  <2>1. \A x \in told : x[2] \in ever[x[1]]
    BY <1>1 DEF IInv, ToldWereMembers
  <2>2. \A i \in 1..made \ cut :
          \/ \E h \in Handlers : task[h].conv = i
          \/ \A u \in ToSet(founders[i]) \ {Last(founders[i])} : <<i, u>> \in told
    BY <1>1 DEF IInv, FoundersInv, AllTold, Telling
  <2>3. \A h \in Handlers :
          task[h].conv # None /\ IsInjective(task[h].asked) =>
            task[h].snap = ToSet(task[h].asked)
    BY <1>1 DEF IInv, TasksInv, TaskInv
  <2> QED BY <2>1, <2>2, <2>3 DEF FoundersAreTold
<1> QED BY <1>1, Invariant, PTL
===============================================================================
