----------------------------- MODULE MessageLedger -----------------------------
(***************************************************************************)
(* What the messages of a conversation and their images promise, without   *)
(* handlers, uploads under way or counters: an image is claimed by one     *)
(* post, is in the store before its message is, and leaves the store only  *)
(* after that message was removed, which its expiry is not; a message is   *)
(* stored once, is emptied only after its removal, and is told as what it  *)
(* was.  A call that fails tears what it held, and a message that was not  *)
(* stored then never is.                                                   *)
(* Messages.tla implements this module.                                    *)
(***************************************************************************)

CONSTANTS Ids, Assets

VARIABLES
    message,   \* message -> what is stored of it, or what an expired one left
    images,    \* the image store
    due,       \* the sets of files of the posts that are not stored yet
    doomed,    \* images of removed messages
    removed,   \* the messages that somebody has removed
    torn,      \* the messages and images a failed call held
    heard      \* message -> what the members were last told of it

vars == <<message, images, due, doomed, removed, torn, heard>>

Actions == {"New", "Edited", "Removed"}
Absent == [action |-> "none", attachments |-> {}]

TypeOK ==
    /\ message \in [Ids -> [action: Actions \union {"none", "gone"}, attachments: SUBSET Assets]]
    /\ images \subseteq Assets /\ due \subseteq SUBSET Assets /\ doomed \subseteq Assets
    /\ removed \subseteq Ids /\ torn \subseteq Assets \union Ids
    /\ heard \in [Ids -> Actions \union {"none"}]

Init ==
    /\ message = [m \in Ids |-> Absent] /\ heard = [m \in Ids |-> "none"]
    /\ images = {} /\ due = {} /\ doomed = {} /\ removed = {} /\ torn = {}

-------------------------------------------------------------------------------
(* The images *)

(* By a message that is there, or by one that expired.                     *)
Named == UNION {message[m].attachments : m \in Ids}
Claimed == Named \union (UNION due) \union doomed \union torn

(* A new post claims files of its own.                                     *)
Claim(files) ==
    /\ files # {} /\ due' = due \union {files}
    /\ files \intersect (images \union Claimed) = {}
    /\ UNCHANGED <<message, images, removed, torn, heard, doomed>>

(* One of them arrives in the store, after a failure of the post as well.  *)
Arrive(a) ==
    /\ images' = images \union {a} /\ a \in (UNION due) \union torn
    /\ UNCHANGED <<message, removed, torn, heard, due, doomed>>

(* What is doomed stays so until no message names it and the store has     *)
(* lost it, unless it is torn.                                             *)
Forgets ==
    /\ doomed' \subseteq doomed
    /\ \A a \in doomed \ doomed' : a \notin Named' /\ (a \in images' => a \in torn')

Erase(a) ==
    /\ images' = images \ {a} /\ a \in doomed /\ Forgets
    /\ UNCHANGED <<message, removed, torn, heard, due>>

-------------------------------------------------------------------------------
(* The messages *)

WasStored(m) == message[m].action # "none"
There(m) == WasStored(m) /\ message[m].action # "gone"

Insert(m, files) ==
    message' = [message EXCEPT ![m] = [action |-> "New", attachments |-> files]]

(* A message is stored once, when all its images are there.                *)
Keep(m) ==
    /\ message[m] = Absent /\ m \notin torn
    /\ UNCHANGED <<images, removed, torn, heard>>
    /\ \E files \in due \union {{}} :
          Insert(m, files) /\ files \subseteq images /\ due' = due \ {files}
    /\ UNCHANGED doomed

Change(m, action) ==
    /\ message' = [message EXCEPT ![m].action = action]
    /\ IF action = "Removed"
       THEN removed' = removed \union {m} /\ doomed' = doomed \union message[m].attachments
       ELSE UNCHANGED <<removed, doomed>>

(* Edited or removed, which dooms its images.                              *)
Modify(m, action) ==
    /\ action # "New" /\ There(m) /\ Change(m, action)
    /\ UNCHANGED <<images, torn, heard, due>>

Strip(m) == message' = [message EXCEPT ![m].attachments = {}] /\ Forgets

(* A message that was removed loses its list.                              *)
Empty(m) ==
    /\ m \in removed /\ Strip(m)
    /\ UNCHANGED <<images, removed, torn, heard, due>>

(* It expires.  The images it names stay in the store, unless doomed.      *)
Expire(m) ==
    /\ There(m) /\ message' = [message EXCEPT ![m].action = "gone"]
    /\ UNCHANGED <<images, removed, torn, heard, due, doomed>>

(* The members are told of a stored message, of a removal only after one.  *)
Tell(m, action) ==
    /\ WasStored(m) /\ (action = "Removed" => m \in removed)
    /\ heard' = [heard EXCEPT ![m] = action]
    /\ UNCHANGED <<message, images, removed, torn, due, doomed>>

-------------------------------------------------------------------------------
(* What fails, with its command applied or not, tears what it held. *)

UploadFails ==
    /\ UNCHANGED <<message, images, removed, heard>>
    /\ \E files \in due : torn' = torn \union files /\ due' = due \ {files}
    /\ UNCHANGED doomed

PostFails(m) ==
    /\ message[m] = Absent /\ m \notin torn /\ m \in torn'
    /\ UNCHANGED <<images, removed, heard>>
    /\ \E files \in due \union {{}} :
          /\ torn' = torn \union files \union {m} /\ due' = due \ {files}
          /\ UNCHANGED message \/ (files \subseteq images /\ Insert(m, files))
    /\ UNCHANGED doomed

ModifyFails(m) ==
    /\ WasStored(m)
    /\ torn' = torn \union {m} \union message[m].attachments
    /\ \/ UNCHANGED <<message, removed, doomed>>
       \/ There(m) /\ \E action \in {"Edited", "Removed"} : Change(m, action)
       \/ m \in removed /\ Strip(m) /\ UNCHANGED removed
    /\ UNCHANGED <<images, heard, due>>

EraseFails(a) ==
    /\ torn' = torn \union {a} /\ a \in doomed /\ Forgets
    /\ UNCHANGED <<message, images, removed, heard, due>>

(* The process stops.  Every post is over; what else is torn was doomed,   *)
(* or belongs to a message about to be told.                               *)
Stop ==
    /\ due' = {} /\ torn \union (UNION due) \subseteq torn'
    /\ torn' \subseteq Assets \union Ids
    /\ \A a \in (torn' \ torn) \intersect images :
          a \in (UNION due) \union doomed
                \union UNION {message[m].attachments : m \in torn' \intersect Ids}
    /\ images \ doomed \subseteq images' /\ images' \subseteq images \union (UNION due) \union torn
    /\ Forgets
    /\ UNCHANGED <<message, removed, heard>>

Next ==
    \/ \E m \in Ids :
          \/ Keep(m) \/ PostFails(m) \/ Empty(m) \/ ModifyFails(m) \/ Expire(m)
          \/ \E action \in Actions : Modify(m, action) \/ Tell(m, action)
    \/ \E a \in Assets : Arrive(a) \/ Erase(a) \/ EraseFails(a)
    \/ \E files \in SUBSET Assets : Claim(files)
    \/ UploadFails \/ Stop

Spec == Init /\ [][Next]_vars

-------------------------------------------------------------------------------
(* What follows from the promise *)

(* Each image has one claim: that of a post not stored yet, or that of a   *)
(* message; and it is doomed only if that message was removed.             *)
OneClaim ==
    /\ \A F, G \in due : F # G => F \intersect G = {}
    /\ (UNION due) \intersect (Named \union doomed) = {}
    /\ \A m, n \in Ids :
          m # n => message[m].attachments \intersect message[n].attachments = {}
    /\ \A m \in Ids :
          IF m \in removed THEN message[m].attachments \subseteq doomed
          ELSE message[m].attachments \intersect doomed = {}

(* What a message names, or named when it expired, is in the store unless  *)
(* the message was removed; what is in the store is named by a message     *)
(* that is there, left by one that expired, awaited, doomed or torn; and   *)
(* nothing is told of a message that was never stored, nor a removal that  *)
(* nobody made.                                                            *)
Sound ==
    /\ OneClaim
    /\ \A m \in Ids \ removed : message[m].attachments \subseteq images
    /\ images \subseteq Claimed
    /\ \A m \in Ids : /\ m \in removed \/ heard[m] # "none" => WasStored(m)
                      /\ heard[m] = "Removed" => m \in removed

===============================================================================
