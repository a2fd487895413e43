# A TLA+ model of nest-chat

nest-chat is the server of a chat application: one Node process (NestJS) in
front of MongoDB, Redis and an image store, with HTTP routes for accounts,
profiles, friend requests, conversations and messages, and a socket.io gateway
for presence, notices and calls. This directory models the parts of it in which
order matters: where a handler reads, awaits, and then acts on what it read;
where one operation is several database commands; where two caches shadow a
document; where connections come and go in any order.

All paths below are relative to `src/src/`.

## 1. The system

### How things run

There is one JavaScript thread. A handler runs alone until it awaits, and
whenever it awaits (a MongoDB or Redis command, a fetch, an upload) any other
handler may run. So the unit of interleaving in every module is *one command
with the synchronous code that follows its reply*. `middleware/mongoose.ts`
switches `retryWrites` off and sets `wtimeoutMS` to 3 s: a write can be
reported as failed although it was applied, and nothing retries or compensates
it. A restart loses every handler, the session map and the remembered friend
lists; MongoDB and Redis stay. TTL indexes (answered friend requests, messages
after a year) and Redis TTLs remove things on their own.

### Components

| component | state it keeps | operations | talks to |
|---|---|---|---|
| **Friend requests** `routes/user/friends/`, `models/friend-request`, `features/friends.gateway.ts` | the request collection (unique index on the ordered pair, partial TTL indexes on answered requests), `Profile.friends` | `create`, `response`, `cancel`; notices through the event emitter | profiles, gateway |
| **Group conversation** `routes/conversation/group/`, `models/conversations` | members, roles, `lastMessage` of a conversation | `addMoreMembers`, `removeMoreMembers`, `leave` behind `CheckPermission` | model cache, gateway (ban notices) |
| **Model cache** `middleware/cache/` | Redis entries CONVERSATION, MESSAGE_CONVERSATION, USER, and cached permissions | `ModelCache` (read-through), `ModelUpdate` and `CacheService.update` (get, merge, set), TTL | every reader of a conversation |
| **Messages** `routes/messages/`, `models/messages`, `features/message.gateway.ts` | the message collection (a TTL index on `createdAt`), `lastMessage` of the conversation (a `pre('save')` hook) | `createMessage`, `editContentMessage` (edit, removal), paging; sending and last-message events | model cache, attachments, gateway |
| **Gateway sessions and presence** `middleware/gateway/` | user → socket map, socket.io rooms, remembered friend lists | connection, disconnection, join, leave, ban, presence answers, profile broadcasts | profiles, everything that notifies |
| **Video calls** `features/call.gateway.ts` | none of its own (relay over the session map) | calling, accept, reject, device change | profiles, sessions |
| **Direct conversations and creation** `routes/conversation/direct/` | conversation documents | `createConversation` (find, then create), listing | users |
| **Profiles** `routes/user/profiles/` | the profile collection | status, information, image, friend lists, search | image storage, gateway |
| **Registration and authentication** `routes/auth/` | sessions (external), users, profiles | `registerAccount` (three writes in parallel), login | users, profiles, image storage |
| **Users** `routes/user/members/` | the user collection, cached USER entries | lookups, creation | model cache |
| **Image storage** `adapter/image_storage/` | cached images in Redis; the store is external | get (cached), upload, delete (both clear the cache first) | profiles, attachments |
| **Array and string helpers** `extensions/`, `utils/` | none | `isSubset`, ids, mapping | everyone |
| **Infrastructure** `app.module.ts`, `main.ts`, configuration, throttling, error filter | none of the program's own | wiring | – |

### What is hard about each, and what makes it correct

* **Friend requests.** Several handlers judge the same request on snapshots and
  then write; acceptance is a status write followed by two separate `$push`
  that may fail or be cut off by a restart; two users may ask each other at
  once; answered requests are deleted by TTL while somebody still handles them.
  *Correct* means: nobody enters a friend list without the addressee's
  acceptance, once per acceptance, on both sides unless a fault intervened; and
  the party that did not settle a request is told what really became of it.
* **Group conversation, cache, posting.** Validation uses a cached list, a
  cached permission, and then updates the document; two decorators refresh the
  two entries afterwards with a get/merge/set each; `lastMessage` is written
  before its message, in two places in parallel, and is never taken back,
  neither when the save fails nor when the message expires. *Correct* means:
  members and roles stay together, an entry is some real past state and never a
  mixture, messages go to people who were together in the conversation, and
  `lastMessage` is never a name without a story.
* **Gateway.** One user may have several sockets, of which one stands for the
  user; a socket may go without leaving its rooms; a friend list arrives after
  the connection that asked for it. *Correct* means: the map never names a
  closed socket, presence answers are not invented, and whoever was told
  'online' is told otherwise when that stops being true.
* **Messages.** A message is inserted after its uploads and after it has become
  `lastMessage`; an edit and a removal are the same update with another action,
  and a removal is two updates with a destroy that nobody waits for. A message
  expires after a year, and nothing looks at its images then. The list is read
  by skip and limit over an order that does not tell messages of one
  millisecond apart. *Correct* means: what a message names exists, no image is
  forgotten but by an error or an expiry, a removed message ends up empty, what
  the members were told is what is stored, and a client that pages while others
  post misses nothing but what the order leaves open.
* **Accounts** (registration, profiles, avatars). Registration and upload are
  `Promise.all` over independent writes, each of which can fail alone while the
  others run on; an image is cleared from the cache *before* it is replaced; a
  status is read, compared and written. *Correct* means: whoever is told
  'success' has everything, an address has one owner, the cache shows the
  stored image, and an answer about a status was true at some time during the
  call.
* **Calls.** The callee's socket is chosen, two profiles are awaited, then the
  chosen socket rings; everything else goes to whatever socket stands for the
  user at that moment. *Correct* means: what a party sends reaches the other
  one unless he is away, and what the server says of the other one was so when
  it looked.
* **Creation.** A conversation is looked for and created by two commands, while
  others do the same; the members are told last. *Correct* means: whoever asks
  for some members gets a conversation of just those or an error, and there is
  none that its members never hear of.

## 2. Modules

| module | what it is |
|---|---|
| `FriendshipLedger` | the abstract promise of the friend request component: asked once, settled once by the entitled party, entered only on an acceptance |
| `FriendRequests` | the component itself: handlers, snapshots, two parallel pushes, notices, TTL, faults, crashes |
| `FriendRequestsProofs` | theorems about `FriendRequests` |
| `GroupConversation` | one group conversation with its two cache entries, cached permissions, membership changes and posting |
| `GatewaySessions` | sockets, session map, rooms, presence notices, friend lists |
| `GatewaySessionsProofs` | theorems about `GatewaySessions` |
| `Calls` | video calls; extends `GatewaySessions`, whose session map they read |
| `CallsProofs` | theorems about `Calls`; extends `GatewaySessionsProofs`, since every step of a call is a stutter of the gateway |
| `GroupRecord` | the abstract promise of a conversation: members change by whole valid steps, a message is drafted, leads, is kept and told, and expires, or is lost |
| `GroupConversationProofs` | theorems about `GroupConversation`: its invariants, that it implements `GroupRecord`, what its cache entries are when calls do not overlap |
| `MessageLedger` | the abstract promise of messages and images: an image is claimed once, stored before its message, erased after its removal; a message is stored once and told as what it was |
| `Messages` | posts with uploads, edits, removals, expiry, their events |
| `MessagePages` | a client that reads the list bucket by bucket, while messages of few milliseconds are stored and expire |
| `MessagesProofs` | theorems about `Messages`: its invariants, that it implements `MessageLedger`, what its events show |
| `Accounts` | registration, avatars and their cached copy, changes of status |
| `AccountsProofs` | theorems about `Accounts` |
| `ConversationCreation` | find-then-create of conversations, the first message, the notice, beside changes of groups |
| `ConversationCreationProofs` | theorems about `ConversationCreation` |
| `SubsetCheck` | `isSubset`, the two-index walk, against inclusion |
| `SubsetProofs` | that it decides inclusion for arrays of any length |
| `MCFriendRequests`, `MCGroupConversation`, `MCGatewaySessions`, `MCCalls`, `MCMessages`, `MCMessagePages`, `MCAccounts`, `MCConversationCreation` | instances for TLC (symmetry sets, constant functions) |

A definition whose comment starts with *Mutant* is a plausible mistake in the
definition that follows it. It is not part of the specification; replacing the
definition by it must make the property named in `PROJECT.json` fail, which
shows that the property depends on that piece of code.

### FriendRequests

`request` is the collection, `friends` the `friends` arrays of the profiles (a
bag, since `$push` does not look for duplicates; each occurrence is tagged with
the request whose push wrote it), `task[h]` the locals and the program counter
of the handler `h`, `notices` what `FriendGateway` was told to send. `ledger`
and `torn` are history: what became of each request and by whose hand, and
which settled requests a fault or crash interrupted.

| action | code |
|---|---|
| `LookupRelationship`, `LookupAuthor` | the two queries of the `Promise.all` in `create`, in either order |
| `CreateRefused`, `CreateReturnsExisting`, `CreateInserts`, `CreateConflicts` | the branches after it; a duplicate key is an error |
| `FetchRequest`, `FetchRefused` | `validateFriendById` and the permission and status checks of `response` and `cancel` |
| `SettleWins`, `SettleLoses` | `findOneAndUpdate`/`findOneAndDelete` with `status: 'Request'` in the filter |
| `PushDone`, `PushesEnd` | `updateFriendList`: two `$push` in parallel |
| `Notify` | the controller's emit and the gateway's choice of recipient |
| `CreateErrs`, `SettleErrs`, `PushErrs`, `Crash` | a write reported as failed, applied or not; the process stops |
| `Expire` | the partial TTL indexes |

Left out: `getQuantity` and `listRequest` (they only read), and errors of
*reads*, which end a handler exactly as a refusal does. A handler may name the
caller as the peer: the code does not forbid a request to oneself, and the
properties hold with it.

### GroupConversation

`conv` is the document, `cache` the two entries or `Miss`, `confirmed` the
cached permissions, `stored` the messages that were ever inserted and `expired`
those of them that the TTL index has deleted. A call goes through
`ReadConfirm`, `CheckPermission`, `SetConfirm` (the decorator), `CacheHit` or
`CacheMiss`, `ReadConversation`, `FillCache` (`ModelCache`), `WriteMembers`
(`updateParticipant`), `Populate`, and then `RefreshFinds`/`RefreshMisses`,
`MergeIntoCache` for one entry and again for the other (`ModelUpdate`, two
decorators, inner first). A post goes through the middleware's read, then the
hook's two parallel updates (`HookWritesLast`; `HookReadsCache`,
`HookWritesCache`), `HookEnds`, `InsertMessage`. Every one of these may be
followed by any other handler's step, by an expiry, by a fault.

Three details of the code that shape the model:

* `mergeWith` replaces arrays as wholes and keeps old fields the new value does
  not have (`Merge`); so members are never merged, and a `lastMessage` can
  survive a refresh from a document that has none.
* `findByIdAndUpdate` followed by `populate` is two commands: the members are
  those just written, the populated last message is looked up later and is
  `null` when the message is not stored yet.
* when either of the hook's two updates fails, in MongoDB or in Redis, the save
  is aborted while the other one still runs on (`abort`), and may fail as well:
  a message that is lost already may yet become the document's `lastMessage`,
  or the entry's (`HookErrs`, `HookWritesLast`, `HookWritesCache`). A failed
  Redis command elsewhere ends its call with what was done so far (`ReadErrs`,
  `CacheErrs`).
* an expired message is not there for `populate`, which gives `null` then
  (`Populated`); nothing changes the `lastMessage` that names it.

`GroupRecord` says what all this amounts to for somebody who sees neither
handlers nor entries. Its members, roles and past member sets are `conv` and
`ever`; `post <- Posts` gives every message a fate, read off the handler that
holds it: `drafted` while its save has not reached the database half of the
hook, `leading` between that write and the insert, `kept` when it was inserted
and told, `lost` when a write was reported as failed or the process stopped,
applied or not, `failing` while it is lost and the write that makes it
`lastMessage` may still come, `expired` when the TTL index has deleted it. A
change of members is one step that was valid on *some* member set there has
been, not on the present one: that is what a cached list and a cached
permission leave of the validation, and the refinement shows that it is all
they take away.

Cached roles are left out because nothing reads them; the permission check
reads the document. One conversation is enough: no operation touches two.

### GatewaySessions

A gateway handler is synchronous, so each is one action: `Connect`,
`Disconnect` (with the `disconnecting` listener that tells the rooms),
`JoinRoom`, `LeaveRoom`, `Ban` (the `EVENT_CONVERSATION_BANNED_MEMBER`
listener), and the answers `Status` and `FriendsShown`. The friend-list query
is the only asynchronous part: `ReadFriendIds` when the database executes it
and `RememberFriendIds` or `LookupErrs` when the reply runs, possibly long
after the socket has gone, and two of them in either order. `Befriend` stands
for the push of an acceptance: profiles change under the gateway's feet.
`heard` records the last presence notice each viewer got since it entered the
room; `evicted` and `overlapped` are history. A restart of the process is not
an action: it empties every variable but `friendIds` and begins a behaviour
like any other.

### Calls

The server keeps nothing of a call. `call[c]` is what the handler has on its
stack and what the two clients know: the socket that asked, the user called,
the socket chosen to ring. `VideoCalling` (the choice), `Rings` and
`LookupFails` (the reply of the two profile lookups), `Accept` and `Reject` are
the handlers of `features/call.gateway.ts`; `Dest` is where an event of either
party goes. `CallNext` interleaves them with every action of `GatewaySessions`.
A change of device is relayed exactly as an acceptance or a rejection is, to
`Dest`, and changes nothing, so it is not an action of its own.

### Messages

One conversation. `message` is the collection, numbered by `createdAt`; a
number is given before the `pre('save')` hook runs, so messages may be inserted
in another order. `images` is the image store with `uploading` and `erasing`,
the commands it has not yet executed.

| action | code |
|---|---|
| `BeginPost`, `UploadDone`, `UploadErrs`, `Create` | `createMessage` and `AttachmentsService.creates`: uploads in parallel, then the document |
| `HookWritesLast`, `InsertMessage` | the hook's database half, the insert |
| `BeginModify`, `UpdateMessage`, `UpdateRefused`, `EmptyAttachments`, `EraseDone`, `EraseErrs` | `editContentMessage` for an edit and a removal |
| `Announce` | `EmitModifiedMessage` and the listeners of `MessagingGateway` |
| `Expire` | the TTL index on `createdAt` |
| `WriteErrs`, `Crash` | a write reported as failed, applied or not; the process stops |

The cache half of the hook, the middleware's check of membership and the
recipients are in `GroupConversation`. What a call here knows of `lastMessage`
is `Snapshots`: the stored one while calls do not overlap, or none when
`populate` found it expired, which is what `CoherentAtRest` shows there, and
anything older otherwise. A message that expired is `gone`; its `attachments`
are then history, what it left in the store.

`MessageLedger` leaves out handlers, uploads under way, counters and the
last-message event. `due <- Due` are the sets of files of posts that are not
stored yet, `doomed <- Doomed` the images being destroyed together with those a
removed message still names; the other variables are the same. So the second
update of a removal, which empties the list, and the destroys, which nobody
waits for, may come in any order and between edits of others, and the ledger
still says who may lose what: `Forgets` lets go of an image only when no
message names it and the store has lost it or a failed call held it. What a
failure or a crash leaves half done is not undone, as in the code, but it is on
record in `torn`.

### MessagePages

The list alone: messages get a `createdAt` from a clock of few milliseconds
(`Stamp`), are inserted in any order after that (`Insert`: several handlers,
and the stamp comes before the hook), expire oldest first, and a client asks
for bucket 0, 1, … (`ReadBucket`). `Pages(b)` is every answer the query may
give: `createdAt` decides between messages of different milliseconds and
nothing decides between others, neither within one answer nor from one to the
next. `cut` records the messages of a millisecond that the end of a page ran
through when that page was read; those may be missed, or come twice.

### Accounts

An account is what one `UserDetailDTO` creates: the ids of user, profile and
avatar are given by the caller's side of `registerAccount`. `todo` is what is
left of a `Promise.all`; within one branch a command waits for the one before
it (`Ready`: the lookup before the update of a profile, the clearing of the
cache before the upload). `PartErrs` and `PartRefused` end the *answer* and the
branch, not the other branches (`abort`). `BeginGet`, `ReadCached`,
`FetchImage`, `FillCached` are `getImage` behind its cache decorator,
`FindProfile`, `WriteStatus`, `AnswerStatus` are `changeStatus`. All sizes of
an image are one entry; what an image looks like is its version.

### ConversationCreation

`members` is the collection, an array per conversation because repetitions
matter to `$size` (their order does not, so `$pull` leaves the rest in any
order: `Without`). `Begin` is the lookup of users, `LookForConversation` the
`findOne`, `Create` and `DuplicateKey` the insert under the unique index on
`participant.members` (an index on an array is one on its elements, so that a
user is in at most one conversation), `Post` the first message, `Emit` the
event. `MemberGoes` and `MemberComes` are the changes that `GroupConversation`
has in detail.

### SubsetCheck

`IsSubset` is `extensions/utils/array.ts`. `sort` is modelled by the place it
gives each element (`InOrder`: the number of elements that are not to come
after it); the loop by `Turn`, one turn of it, and `Found`, the number of
targets found so far, as a recursive function, so that it can be proved about.
The assumption `SubsetIsInclusion` compares it with inclusion of bags, and for
arrays without repetition with inclusion of sets, which is what `Valid` of
`GroupConversation` uses. TLC evaluates it for all arrays of up to four of
three values at the start of every group run; `SubsetProofs` proves it for all
arrays of integers.

## 3. Runs

| run | question | bounds | distinct states |
|---|---|---|---|
| `friend_requests` | all safety properties, and does it implement the ledger? | 2 users, 2 ids, 2 handlers, 1 fault | 523,534 |
| `friend_requests_live` | does an acceptance land? | 3 users (one without a profile), 1 id, 2 handlers, 1 fault | 31,196 |
| `friend_requests_pair` | *is there one request per pair?* – violated | 2 users, 2 ids, 2 handlers | stops at 10 steps |
| `group` | membership changes and posts over a shared cache: do they implement `GroupRecord`, were the entries ever real, do they agree with the document when calls did not overlap? | 3 users, 2 handlers, 2 changes, 1 message | 1,656,725 |
| `group_live` | the same refinement with faults: is `lastMessage` accounted for, does it settle, is every call answered? | 2 users, 2 handlers, 1 change, 1 message, 2 faults | 181,237 |
| `group_permission` | *do only Admins add and remove?* – violated | 1 handler, 2 changes | stops at 16 steps |
| `gateway` | sessions, rooms, presence and late friend lists | 2 users, 3 sockets (two of one user), 1 conversation | 148,532 |
| `messages` | posts, edits, removals and expiries of the same messages: do they implement `MessageLedger`? | 2 handlers, 2 posts of two files or none, 2 edits or removals, 1 fault | 984,524 |
| `pages` | what does a client that pages miss? | 5 messages, 3 milliseconds, 3 buckets of 2 | 117,423 |
| `accounts` | registrations with one address, uploads, cached reads, statuses | 2 accounts, 1 address, 2 handlers, 2 files, 1 fault | 530,675 |
| `calls` | calls while sockets come, go and replace each other | 2 users with 2 sockets each, 1 call | 3,002,640 |
| `creation` | creators of overlapping conversations, groups that change | 3 handlers, 7 requests over 3 users and an unknown id, 3 conversations, 2 changes, 1 fault | 767,103 |

What each property says is in the comment above it. In short:

* `EnteredByConsent`, `OncePerAcceptance`, `AcceptedIsMutual`: an entry stands
  for a request its addressee accepted, once per list however many handlers
  answered, and on both sides once the handler is past its pushes, unless a
  fault interrupted it. `OutcomeIsTold`: although the notice is built from a
  snapshot taken before the write, the party that did not settle a request is
  told its real outcome, nobody is told another one, and the notice does come
  unless a fault was in between. (The 'Request' notice is left out: see section
  6.) `RequestsOnRecord`: a pending request never disappears.
  `ImplementsLedger`: the refinement.
* `AcceptanceLands`: the winner of a race for a request completes its work.
* `ImplementsRecord`: members and roles change together, by a step that was
  valid at some time; only somebody who was a member posts; a message is
  announced once, after it is stored, to people who were in the conversation
  with its author; and a message a fault or crash cut off is never announced,
  though it may come to be `lastMessage`; an expiry changes nothing but the
  collection. That roles fit members and who is told (`RolesMatchMembers`,
  `SentToMembers`) follow from it and are theorems.
* `CachedWasReal`, `LastIsAccounted`: see section 1; the second speaks of the
  document and of both entries, and of faults in either half of the hook.
  `CoherentAtRest` holds as long as calls were made one at a time and nothing
  failed, and only then (section 6). `LastSettles`: a `lastMessage` written
  ahead of its message is followed by it, or its save was interrupted.
  `EveryCallEnds`: every call is answered, also when the hook fails.
* `SessionIsLive`, `PresenceIsExact`, `OnlineIsTrue`, `FriendsShownAreFriends`:
  see section 1.
* `RelaysReachTheParty`: an event of either party goes to an open socket of the
  other user, and to the very socket in the call unless that user once had two
  at a time; it is dropped only if he has no open socket or once had two.
  `AnswersTrueWhenRead`: 'user-unavailable' is said of nobody who has an open
  socket and never had two; after 'calling' the chosen socket rings, or it was
  open when it was chosen, closed during the lookups, and does not stand for
  the callee any more: the ring is then lost, which the code does not prevent.
* `ImplementsLedger` of `Messages`, `ReferencedExist`, `RemovedAreEmpty`:
  messages and the image store, through every overlap of edits and removals.
  That no image is forgotten but by an error or an expiry (`OrphansAccounted`)
  is a theorem, and so is what the ledger promises on its own (`LedgerKept`).
  `EventsAreTrue`: for calls made one at a time the members have heard what is
  stored.
* `OnlyTwinsAreMissed`: a client that has asked for as many buckets as there
  are has been given every message that was there when it began and still is,
  except perhaps some of a millisecond that a page ended in. Insertions, late
  ones with an older `createdAt` too, push messages to later buckets; and
  expiries take only the oldest, which come last.
* `AnsweredIsComplete`, `OneOwner`, `CachedIsFresh`, `AnswerWasTrue`: see
  section 1; `CachedIsFresh` excuses a reader that met an upload, which does
  cache the older image (section 6).
* `FoundersAreTold`: whom a conversation is announced to was a member of it; an
  existing conversation was announced to those it was created with, unless a
  fault cut its creation (`emitSocket` passes over those who have no socket
  then); and a creator who names nobody twice gets a conversation of exactly
  those he named.

**Why the bounds are enough.** Every race in these components is between two
handlers over one document; two handlers, with a second request id so that a
pair can ask again or in both directions, and one fault, exhibit each of them.
One fault is enough because a fault ends its handler and the properties excuse
only what that handler was doing. In `group_live` there are two, since both
halves of one hook may fail. `group` leaves faults to it; two membership
changes let one be made and stale data from before it be used after it. What
holds there for these bounds is proved for any number of users, handlers,
messages and faults (section 5). In `gateway` two sockets of one user are what
can overlap or replace each other and one socket of somebody else is what can
be told. What holds there for three sockets is proved for any number (section
5). `calls` has two sockets on either side, so that either party's may be
replaced during the lookups. In `messages` two modifications are an edit and a
removal, or two removals, of one message. In `pages` five messages in three
milliseconds give ties of every size on and off the ends of the pages,
insertions that shift them and late ones among older messages. In `accounts`
two accounts share their only address, and two files for one avatar are an
upload over an earlier one. `creation` needs three handlers: two that create
and one whose request overlaps both.

`CHECK_DEADLOCK FALSE` in the `GroupConversation`, `Messages`, `MessagePages`,
`Accounts`, `Calls` and `ConversationCreation` configurations: when the bounded
number of calls, messages, buckets or accounts is used up, every socket has
closed, or the entries have expired, nothing is left to do. No handler of this
program waits on a lock or on another handler, so that there is no deadlock to
look for.

## 4. Fairness

`FairSpec` of `FriendRequests` and `GroupConversation` is weak fairness of
`Step(h)` for each handler: a command that was sent is answered, and the
continuation of an answered command is run, which is what the driver and the
event loop provide. An error is an answer and a step of its own; nothing
obliges it to happen, nor a user to call, a TTL to fire, or the process to
stop. Under it a handler cannot be overtaken for ever, since its steps are
never disabled by others' steps. `GatewaySessions` and `Calls` have no liveness
property: nothing in them waits on anything but a reply. Neither have
`Messages`, `MessagePages`, `Accounts` and `ConversationCreation`: a handler
there is a fixed sequence of commands without a loop or a wait for another
handler, so that fairness would show no more than that it ends; what must hold
*once* calls have ended is stated as an invariant of quiet states
(`RemovedAreEmpty`, `EventsAreTrue`, `OneOwner`).

## 5. Proofs

Eight modules hold theorems, checked by TLAPS for every value of the constants.
They assume nothing but the named assumptions of the modules they are about,
which TLC evaluates in every run.

**FriendRequests.** Assumptions: `NoneAssumption` (None is no user, id or
answer) and `MaxFaultsAssumption` (any natural number of faults).
`TypeCorrect`, `Consent`, `EnteredOnce`, `Mutuality` and `OnRecord` follow from
one inductive invariant, `IInv`. The properties alone are not inductive; what
they lack is what a handler may rely on at each of its awaits:

* `TasksInv`: a snapshot names the parties of a request that was really made; a
  handler past its check is entitled; one that is pushing holds an accepted
  request and has pushed whatever is not in `todo`.
* `OnePusher`: no two handlers push for one request, since only one of them
  found it open.
* `WithinLimit`: what is in a list *plus what is still due to it* stays within
  one per acceptance. This is what makes `OncePerAcceptance` inductive.
* `RequestsOnRecord` ties the collection to the history, so that a filter on
  `status: 'Request'` is a filter on pending requests.

`TaskInvKeeps` says that all of this survives any step of another handler,
because the ledger only moves forward and lists only grow; each action's lemma
then only looks at its own handler. `Refinement` (`Spec => ImplementsLedger`)
uses `IInv` for every step of the ledger: a winning settle is an `Answer` or
`Withdraw` by the entitled party, a push is an `Enter`, everything else
stutters. `OutcomesAreTold` adds to `IInv` that only the party entitled to it
settled a request (`SettledByRight`) and that every settled request was told,
is torn, or is in the hands of a handler that has yet to tell it (`AllTold`);
`OneHandler` says that a settlement in hand stays in hand until its handler
tells it, and `NoticeIsOutcome` that the notice it sends, built from its
snapshot, is the outcome.

**GatewaySessions.** Assumptions: `OwnerAssumption`, `NoneAssumption`.
`TypeCorrect`, `Sessions`, `Presence`, `NoGhosts` and `TruthfulFriendLists` are
proved from `IInv`: beside the properties it says that a socket that is not
open is in no room, that a user who never had two sockets has at most one and
it is the entry (`OneAtATime`), that a notice is remembered only while in the
room (`HeardInRoom`), and that whatever a query read is, and stays, a set of
friends (`ListsAreFriends`). The argument for `NoGhosts`: a socket that goes
tells every room it is in, so the viewer who still believes 'online' was told
so about another user, or in another room, and the socket that bears it out is
another one.

**GroupConversation.** `MembersAndRoles`, `CachedMembers`, `Announced`,
`LastMessages`, `Implements`, `PromiseKept`, `Coherent`. What the properties
lack to be inductive is that a stale value is stale and not invented. `TaskInv`
says that the members of every snapshot and merge base a handler holds are on
record in `ever`, and that whoever is past the permission check was a member at
some time; `HeldIsKnown` and `EntriesAreKnown` say of every `lastMessage`,
held, cached or stored, that it is a message that was stored, is about to be,
or is lost (`Known`); a handler whose hook has failed holds a message that is
lost, so that the half that runs on may still write it (`TaskInv`). A merge
then only combines values that satisfy these, and since `members` is taken from
one side as a whole, `CachedWasReal` survives it.

`Implements` (`Spec => ImplementsRecord`) takes every step of a handler to a
step of `GroupRecord` or to a stutter. Beside `IInv` it needs to know which
message is whose (`RecordInv`): a handler about to save holds a message neither
stored nor lost (`RecordTask`), no two handlers hold the same one (`OneSaver`),
and every message that was authored is stored, lost or held by a handler. A
failure of the hook's database half is `FailToLead`; one of its cache half is
`GiveUp` when the database half is still to come, `FailToKeep` when that is
done, and a stutter when the message is lost already; what the database half
then does is `FailToLead` of a message that is failing (`HookErrsRecorded`,
`HookWritesRecorded`). An expiry is `Expire`. That every authored message is
held, stored or lost makes a crash the step `Stop`: what it loses is exactly
what was under way. A handler that has reached its write was valid on the list
it holds (`RecordTask`), and by `TaskInv` that list is on record, which is the
guard of `Add` and `Remove`. Most actions are stutters; `Unseen` gives that for
any step that leaves document, messages and calls alone, and `OthersKeepFate`
says that a step of one handler leaves the fates of the messages of the others.
`PromiseKept` is what a reader of `GroupRecord` alone may conclude (`Sound`:
roles fit members, the creator is the only Admin there ever was, what is
`lastMessage` led, what is stored led before, who is told was there), proved of
`GroupRecord`'s steps and carried over by the refinement.

`Coherent` is `CoherentAtRest` for any users, handlers, messages, calls and
faults: it speaks of the behaviours up to the first fault or the first overlap
of two calls. Its invariant, `SerialInv`, follows a call through its awaits
while all other handlers are idle (`Alone`): until the write the entries fit
the document (`Calm`); after it the snapshot does, the entries not yet
refreshed have at least the last message right, and what a merge was based on
has it too (`Refreshing`); during a save the last message of document and entry
may differ while a write of the hook is outstanding, and not afterwards
(`Saving`). Right means the document's, or `null` for one that expired
(`LastNow`). Once two calls overlap the claim is false, and the step that fails
is the refresh of an entry that another call has refreshed meanwhile.

**SubsetCheck.** `SubsetIsMatching`: `IsSubset(src, targets)` exactly if each
target has an element of `src` to itself. `SubsetOfDistinct` and `SubsetOfBags`
are the two halves of the assumption TLC evaluates. The loop has two
invariants: the targets found so far are paired with elements passed
(`CountedArePaired`), and if all targets can be paired at all then those not
found yet can be paired with the elements not passed (`RestIsPaired`: an
element that is used up goes to the target at hand, and whoever else had it
takes that target's element; an element that is skipped was nobody's, being too
small for the rest). That they hold after every turn is an induction over the
turns, made as an argument about the least turn that breaks them
(`LeastNumber`, `Upwards`). `Sorted` shows that the places of a stable sort are
a permutation, an injection of a finite set into itself, and in order;
`MatchesIsTransitive` takes the pairing from the sorted arrays back to the
given ones.

**Calls.** `CallsAreGateway` (`CallSpec => Spec`) brings everything proved of
the gateway to calls. What calls add is one fact: a chosen socket has been
opened (`RungWasOpen`), so that by the time it rings it can only be open or
gone for good; with `SessionIsLive` from the gateway's invariant and the fact
that a user without an entry is `Away` (`NoEntryIsAway`) this gives `Answers`
and `Relays`.

**Messages.** `References`, `Orphans`, `Removals`, `Events`, `Implements`,
`LedgerKept`. The first three follow from `IInv`. Its parts: where the files of
a post are at each await (`FilesInv`), that no image belongs to two posts or
messages, expired ones included (`Disjoint`), that every image is accounted for
(`Accounted`), and what the second update of a removal is still to do
(`RemovedInv`). `Events` has an invariant of its own, `EventsInv`: while no two
calls have overlapped at most one handler is busy, and what has been told lags
behind what is stored by exactly what that handler is about to tell.

`Implements` (`Spec => ImplementsLedger`) takes every step to a step of
`MessageLedger` or to a stutter. `LedgerInv` adds to `IInv` what a handler
knows of the ledger: the message of a post is not lost before it is stored,
what a handler empties or tells as removed has been removed, and what is torn
is an image or a message that was created, never one still to come. That a post
claims only images nobody knows is the code's fresh public id (`Known` in
`BeginPost`); that it gives up exactly its own claim (`DueLeft`) needs
`Disjoint`; that an erased image is named by no message that is not removed
(`NotAttached`) is what makes `Erase` and `Stop` forget only what they may.
`LedgerKept` is `Ledger!Sound`, proved of the ledger's steps by what they do
(claims, stores, changes, empties, tells, or moves images only, `ImagesSound`)
and carried over by the refinement: an image has one claim, what a message
names is in the store until that message is removed, each stored image is
named, awaited, doomed, torn or left by an expired message, and no removal is
told that nobody made. Messages are numbers and images are not
(`AssetsAssumption`), so that `torn` may hold both.

**Accounts.** `Complete`, `Owners`, `Fresh`, `StatusAnswers`. The invariant
says that what is no longer in `todo` of a call that has not failed is done
(`PartsInv`), that one handler registers an account (`RegistersAlone`), that
the collection has one user per address (`OneUser`) and that while nothing
failed an address that somebody asked for has its user or a handler about to
create it (`SomebodyWins`); and that between the two commands of an upload
there is no cached entry unless a reader met it (`PictureInv`).

**ConversationCreation.** `Told`. Beside the property the invariant says what a
handler with a conversation holds (`TaskInv`: members of it, and just those
asked for if the request repeats nobody), that whoever has created a
conversation and was not interrupted is still about to tell its founders or has
done so (`FoundersInv`), and that members are on record. The part of `Told`
about repetitions is `Fills`: an array without repetition that is contained in
another one of its length has all its elements (a surjection between finite
sets of equal cardinality).

**Only model-checked.** The liveness properties of `FriendRequests` and
`GroupConversation`, which are outside what the prover handles, and `TypeOK` and
`OnlyTwinsAreMissed` of `MessagePages`, the latter being about cardinalities of
sets chosen by an order that is not total. Every other safety property of a
passing run is a theorem.

## 6. What the checks showed

Two statements found in the repository do not hold of the code.

* *One request per pair* (`friend_requests_pair`). `create` says `return all
  ready relation ship` / `not found relationship`
  (`routes/user/friends/friend-request.service.ts:80`, `:88`) and looks in both
  directions before it inserts, but lookup and insert are two commands and the
  unique index (`models/friend-request/index.ts:32`) is on the *ordered* pair.
  Two users who ask each other at the same time get a request in each
  direction; accepting both enters each in the other's list twice.
* *You don't have permission* (`group_permission`). `addMoreMembers` and
  `removeMoreMembers` are for Admins
  (`routes/conversation/group/conversation.group.service.ts:102`, `:122`), and
  others get `You don't have permission` (`decorate/CheckPermission.ts:24`).
  But the decorator caches a 'Confirm' per user and conversation, not per
  operation or role (`:49`, `:60`), and whoever has it is let through (`:56`).
  An Admin who removed himself still adds and removes for a day; and `leave`,
  which is for Members, caches the same 'Confirm', so that a Member who leaves
  can then add and remove.

Observations that no statement of the repository contradicts:

* Two posts at the same time may leave the cached `lastMessage` different from
  the document's, and a read-through started before a change may leave the old
  members in the cache until the entry expires: `CoherentAtRest` needs calls
  that do not overlap.
* When a Redis command fails after the write of the members, the call answers
  with an error although the members have changed, and the entries that were
  not refreshed show the old ones for up to a day.
* `CacheService.update` sets what it got and merged: an entry that expired in
  between comes back, and so does an older list that another call replaced.
* An `addMembers` call is refused as *already in the group* only if **all**
  users it names are members (`conversation.group.service.ts:26`, `:35`); of
  one that names members and newcomers, the `$set` (`:78-80`) gives the members
  the role Member, an Admin too, after which the group may have no Admin.
* When the cache half of the hook fails the message is lost and its sender is
  told so, and the conversation's `lastMessage` names it all the same.
* Messages expire after a year (`models/messages/index.ts:34`). `lastMessage`
  then names a message that is gone and is populated as `null`; and the images
  of an expired message stay in the store for ever, without any error.
* An edit of a message that was removed makes it an edited message again, with
  a text; its attachments stay gone. Neither looks at the author.
* `create` of a friend request that finds a pending one answers with it and
  sends the 'Request' notice to the addressee of *that* one: if the addressee
  asks back, it is she who is told that she was asked. The notice may also come
  after the request was answered.
* A user with two connections whose older one closes is connected but no longer
  in the session map (hence `overlapped` in `PresenceIsExact` and
  `RelaysReachTheParty`): presence says 'offline', and calls and notices do not
  reach her.
* A call may be answered 'calling' although the socket to ring closed while the
  two profiles were looked up.
* A removed member's second socket stays in the conversation's room, and so do
  all sockets of a member who leaves by the leave call.
* Two friend-list queries of one user may come back in the wrong order; the
  list shown is then an older one, of friends nevertheless.
* The 'already friends' check is made on a profile read before the insert: a
  pair that became friends in between gets a new request.
* The first message of a conversation, or the first after all others have
  expired, does not produce a last-message event (`EmitModifiedMessage` looks
  at a snapshot without a `lastMessage`).
* A list of messages asked for without a bucket starts at bucket 1
  (`messages.controller.ts`), although buckets count from 0: it leaves out the
  newest page. `OnlyTwinsAreMissed` is about a client that names its buckets.
* The list is sorted by `createdAt` alone (`messages.service.ts:28`): messages
  of one millisecond that the end of a page runs through may come twice, or not
  at all.
* The unique index on `participant.members`
  (`models/conversations/index.ts:17`) is on an array, so on its elements. It
  keeps two creators from making the same conversation, and it also keeps any
  user from being in two: the second create fails with a duplicate key. The
  rest of the code is written for users in several conversations:
  `getConversations` lists twenty of one user, and the lookup of
  `createConversation` wants *exactly* these members among the conversations
  they are in.
* `findOne` compares `$size` with the number of ids *named* and `$all` with the
  distinct ones: a create with a repeated id may be answered with a larger
  group.
* If the first message of a new conversation fails, the conversation exists and
  nobody is told of it (`cut` in `FoundersAreTold`).
* A reader between the clearing of a cached image and the end of the upload
  caches the older image for two days (`raced` in `CachedIsFresh`).
* `fetchImage` looks at no status: the body of a 404 is cached like an image.
* A failed registration leaves what its other branches wrote: a profile without
  a user, or an avatar of nobody.

## 7. Not modelled, and what is left

Parts of the modelled components that are left out:

* `Users`: `findUserById` through the USER cache entry, which is filled and
  never invalidated. It only serves display; no decision reads a field that
  changes.
* `Profiles`: `updateInformation` (one command), `getRelationship`, `search`
  and the friend lists, which only read. The broadcasts of a changed profile to
  friends only send; two of them may overtake each other, since each awaits a
  query for the friends first.
* The first page of `getConversations` and its filters, which only read.
* Strings and formats: ids, URLs of images, password hashes, response bodies.

Next, in order:

1. Compositions: `FriendRequests` with `GatewaySessions` (notices to users who
   connect and disconnect meanwhile), `GroupConversation` with
   `GatewaySessions` (a removed member's room).
2. An abstract specification of `Accounts` (an account is registered as a whole
   or refused, an image is the last one uploaded), with its refinement.

Not planned: infrastructure (wiring and configuration only), validation pipes
and DTOs, search and listing queries (they read), password hashing and cookie
sessions (external), the format of responses.
