------------------------------- MODULE MessagePages -------------------------------
(***************************************************************************)
(* A client reads the list of a conversation's messages bucket by bucket   *)
(* while messages are stored and expire.  The list is sorted by createdAt, *)
(* newest first, and by nothing else: MongoDB returns messages of one      *)
(* millisecond in any order, and need not return them in the same order to *)
(* the next query, which skips by count.                                   *)
(***************************************************************************)
EXTENDS Naturals, FiniteSets

CONSTANTS
    Posts,       \* messages, all of one conversation
    MaxMillis,   \* bound: the clock, in milliseconds of which the code tells
    MaxBuckets,  \* bound: buckets the client reads
    Limit        \* page size

ASSUME PostsAssumption == IsFiniteSet(Posts)
ASSUME BoundsAssumption == MaxMillis \in Nat \ {0} /\ MaxBuckets \in Nat
ASSUME LimitAssumption == Limit \in Nat \ {0}

VARIABLES
    clock,      \* of the server
    createdAt,  \* message -> its stamp, 0 while it has none
    unstored,   \* messages that were not inserted yet
    present,    \* the collection
    bucket,     \* the bucket the client asks for next
    start,      \* history: the collection when it asked for bucket 0
    seen,       \* the messages it has been given
    cut         \* history: those of a millisecond that a page it read ended in

vars == <<clock, createdAt, unstored, present, bucket, start, seen, cut>>

-------------------------------------------------------------------------------

TypeOK ==
    /\ clock \in 1..MaxMillis
    /\ createdAt \in [Posts -> 0..clock]
    /\ unstored \subseteq Posts /\ present \subseteq Posts \ unstored
    /\ bucket \in 0..MaxBuckets
    /\ start \subseteq Posts \ unstored /\ seen \subseteq Posts \ unstored
    /\ cut \subseteq Posts \ unstored
    /\ \A m \in present : createdAt[m] > 0

Init ==
    /\ clock = 1 /\ createdAt = [m \in Posts |-> 0]
    /\ unstored = Posts /\ present = {}
    /\ bucket = 0 /\ start = {} /\ seen = {} /\ cut = {}

-------------------------------------------------------------------------------
(* The messages *)

Tick ==
    /\ clock < MaxMillis /\ clock' = clock + 1
    /\ UNCHANGED <<createdAt, unstored, present, bucket, start, seen, cut>>

(* timestamps: true.  The document has its createdAt before its hooks run. *)
Stamp(m) ==
    /\ createdAt[m] = 0
    /\ createdAt' = [createdAt EXCEPT ![m] = clock]
    /\ UNCHANGED <<clock, unstored, present, bucket, start, seen, cut>>

(* Mutant: a schema without timestamps.                                    *)
NeedsNoStamp(m) == TRUE
Stamped(m) == createdAt[m] > 0

(* The inserts of several handlers need not come in the order of stamps.   *)
Insert(m) ==
    /\ m \in unstored /\ Stamped(m)
    /\ unstored' = unstored \ {m} /\ present' = present \union {m}
    /\ UNCHANGED <<clock, createdAt, bucket, start, seen, cut>>

(* The TTL index on createdAt: the oldest go first.                        *)
Expire(m) ==
    /\ m \in present /\ \A k \in present : createdAt[m] <= createdAt[k]
    /\ present' = present \ {m}
    /\ UNCHANGED <<clock, createdAt, unstored, bucket, start, seen, cut>>

-------------------------------------------------------------------------------
(* getMessages *)

(* Mutant: a skip that is one too long.                                    *)
SkipOneMore(b) == b * Limit + 1
Skip(b) == b * Limit

(* The first messages of a list sorted by createdAt, newest first.         *)
Leads(messages) ==
    \A m \in messages, k \in present \ messages : createdAt[m] >= createdAt[k]

AtMost(n) == IF n < Cardinality(present) THEN n ELSE Cardinality(present)

(* What find().skip().limit().sort() may return.                           *)
Pages(b) ==
    {page \in SUBSET present :
        \E skipped \in SUBSET (present \ page) :
            /\ Leads(skipped) /\ Leads(skipped \union page)
            /\ Cardinality(skipped) = AtMost(Skip(b))
            /\ Cardinality(skipped \union page) = AtMost(Skip(b) + Limit)}

Newer(m) == {k \in present : createdAt[k] > createdAt[m]}
Twins(m) == {k \in present : createdAt[k] = createdAt[m]}

(* Messages with a twin on the page after bucket b, as the order may fall. *)
CutAfter(b) ==
    LET end == (b + 1) * Limit IN
    {m \in present : /\ Cardinality(Newer(m)) < end
                     /\ Cardinality(Newer(m)) + Cardinality(Twins(m)) > end}

(* A client that asks for bucket 0, then 1, ...  Each answer is one query; *)
(* the count beside it is only displayed.                                  *)
ReadBucket ==
    /\ bucket < MaxBuckets
    /\ start' = IF bucket = 0 THEN present ELSE start
    /\ \E page \in Pages(bucket) : seen' = seen \union page
    /\ cut' = cut \union CutAfter(bucket)
    /\ bucket' = bucket + 1
    /\ UNCHANGED <<clock, createdAt, unstored, present>>

-------------------------------------------------------------------------------
(* Specification *)

Next ==
    \/ Tick \/ ReadBucket
    \/ \E m \in Posts : Stamp(m) \/ Insert(m) \/ Expire(m)

Spec == Init /\ [][Next]_vars

-------------------------------------------------------------------------------
(* Properties *)

(* Once the client has asked for as many buckets as there are, it has been *)
(* given every message that was there when it began and still is, except   *)
(* perhaps some of a millisecond that two pages shared when it read the    *)
(* first of them.  Nothing that is stored meanwhile, even with an older    *)
(* createdAt, and nothing that expires makes it miss another.              *)
OnlyTwinsAreMissed ==
    bucket > 0 /\ bucket * Limit >= Cardinality(present) =>
        (start \intersect present) \ cut \subseteq seen
===================================================================================
