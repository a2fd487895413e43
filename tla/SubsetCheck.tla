------------------------------ MODULE SubsetCheck ------------------------------
(***************************************************************************)
(* isSubset of extensions/utils/array.ts, by which GroupConversation's     *)
(* Valid compares the named users with the members: two sorted arrays are  *)
(* walked with one index each.  Valid says it with an inclusion of sets;   *)
(* here the walk is compared with what it is used for: by TLC on all       *)
(* arrays of up to four of three values, and in SubsetProofs on all.  Ids  *)
(* are strings; only their order, the same for `sort' and `<', is used.    *)
(***************************************************************************)
EXTENDS Integers, Sequences, FiniteSets

(* Array.prototype.sort, which is stable: an element's place is the number *)
(* of those that are not to come after it.                                 *)
Upto(s, k) == {i \in DOMAIN s : s[i] < s[k] \/ (s[i] = s[k] /\ i <= k)}
Place(s, k) == Cardinality(Upto(s, k))
InOrder(s) == [n \in DOMAIN s |-> s[CHOOSE k \in DOMAIN s : Place(s, k) = n]]

Stopped == -1

(* One turn of the loop, at the j-th element of src, when i targets have   *)
(* been found: equal elements are used up together, a greater one in src   *)
(* ends the search.                                                        *)
Turn(s, t, i, j) ==
    CASE i \in {Stopped, Len(t)} -> i
      [] i \notin {Stopped, Len(t)} ->
            IF s[j] > t[i + 1] THEN Stopped
            ELSE IF s[j] < t[i + 1] THEN i ELSE i + 1

(* How many targets are found, after j elements of src.                    *)
Found(s, t) ==
    LET found[j \in 0..Len(s)] == IF j = 0 THEN 0 ELSE Turn(s, t, found[j - 1], j)
    IN  found

Walk(s, t) == Found(s, t)[Len(s)] = Len(t)

IsSubset(src, targets) ==
    Len(src) >= Len(targets) /\ Walk(InOrder(src), InOrder(targets))

-------------------------------------------------------------------------------

Ordered(s) == \A i, j \in DOMAIN s : i <= j => s[i] <= s[j]

(* Each target has an element of src to itself.                            *)
Pairings(s, t, I, J) ==
    {f \in [I -> J] : /\ \A k \in I : s[f[k]] = t[k]
                      /\ \A k, l \in I : f[k] = f[l] => k = l}
Matches(s, t) == Pairings(s, t, DOMAIN t, DOMAIN s) # {}

Times(x, s) == Cardinality({k \in DOMAIN s : s[k] = x})
Elements(s) == {s[k] : k \in DOMAIN s}
SmallArrays == UNION {[1..n -> 1..3] : n \in 0..4}

(* The walk decides inclusion of bags: a target named twice must be there  *)
(* twice.  Without repetition, as ids of accounts are, that is inclusion   *)
(* of sets.                                                                *)
ASSUME SubsetIsInclusion ==
    \A src, targets \in SmallArrays :
        /\ IsSubset(src, targets)
              <=> \A x \in Elements(targets) : Times(x, targets) <= Times(x, src)
        /\ Cardinality(Elements(targets)) = Len(targets) =>
              (IsSubset(src, targets) <=> Elements(targets) \subseteq Elements(src))
===============================================================================
