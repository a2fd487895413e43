----------------------------- MODULE SubsetProofs -----------------------------
(***************************************************************************)
(* What isSubset computes, for arrays of every length.                     *)
(***************************************************************************)
EXTENDS SubsetCheck, FiniteSetTheorems, FunctionTheorems, WellFoundedInduction, TLAPS

-------------------------------------------------------------------------------
(* Induction *)

(* A set of numbers has a least one.  Every induction below looks for the  *)
(* first number of which its claim is false.                               *)
LEMMA LeastNumber ==
  ASSUME NEW T \in SUBSET Nat, T # {}
  PROVE  \E n \in T : \A k \in T : n <= k
<1>1. PICK n \in T : \A k \in T : ~(<<k, n>> \in OpToRel(<, Nat))
  BY NatLessThanWellFounded, WFMin
<1>2. \A k \in T : ~(k < n)
  BY <1>1 DEF OpToRel
<1> QED BY <1>2

(* A set of positions that holds 0, and with each also the next, holds     *)
(* them all.                                                               *)
LEMMA Upwards ==
  ASSUME NEW m \in Nat, NEW S, 0 \in S, \A j \in 1..m : j - 1 \in S => j \in S
  PROVE  0..m \subseteq S
<1> DEFINE T == 0..m \ S
<1> SUFFICES ASSUME T # {} PROVE FALSE
  OBVIOUS
<1>1. PICK n \in T : \A k \in T : n <= k
  <2>1. T \in SUBSET Nat
    OBVIOUS
  <2> HIDE DEF T
  <2> QED BY <2>1, LeastNumber
<1>2. n \in 1..m /\ n - 1 \in 0..m /\ ~(n <= n - 1)
  BY <1>1
<1>3. n - 1 \in S
  BY <1>1, <1>2
<1> QED BY <1>1, <1>2, <1>3

-------------------------------------------------------------------------------
(* The loop *)

(* There is a function as Found describes it.                              *)
LEMMA LoopRuns ==
  ASSUME NEW s \in Seq(Int), NEW t \in Seq(Int)
  PROVE  /\ Found(s, t)[0] = 0
         /\ \A j \in 1..Len(s) : Found(s, t)[j] = Turn(s, t, Found(s, t)[j - 1], j)
<1> DEFINE m == Len(s)
           Body(f, j) == IF j = 0 THEN 0 ELSE Turn(s, t, f[j - 1], j)
           Runs(n) == \E f : f = [j \in 0..n |-> Body(f, j)]
           S == {n \in 0..m : Runs(n)}
<1>1. m \in Nat
  OBVIOUS
<1>2. 0 \in S
  <2> DEFINE f == [j \in 0..0 |-> 0]
  <2>1. f = [j \in 0..0 |-> Body(f, j)]
    OBVIOUS
  <2> HIDE DEF f
  <2> QED BY <1>1, <2>1
<1>3. ASSUME NEW n \in 1..m, n - 1 \in S PROVE n \in S
  <2>1. PICK f : f = [j \in 0..(n - 1) |-> Body(f, j)]
    BY <1>3
  <2> DEFINE g == [j \in 0..n |-> IF j < n THEN f[j] ELSE Turn(s, t, f[n - 1], n)]
  <2>2. ASSUME NEW j \in 0..n PROVE g[j] = Body(g, j)
    <3>1. CASE j = 0
      <4>1. f[0] = Body(f, 0)
        BY <2>1, <1>1
      <4> QED BY <3>1, <4>1
    <3>2. CASE j \in 1..(n - 1)
      <4>1. f[j] = Body(f, j)
        BY <2>1, <3>2
      <4>2. g[j] = f[j] /\ g[j - 1] = f[j - 1]
        BY <3>2, <1>1
      <4> QED BY <3>2, <4>1, <4>2
    <3>3. CASE j = n
      <4>1. g[j - 1] = f[j - 1]
        BY <3>3, <1>1
      <4> QED BY <3>3, <4>1, <1>1
    <3> QED BY <3>1, <3>2, <3>3
  <2> HIDE DEF g
  <2>3. g = [j \in 0..n |-> g[j]]
    BY DEF g
  <2>4. g = [j \in 0..n |-> Body(g, j)]
    BY <2>2, <2>3
  <2> QED BY <2>4, <1>1
<1>4. m \in S
  <2>1. \A n \in 1..m : n - 1 \in S => n \in S
    BY <1>3
  <2> HIDE DEF S, m
  <2>2. 0..m \subseteq S
    BY <1>1, <1>2, <2>1, Upwards
  <2> QED BY <1>1, <2>2
<1>5. PICK f : f = [j \in 0..m |-> Body(f, j)]
  BY <1>4
<1>6. Found(s, t) = CHOOSE g : g = [j \in 0..m |-> IF j = 0 THEN 0
                                                   ELSE Turn(s, t, g[j - 1], j)]
  BY Zenon DEF Found
<1>7. Found(s, t) = [j \in 0..m |-> Body(Found(s, t), j)]
  BY <1>5, <1>6
<1> HIDE DEF Body
<1>8. \A j \in 0..m : Found(s, t)[j] = Body(Found(s, t), j)
  BY <1>7
<1> QED BY <1>1, <1>8 DEF Body

(* It never counts more targets than there are.                            *)
LEMMA CountIsInRange ==
  ASSUME NEW s \in Seq(Int), NEW t \in Seq(Int), NEW j \in 0..Len(s)
  PROVE  Found(s, t)[j] \in {Stopped} \union 0..Len(t)
<1> DEFINE S == {k \in 0..Len(s) : Found(s, t)[k] \in {Stopped} \union 0..Len(t)}
<1>1. 0 \in S
  BY LoopRuns
<1>2. ASSUME NEW k \in 1..Len(s), k - 1 \in S PROVE k \in S
  <2>1. Found(s, t)[k] = Turn(s, t, Found(s, t)[k - 1], k)
    BY LoopRuns
  <2>2. Found(s, t)[k - 1] \in {Stopped} \union 0..Len(t)
    BY <1>2
  <2> QED BY <2>1, <2>2 DEF Turn, Stopped
<1> HIDE DEF S
<1>3. 0..Len(s) \subseteq S
  <2>1. \A k \in 1..Len(s) : k - 1 \in S => k \in S
    BY <1>2
  <2>2. Len(s) \in Nat
    OBVIOUS
  <2> QED BY <1>1, <2>1, <2>2, Upwards
<1> QED BY <1>3 DEF S

(* The targets counted have been paired with elements that were passed.    *)
LEMMA CountedArePaired ==
  ASSUME NEW s \in Seq(Int), NEW t \in Seq(Int), NEW j \in 0..Len(s),
         Found(s, t)[j] # Stopped
  PROVE  Pairings(s, t, 1..Found(s, t)[j], 1..j) # {}
<1> DEFINE F == Found(s, t)
           Paired(k) == F[k] # Stopped => Pairings(s, t, 1..F[k], 1..k) # {}
           S == {k \in 0..Len(s) : Paired(k)}
<1>1. 0 \in S
  <2>1. F[0] = 0
    BY LoopRuns
  <2>2. [k \in 1..0 |-> 0] \in Pairings(s, t, 1..0, 1..0)
    BY DEF Pairings
  <2>3. Paired(0)
    BY <2>1, <2>2
  <2> HIDE DEF Paired
  <2> QED BY <2>3
<1>2. ASSUME NEW k \in 1..Len(s), k - 1 \in S, F[k] # Stopped
      PROVE  Pairings(s, t, 1..F[k], 1..k) # {}
  <2> DEFINE i == F[k - 1]
  <2>1. F[k] = Turn(s, t, i, k)
    BY LoopRuns
  <2>2. i \in 0..Len(t)
    <3>1. i \in {Stopped} \union 0..Len(t)
      BY CountIsInRange
    <3>2. i # Stopped
      BY <1>2, <2>1 DEF Turn
    <3> QED BY <3>1, <3>2
  <2>3. PICK f : f \in Pairings(s, t, 1..i, 1..(k - 1))
    <3>1. i # Stopped
      BY <2>2 DEF Stopped
    <3> QED BY <1>2, <3>1
  <2> HIDE DEF i, F
  <2>4. CASE F[k] = i
    <3>1. f \in Pairings(s, t, 1..i, 1..k)
      BY <2>2, <2>3 DEF Pairings
    <3> QED BY <2>4, <3>1
  <2>5. CASE F[k] = i + 1 /\ s[k] = t[i + 1]
    <3> DEFINE g == [n \in 1..(i + 1) |-> IF n = i + 1 THEN k ELSE f[n]]
    <3>1. /\ f \in [1..i -> 1..(k - 1)] /\ \A n \in 1..i : s[f[n]] = t[n]
          /\ \A n, l \in 1..i : f[n] = f[l] => n = l
      BY <2>3 DEF Pairings
    <3>2. g \in [1..(i + 1) -> 1..k]
      BY <2>2, <3>1
    <3>3. \A n \in 1..(i + 1) : s[g[n]] = t[n]
      BY <2>2, <2>5, <3>1
    <3>4. ASSUME NEW n \in 1..(i + 1), NEW l \in 1..(i + 1), g[n] = g[l] PROVE n = l
      <4>1. \A q \in 1..i : f[q] # k
        BY <3>1
      <4> QED BY <2>2, <3>1, <3>4, <4>1
    <3> HIDE DEF g
    <3>5. g \in Pairings(s, t, 1..(i + 1), 1..k)
      BY <3>2, <3>3, <3>4 DEF Pairings
    <3> QED BY <2>5, <3>5
  <2>6. (F[k] = i + 1 /\ s[k] = t[i + 1]) \/ F[k] = i
    <3>1. CASE i = Len(t)
      BY <2>1, <3>1 DEF Turn
    <3>2. CASE i # Len(t)
      <4>1. i + 1 \in 1..Len(t) /\ s[k] \in Int /\ t[i + 1] \in Int
        BY <2>2, <3>2
      <4>2. i \notin {Stopped, Len(t)}
        BY <2>2, <3>2 DEF Stopped
      <4> QED BY <1>2, <2>1, <4>1, <4>2 DEF Turn
    <3> QED BY <3>1, <3>2
  <2> QED BY <2>4, <2>5, <2>6
<1> HIDE DEF F
<1>3. \A k \in 1..Len(s) : k - 1 \in S => k \in S
  <2> SUFFICES ASSUME NEW k \in 1..Len(s), k - 1 \in S PROVE k \in S
    OBVIOUS
  <2>1. Paired(k)
    BY <1>2
  <2> HIDE DEF Paired
  <2> QED BY <2>1
<1> HIDE DEF S
<1>4. 0..Len(s) \subseteq S
  <2>1. Len(s) \in Nat
    OBVIOUS
  <2> QED BY <1>1, <1>3, <2>1, Upwards
<1>5. Paired(j)
  BY <1>4 DEF S
<1> QED BY <1>5 DEF F

(* Where all targets can be paired, those not counted yet can be paired    *)
(* with the elements to come, so that the search is not ended too early.   *)
LEMMA RestIsPaired ==
  ASSUME NEW s \in Seq(Int), NEW t \in Seq(Int), Ordered(s), Ordered(t), Matches(s, t),
         NEW j \in 0..Len(s)
  PROVE  /\ Found(s, t)[j] # Stopped
         /\ Pairings(s, t, (Found(s, t)[j] + 1)..Len(t), (j + 1)..Len(s)) # {}
<1> DEFINE F == Found(s, t)
           Paired(k) == /\ F[k] # Stopped
                        /\ Pairings(s, t, (F[k] + 1)..Len(t), (k + 1)..Len(s)) # {}
           S == {k \in 0..Len(s) : Paired(k)}
<1>1. 0 \in S
  <2>1. F[0] = 0 /\ Stopped # 0
    BY LoopRuns DEF Stopped
  <2>2. Pairings(s, t, 1..Len(t), 1..Len(s)) # {}
    BY DEF Matches
  <2> QED BY <2>1, <2>2
<1>2. ASSUME NEW k \in 1..Len(s), k - 1 \in S PROVE Paired(k)
  <2> DEFINE i == F[k - 1]
  <2>1. F[k] = Turn(s, t, i, k)
    BY LoopRuns
  <2>2. i \in 0..Len(t)
    BY <1>2, CountIsInRange
  <2>3. PICK g : g \in Pairings(s, t, (i + 1)..Len(t), k..Len(s))
    BY <1>2
  <2> HIDE DEF i, F
  <2>4. /\ g \in [(i + 1)..Len(t) -> k..Len(s)]
        /\ \A n \in (i + 1)..Len(t) : s[g[n]] = t[n]
        /\ \A n, l \in (i + 1)..Len(t) : g[n] = g[l] => n = l
    BY <2>3 DEF Pairings
  <2>5. CASE i = Len(t)
    <3>1. F[k] = i /\ F[k] # Stopped
      BY <2>1, <2>5, <2>2 DEF Turn, Stopped
    <3>2. [n \in {} |-> 0] \in Pairings(s, t, (i + 1)..Len(t), (k + 1)..Len(s))
      BY <2>2, <2>5 DEF Pairings
    <3> QED BY <3>1, <3>2
  <2>6. CASE i # Len(t)
    <3>1. /\ i + 1 \in 1..Len(t) /\ i \notin {Stopped, Len(t)} /\ i + 1 # Stopped
          /\ i + 1 \in (i + 1)..Len(t) /\ s[k] \in Int /\ t[i + 1] \in Int
      BY <2>2, <2>6 DEF Stopped
    <3>2. \A n \in (i + 1)..Len(t) : t[i + 1] <= t[n] /\ t[n] \in Int
      BY <2>2, <3>1 DEF Ordered
    <3>3. s[k] <= t[i + 1]
      <4>1. g[i + 1] \in k..Len(s) /\ s[g[i + 1]] = t[i + 1]
        BY <2>4, <3>1
      <4> QED BY <4>1 DEF Ordered
    <3>4. CASE s[k] < t[i + 1]
      <4>1. F[k] = i
        BY <2>1, <3>1, <3>4 DEF Turn
      <4>2. ASSUME NEW n \in (i + 1)..Len(t) PROVE g[n] \in (k + 1)..Len(s)
        <5>1. g[n] # k /\ g[n] \in k..Len(s)
          BY <2>4, <3>1, <3>2, <3>4
        <5> QED BY <5>1
      <4>3. g \in Pairings(s, t, (i + 1)..Len(t), (k + 1)..Len(s))
        BY <2>4, <4>2 DEF Pairings
      <4> QED BY <3>1, <4>1, <4>3
    <3>5. CASE s[k] = t[i + 1]
      <4>1. F[k] = i + 1
        BY <2>1, <3>1, <3>5 DEF Turn
      <4> DEFINE e == g[i + 1]
                 I == (i + 2)..Len(t)
                 f == [n \in I |-> IF g[n] = k THEN e ELSE g[n]]
      <4>2. /\ \A n \in I : n \in (i + 1)..Len(t) /\ n # i + 1
            /\ \A n \in I : g[n] \in k..Len(s) /\ g[n] # e /\ s[g[n]] = t[n]
            /\ e \in k..Len(s) /\ s[e] = t[i + 1]
        <5>1. \A n \in I : n \in (i + 1)..Len(t) /\ n # i + 1
          BY <2>2
        <5> QED BY <2>4, <3>1, <5>1
      <4>3. ASSUME NEW n \in I PROVE f[n] \in (k + 1)..Len(s) /\ s[f[n]] = t[n]
        <5>1. g[n] \in k..Len(s) /\ g[n] # e /\ s[g[n]] = t[n] /\ e \in k..Len(s)
          BY <4>2
        <5>2. CASE g[n] = k
          <6>1. f[n] = e /\ e # k
            BY <5>1, <5>2
          <6> QED BY <3>5, <4>2, <5>1, <5>2, <6>1
        <5>3. CASE g[n] # k
          BY <5>1, <5>3
        <5> QED BY <5>2, <5>3
      <4>4. ASSUME NEW n \in I, NEW l \in I, f[n] = f[l] PROVE n = l
        BY <2>4, <4>2, <4>4
      <4>5. f \in [I -> (k + 1)..Len(s)]
        BY <4>3
      <4> HIDE DEF f
      <4>6. f \in Pairings(s, t, I, (k + 1)..Len(s))
        BY <4>3, <4>4, <4>5 DEF Pairings
      <4>7. I = (F[k] + 1)..Len(t)
        BY <2>2, <4>1
      <4> QED BY <3>1, <4>1, <4>6, <4>7
    <3> QED BY <3>1, <3>3, <3>4, <3>5
  <2> QED BY <2>5, <2>6
<1> HIDE DEF F
<1>3. \A k \in 1..Len(s) : k - 1 \in S => k \in S
  <2> SUFFICES ASSUME NEW k \in 1..Len(s), k - 1 \in S PROVE k \in S
    OBVIOUS
  <2>1. Paired(k)
    BY <1>2
  <2> HIDE DEF Paired
  <2> QED BY <2>1
<1> HIDE DEF S
<1>4. 0..Len(s) \subseteq S
  <2>1. Len(s) \in Nat
    OBVIOUS
  <2> QED BY <1>1, <1>3, <2>1, Upwards
<1>5. Paired(j)
  BY <1>4 DEF S
<1> QED BY <1>5 DEF F

(* On ordered arrays the walk finds the pairing whenever there is one.     *)
LEMMA WalkMatches ==
  ASSUME NEW s \in Seq(Int), NEW t \in Seq(Int), Ordered(s), Ordered(t)
  PROVE  Walk(s, t) <=> Matches(s, t)
<1> DEFINE m == Len(s)
           i == Found(s, t)[m]
<1>1. m \in 0..m /\ Len(t) \in Nat
  OBVIOUS
<1>2. ASSUME Walk(s, t) PROVE Matches(s, t)
  <2>1. i = Len(t) /\ i # Stopped
    BY <1>1, <1>2 DEF Walk, Stopped
  <2>2. Pairings(s, t, 1..i, 1..m) # {}
    BY <1>1, <2>1, CountedArePaired
  <2> QED BY <2>1, <2>2 DEF Matches
<1>3. ASSUME Matches(s, t) PROVE Walk(s, t)
  <2>1. i # Stopped /\ Pairings(s, t, (i + 1)..Len(t), (m + 1)..m) # {}
    BY <1>1, <1>3, RestIsPaired
  <2>2. i \in {Stopped} \union 0..Len(t)
    BY <1>1, CountIsInRange
  <2> HIDE DEF i
  <2>3. PICK f : f \in [(i + 1)..Len(t) -> (m + 1)..m]
    BY <2>1 DEF Pairings
  <2>4. (i + 1)..Len(t) = {}
    BY <1>1, <2>3
  <2>5. i = Len(t)
    <3> SUFFICES ASSUME i # Len(t) PROVE FALSE
      OBVIOUS
    <3>1. i \in 0..Len(t)
      BY <2>1, <2>2
    <3>2. i + 1 \in (i + 1)..Len(t)
      BY <1>1, <3>1
    <3> QED BY <2>4, <3>2
  <2> QED BY <2>5 DEF Walk, i
<1> QED BY <1>2, <1>3

-------------------------------------------------------------------------------
(* Sorting *)

LEMMA PlaceIsPosition ==
  ASSUME NEW s \in Seq(Int), NEW k \in DOMAIN s
  PROVE  /\ IsFiniteSet(Upto(s, k)) /\ Place(s, k) \in DOMAIN s
<1>1. DOMAIN s = 1..Len(s) /\ Len(s) \in Nat
  OBVIOUS
<1>2. IsFiniteSet(1..Len(s)) /\ Cardinality(1..Len(s)) = Len(s)
  <2>1. /\ IsFiniteSet(1..Len(s))
        /\ Cardinality(1..Len(s)) = IF 1 > Len(s) THEN 0 ELSE Len(s) - 1 + 1
    BY <1>1, FS_Interval
  <2> QED BY <1>1, <2>1
<1>3. Upto(s, k) \in SUBSET (1..Len(s)) /\ k \in Upto(s, k)
  BY <1>1 DEF Upto
<1>4. IsFiniteSet(Upto(s, k)) /\ Place(s, k) <= Len(s)
  BY <1>2, <1>3, FS_Subset DEF Place
<1>5. Place(s, k) \in Nat /\ Place(s, k) # 0
  BY <1>3, <1>4, FS_CardinalityType, FS_EmptySet DEF Place
<1> QED BY <1>1, <1>4, <1>5

(* What is to come later has the later place.                              *)
LEMMA PlaceGrows ==
  ASSUME NEW s \in Seq(Int), NEW k \in DOMAIN s, NEW l \in DOMAIN s,
         s[k] < s[l] \/ (s[k] = s[l] /\ k < l)
  PROVE  Place(s, k) < Place(s, l)
<1>1. /\ DOMAIN s = 1..Len(s) /\ Len(s) \in Nat
      /\ \A n \in DOMAIN s : s[n] \in Int
  OBVIOUS
<1>2. Upto(s, k) \in SUBSET Upto(s, l) /\ l \in Upto(s, l) /\ l \notin Upto(s, k)
  BY <1>1 DEF Upto
<1>3. /\ IsFiniteSet(Upto(s, l)) /\ Place(s, k) \in Int /\ Place(s, l) \in Int
  BY <1>1, PlaceIsPosition
<1>4. Place(s, k) <= Place(s, l) /\ Place(s, k) # Place(s, l)
  BY <1>2, <1>3, FS_Subset DEF Place
<1> QED BY <1>3, <1>4

(* InOrder(s) has the elements of s, each as often, in order.              *)
LEMMA Sorted ==
  ASSUME NEW s \in Seq(Int)
  PROVE  /\ InOrder(s) \in Seq(Int) /\ Ordered(InOrder(s))
         /\ Matches(s, InOrder(s)) /\ Matches(InOrder(s), s)
<1> DEFINE D == DOMAIN s
           r == InOrder(s)
           place == [k \in D |-> Place(s, k)]
           from == [n \in D |-> CHOOSE k \in D : Place(s, k) = n]
<1>1. /\ D = 1..Len(s) /\ Len(s) \in Nat /\ \A n \in D : s[n] \in Int
  OBVIOUS
<1>2. \A k, l \in D : Place(s, k) = Place(s, l) => k = l
  <2> SUFFICES ASSUME NEW k \in D, NEW l \in D, k # l PROVE Place(s, k) # Place(s, l)
    OBVIOUS
  <2>1. Place(s, k) < Place(s, l) \/ Place(s, l) < Place(s, k)
    <3>1. \/ s[k] < s[l] \/ (s[k] = s[l] /\ k < l)
          \/ s[l] < s[k] \/ (s[l] = s[k] /\ l < k)
      BY <1>1
    <3> QED BY <3>1, PlaceGrows
  <2>2. Place(s, k) \in Int /\ Place(s, l) \in Int
    BY <1>1, PlaceIsPosition
  <2> QED BY <2>1, <2>2
<1>3. place \in [D -> D]
  BY PlaceIsPosition
<1>4. \A n \in D : \E k \in D : Place(s, k) = n
  <2>1. place \in Injection(D, D)
    BY <1>2, <1>3, Fun_IsInj
  <2>2. IsFiniteSet(D)
    BY <1>1, FS_Interval
  <2>3. place \in Surjection(D, D)
    BY <2>1, <2>2, FS_Injection
  <2>4. \A n \in D : \E k \in D : place[k] = n
    BY <2>3, Fun_SurjectionProperties
  <2> QED BY <2>4
<1>5. \A n \in D : from[n] \in D /\ Place(s, from[n]) = n
  BY <1>4
<1>6. \A k \in D : Place(s, k) \in D /\ from[Place(s, k)] = k
  BY <1>2, <1>5, PlaceIsPosition
<1>7. r = [n \in D |-> s[from[n]]]
  BY DEF InOrder
<1> HIDE DEF from, r
<1>8. r \in Seq(Int) /\ DOMAIN r = D
  BY <1>1, <1>5, <1>7
<1>9. Ordered(r)
  <2> SUFFICES ASSUME NEW i \in D, NEW j \in D, i <= j, r[j] < r[i] PROVE FALSE
    <3>1. \A n \in D : r[n] \in Int
      BY <1>1, <1>5, <1>7
    <3> QED BY <1>8, <3>1 DEF Ordered
  <2>1. s[from[j]] < s[from[i]]
    BY <1>7
  <2>2. Place(s, from[j]) < Place(s, from[i])
    BY <1>5, <2>1, PlaceGrows
  <2> QED BY <1>1, <1>5, <2>2
<1>10. Matches(s, r)
  <2>1. from \in [D -> D]
    BY <1>5 DEF from
  <2>2. \A n \in D : s[from[n]] = r[n]
    BY <1>7
  <2>3. \A n, l \in D : from[n] = from[l] => n = l
    BY <1>5
  <2>4. from \in Pairings(s, r, D, D)
    BY <2>1, <2>2, <2>3 DEF Pairings
  <2> QED BY <1>8, <2>4 DEF Matches
<1>11. Matches(r, s)
  <2>1. \A k \in D : r[place[k]] = s[k]
    BY <1>6, <1>7
  <2>2. \A k, l \in D : place[k] = place[l] => k = l
    BY <1>2
  <2> HIDE DEF place
  <2>3. place \in Pairings(r, s, D, D)
    BY <1>3, <2>1, <2>2 DEF Pairings
  <2> QED BY <1>8, <2>3 DEF Matches
<1> QED BY <1>8, <1>9, <1>10, <1>11 DEF r

-------------------------------------------------------------------------------
(* Inclusion *)

LEMMA MatchesIsTransitive ==
  ASSUME NEW a \in Seq(Int), NEW b \in Seq(Int), NEW c \in Seq(Int),
         Matches(a, b), Matches(b, c)
  PROVE  Matches(a, c)
<1>1. PICK f : f \in Pairings(a, b, DOMAIN b, DOMAIN a)
  BY DEF Matches
<1>2. PICK g : g \in Pairings(b, c, DOMAIN c, DOMAIN b)
  BY DEF Matches
<1> DEFINE h == [k \in DOMAIN c |-> f[g[k]]]
<1>3. /\ f \in [DOMAIN b -> DOMAIN a] /\ \A k \in DOMAIN b : a[f[k]] = b[k]
      /\ \A k, l \in DOMAIN b : f[k] = f[l] => k = l
  BY <1>1 DEF Pairings
<1>4. /\ g \in [DOMAIN c -> DOMAIN b] /\ \A k \in DOMAIN c : b[g[k]] = c[k]
      /\ \A k, l \in DOMAIN c : g[k] = g[l] => k = l
  BY <1>2 DEF Pairings
<1>5. h \in [DOMAIN c -> DOMAIN a] /\ \A k \in DOMAIN c : a[h[k]] = c[k]
  BY <1>3, <1>4
<1>6. \A k, l \in DOMAIN c : h[k] = h[l] => k = l
  BY <1>3, <1>4
<1> HIDE DEF h
<1>7. h \in Pairings(a, c, DOMAIN c, DOMAIN a)
  BY <1>5, <1>6 DEF Pairings
<1> QED BY <1>7 DEF Matches

LEMMA MatchedIsShorter ==
  ASSUME NEW s \in Seq(Int), NEW t \in Seq(Int), Matches(s, t)
  PROVE  Len(s) >= Len(t)
<1>1. PICK f : f \in Pairings(s, t, 1..Len(t), 1..Len(s))
  BY DEF Matches
<1>2. f \in Injection(1..Len(t), 1..Len(s))
  BY <1>1, Fun_IsInj DEF Pairings
<1>3. Len(s) \in Nat /\ Len(t) \in Nat
  OBVIOUS
<1> QED BY <1>2, <1>3, Fun_NatInjLeq DEF ExistsInjection

(* isSubset answers whether every target has an element of src to itself,  *)
(* for arrays of every length, in any order and with repetitions.          *)
THEOREM SubsetIsMatching ==
  \A src, targets \in Seq(Int) : IsSubset(src, targets) <=> Matches(src, targets)
<1> SUFFICES ASSUME NEW src \in Seq(Int), NEW targets \in Seq(Int)
             PROVE  IsSubset(src, targets) <=> Matches(src, targets)
  OBVIOUS
<1> DEFINE s == InOrder(src)
           t == InOrder(targets)
<1>1. /\ s \in Seq(Int) /\ Ordered(s) /\ Matches(src, s) /\ Matches(s, src)
      /\ t \in Seq(Int) /\ Ordered(t) /\ Matches(targets, t) /\ Matches(t, targets)
  BY Sorted
<1>2. IsSubset(src, targets) <=> Len(src) >= Len(targets) /\ Walk(s, t)
  BY DEF IsSubset
<1> HIDE DEF s, t
<1>3. Walk(s, t) <=> Matches(s, t)
  BY <1>1, WalkMatches
<1>4. ASSUME Matches(s, t) PROVE Matches(src, targets)
  <2>1. Matches(src, t)
    BY <1>1, <1>4, MatchesIsTransitive
  <2> QED BY <1>1, <2>1, MatchesIsTransitive
<1>5. ASSUME Matches(src, targets) PROVE Matches(s, t)
  <2>1. Matches(s, targets)
    BY <1>1, <1>5, MatchesIsTransitive
  <2> QED BY <1>1, <2>1, MatchesIsTransitive
<1> QED BY <1>2, <1>3, <1>4, <1>5, MatchedIsShorter

(* Where no target is named twice, as accounts in a set are, isSubset is   *)
(* the inclusion by which GroupConversation's Valid compares the named     *)
(* users with the members.                                                 *)
THEOREM SubsetOfDistinct ==
  \A src, targets \in Seq(Int) :
     (\A k, l \in DOMAIN targets : targets[k] = targets[l] => k = l) =>
        (IsSubset(src, targets) <=> Elements(targets) \subseteq Elements(src))
<1> SUFFICES ASSUME NEW src \in Seq(Int), NEW targets \in Seq(Int),
                    \A k, l \in DOMAIN targets : targets[k] = targets[l] => k = l
             PROVE  Matches(src, targets) <=> Elements(targets) \subseteq Elements(src)
  BY SubsetIsMatching
<1>1. ASSUME Matches(src, targets) PROVE Elements(targets) \subseteq Elements(src)
  <2>1. PICK f : f \in Pairings(src, targets, DOMAIN targets, DOMAIN src)
    BY <1>1 DEF Matches
  <2>2. \A k \in DOMAIN targets : f[k] \in DOMAIN src /\ src[f[k]] = targets[k]
    BY <2>1 DEF Pairings
  <2>3. \A k \in DOMAIN targets : targets[k] \in Elements(src)
    BY <2>2 DEF Elements
  <2> QED BY <2>3 DEF Elements
<1>2. ASSUME Elements(targets) \subseteq Elements(src) PROVE Matches(src, targets)
  <2> DEFINE f == [k \in DOMAIN targets |-> CHOOSE n \in DOMAIN src : src[n] = targets[k]]
  <2>1. \A k \in DOMAIN targets : \E n \in DOMAIN src : src[n] = targets[k]
    BY <1>2 DEF Elements
  <2>2. \A k \in DOMAIN targets : f[k] \in DOMAIN src /\ src[f[k]] = targets[k]
    BY <2>1
  <2>3. f \in [DOMAIN targets -> DOMAIN src]
    BY <2>2
  <2> HIDE DEF f
  <2>4. \A k, l \in DOMAIN targets : f[k] = f[l] => k = l
    BY <2>2
  <2>5. f \in Pairings(src, targets, DOMAIN targets, DOMAIN src)
    BY <2>2, <2>3, <2>4 DEF Pairings
  <2> QED BY <2>5 DEF Matches
<1> QED BY <1>1, <1>2

(* No more of one finite set than of the other: an injection.              *)
LEMMA FewerInject ==
  ASSUME NEW S, NEW T, IsFiniteSet(S), IsFiniteSet(T), Cardinality(S) <= Cardinality(T)
  PROVE  ExistsInjection(S, T)
<1> DEFINE n == Cardinality(S)
           m == Cardinality(T)
<1>1. n \in Nat /\ m \in Nat /\ ExistsBijection(1..n, S) /\ ExistsBijection(1..m, T)
  BY FS_CardinalityType
<1>2. ExistsInjection(S, 1..n)
  BY <1>1, Fun_ExistsBijEquiv
<1>3. ExistsInjection(1..m, T)
  BY <1>1, Fun_ExistsBijEquiv
<1>4. ExistsInjection(1..n, 1..m)
  BY <1>1, Fun_NatInjLeq
<1> QED BY <1>2, <1>3, <1>4, Fun_ExistsInjTransitive

(* A target that is named twice must be there twice: isSubset is the       *)
(* inclusion of bags, for arrays of every length.                          *)
THEOREM SubsetOfBags ==
  \A src, targets \in Seq(Int) :
     IsSubset(src, targets)
        <=> \A x \in Elements(targets) : Times(x, targets) <= Times(x, src)
<1> DEFINE At(x, s) == {k \in DOMAIN s : s[k] = x}
<1> SUFFICES ASSUME NEW src \in Seq(Int), NEW targets \in Seq(Int)
             PROVE  Matches(src, targets)
                      <=> \A x \in Elements(targets) :
                             Cardinality(At(x, targets)) <= Cardinality(At(x, src))
  BY SubsetIsMatching DEF Times
<1>1. \A x : IsFiniteSet(At(x, src)) /\ IsFiniteSet(At(x, targets))
  <2>1. IsFiniteSet(1..Len(src)) /\ IsFiniteSet(1..Len(targets))
    BY FS_Interval
  <2>2. \A x : At(x, src) \in SUBSET (1..Len(src)) /\ At(x, targets) \in SUBSET (1..Len(targets))
    OBVIOUS
  <2> QED BY <2>1, <2>2, FS_Subset
<1>2. ASSUME Matches(src, targets), NEW x
      PROVE  Cardinality(At(x, targets)) <= Cardinality(At(x, src))
  <2>1. PICK f : f \in Pairings(src, targets, DOMAIN targets, DOMAIN src)
    BY <1>2 DEF Matches
  <2>2. /\ f \in [DOMAIN targets -> DOMAIN src]
        /\ \A k \in DOMAIN targets : src[f[k]] = targets[k]
        /\ \A k, l \in DOMAIN targets : f[k] = f[l] => k = l
    BY <2>1 DEF Pairings
  <2> DEFINE g == [k \in At(x, targets) |-> f[k]]
  <2>3. g \in [At(x, targets) -> At(x, src)]
    BY <2>2
  <2>4. \A k, l \in At(x, targets) : g[k] = g[l] => k = l
    BY <2>2
  <2> HIDE DEF g, At
  <2>5. g \in Injection(At(x, targets), At(x, src))
    BY <2>3, <2>4, Fun_IsInj
  <2> QED BY <1>1, <2>5, FS_Injection
<1>3. ASSUME \A x \in Elements(targets) :
                Cardinality(At(x, targets)) <= Cardinality(At(x, src))
      PROVE  Matches(src, targets)
  <2> DEFINE Own(x) == CHOOSE f : f \in Injection(At(x, targets), At(x, src))
             h == [k \in DOMAIN targets |-> Own(targets[k])[k]]
  <2>1. ASSUME NEW x \in Elements(targets)
        PROVE  /\ Own(x) \in [At(x, targets) -> At(x, src)]
               /\ \A k, l \in At(x, targets) : Own(x)[k] = Own(x)[l] => k = l
    <3> HIDE DEF At
    <3>1. \E f : f \in Injection(At(x, targets), At(x, src))
      BY <1>1, <1>3, FewerInject DEF ExistsInjection
    <3>2. Own(x) \in Injection(At(x, targets), At(x, src))
      BY <3>1
    <3> HIDE DEF Own
    <3> QED BY <3>2, Fun_InjectionProperties
  <2> HIDE DEF Own
  <2>2. ASSUME NEW k \in DOMAIN targets
        PROVE  h[k] \in DOMAIN src /\ src[h[k]] = targets[k]
    <3>1. targets[k] \in Elements(targets) /\ k \in At(targets[k], targets)
      BY DEF Elements
    <3>2. h[k] \in At(targets[k], src)
      BY <2>1, <3>1
    <3> QED BY <3>2
  <2>3. ASSUME NEW k \in DOMAIN targets, NEW l \in DOMAIN targets, h[k] = h[l]
        PROVE  k = l
    <3>1. targets[k] = targets[l]
      BY <2>2, <2>3
    <3>2. /\ targets[k] \in Elements(targets)
          /\ k \in At(targets[k], targets) /\ l \in At(targets[k], targets)
      BY <3>1 DEF Elements
    <3>3. Own(targets[k])[k] = Own(targets[k])[l]
      BY <2>3, <3>1
    <3> QED BY <2>1, <3>2, <3>3
  <2>4. h \in [DOMAIN targets -> DOMAIN src]
    BY <2>2
  <2> HIDE DEF h
  <2>5. h \in Pairings(src, targets, DOMAIN targets, DOMAIN src)
    BY <2>2, <2>3, <2>4 DEF Pairings
  <2> QED BY <2>5 DEF Matches
<1> QED BY <1>2, <1>3
===============================================================================
