------------------------ MODULE ClassificationProofs ------------------------
(***************************************************************************)
(* What the pass over the rows computes, for every list of Exit IPs and    *)
(* every target.                                                           *)
(*                                                                         *)
(* The induction theorems of the library are about operators, which the    *)
(* provers cannot instantiate.  An induction here is about a set: one that *)
(* has 0, and n + 1 with every n, has every natural number, since its      *)
(* complement has no least element.                                        *)
(***************************************************************************)
EXTENDS Classification, FiniteSetTheorems, WellFoundedInduction, TLAPS

LEMMA LeastElement ==
  ASSUME NEW T \in SUBSET Nat, T # {}
  PROVE  \E m \in T : \A k \in T : m <= k
<1> DEFINE R == {pair \in Nat \X Nat : pair[1] < pair[2]}
<1>1. IsWellFoundedOn(R, Nat)
  BY NatLessThanWellFounded DEF OpToRel
<1>2. PICK m \in T : \A k \in T : ~ (<<k, m>> \in R)
  <2> HIDE DEF R
  <2> QED
    BY <1>1, WFMin
<1>3. ASSUME NEW k \in T, k < m PROVE FALSE
  <2>1. <<k, m>> \in R
    BY <1>3
  <2> QED
    BY <1>2, <2>1
<1> QED
  BY <1>3

LEMMA UpFromZero ==
  ASSUME NEW T, 0 \in T, \A n \in Nat : n \in T => n + 1 \in T
  PROVE  Nat \subseteq T
<1> DEFINE Rest == Nat \ T
<1>1. SUFFICES ASSUME Rest # {} PROVE FALSE
  OBVIOUS
<1>2. PICK m \in Rest : \A k \in Rest : m <= k
  BY <1>1, LeastElement
<1>3. m - 1 \in Nat /\ m - 1 \notin Rest
  BY <1>2
<1> QED
  BY <1>2, <1>3

-----------------------------------------------------------------------------
(* The recursion.                                                          *)

(* Its body, of a set that is passed on.                                   *)
Grown(exits, target, before, n) ==
  IF Enters(exits, target, before, n) THEN before \cup {n} ELSE before

Recursive(serving, exits, size, target) ==
  serving = [n \in 0..size |-> IF n = 0 THEN {}
                               ELSE Grown(exits, target, serving[n - 1], n)]

(* There is such a function of every size: one of size k is continued to   *)
(* k + 1.                                                                  *)
LEMMA RecursionExists ==
  ASSUME NEW exits, NEW target, NEW size \in Nat
  PROVE  \E serving : Recursive(serving, exits, size, target)
<1> DEFINE Sizes == {k \in Nat : \E serving : Recursive(serving, exits, k, target)}
<1>1. 0 \in Sizes
  <2> DEFINE s == [n \in 0..0 |-> {}]
  <2>1. Recursive(s, exits, 0, target)
    BY DEF Recursive
  <2> QED
    BY <2>1
<1>2. ASSUME NEW k \in Nat, k \in Sizes PROVE k + 1 \in Sizes
  <2>1. PICK s : Recursive(s, exits, k, target)
    BY <1>2
  <2> DEFINE t == [n \in 0..(k + 1) |-> IF n = k + 1 THEN Grown(exits, target, s[k], k + 1)
                                        ELSE s[n]]
  <2>2. ASSUME NEW n \in 0..(k + 1)
        PROVE  t[n] = IF n = 0 THEN {} ELSE Grown(exits, target, t[n - 1], n)
    <3>1. CASE n = k + 1
      BY <3>1
    <3>2. CASE n \in 0..k
      <4>1. s[n] = IF n = 0 THEN {} ELSE Grown(exits, target, s[n - 1], n)
        BY <2>1, <3>2 DEF Recursive
      <4>2. t[n] = s[n] /\ (n # 0 => t[n - 1] = s[n - 1])
        BY <3>2
      <4> HIDE DEF t
      <4> QED
        BY <4>1, <4>2
    <3> QED
      BY <3>1, <3>2
  <2>3. Recursive(t, exits, k + 1, target)
    <3>1. t = [n \in 0..(k + 1) |-> t[n]]
      OBVIOUS
    <3> HIDE DEF t
    <3> QED
      BY <2>2, <3>1 DEF Recursive
  <2> QED
    BY <2>3
<1> HIDE DEF Sizes
<1>3. size \in Sizes
  BY <1>1, <1>2, UpFromZero
<1> QED
  BY <1>3 DEF Sizes

LEMMA ServingRecursion ==
  ASSUME NEW exits, NEW target, NEW size \in Nat
  PROVE  /\ ServingUpTo(exits, size, target)[0] = {}
         /\ \A n \in 1..size : ServingUpTo(exits, size, target)[n] =
              Grown(exits, target, ServingUpTo(exits, size, target)[n - 1], n)
<1> DEFINE S == ServingUpTo(exits, size, target)
<1>1. S = CHOOSE s : Recursive(s, exits, size, target)
  BY DEF ServingUpTo, Recursive, Grown
<1>2. Recursive(S, exits, size, target)
  <2> HIDE DEF S
  <2> QED
    BY <1>1, RecursionExists
<1> HIDE DEF S
<1> DEFINE body(n) == IF n = 0 THEN {} ELSE Grown(exits, target, S[n - 1], n)
<1>3. S = [n \in 0..size |-> body(n)]
  BY <1>2 DEF Recursive
<1>4. \A n \in 0..size : S[n] = body(n)
  <2> HIDE DEF body
  <2> QED
    BY <1>3, Zenon
<1>5. S[0] = {} /\ \A n \in 1..size : S[n] = Grown(exits, target, S[n - 1], n)
  BY <1>4
<1> QED
  BY <1>5 DEF S

LEMMA GrownIsNextServing ==
  ASSUME NEW exits, NEW target, NEW size \in Nat, NEW n \in 1..size
  PROVE  LET serving == ServingUpTo(exits, size, target) IN
         \/ Enters(exits, target, serving[n - 1], n) /\ serving[n] = serving[n - 1] \cup {n}
         \/ ~Enters(exits, target, serving[n - 1], n) /\ serving[n] = serving[n - 1]
<1> DEFINE S == ServingUpTo(exits, size, target)
<1>1. S[n] = Grown(exits, target, S[n - 1], n)
  BY ServingRecursion
<1> QED
  BY <1>1 DEF Grown

(* Induction over the rows.                                                *)
LEMMA UpToSize ==
  ASSUME NEW size \in Nat, NEW T, 0 \in T, \A n \in 1..size : n - 1 \in T => n \in T
  PROVE  \A n \in 0..size : n \in T
<1> DEFINE U == {n \in Nat : n <= size => n \in T}
<1>1. 0 \in U
  OBVIOUS
<1>2. ASSUME NEW n \in Nat, n \in U PROVE n + 1 \in U
  <2>1. CASE n + 1 <= size
    <3>1. n + 1 \in 1..size /\ (n + 1) - 1 = n /\ n \in T
      BY <1>2, <2>1
    <3> QED
      BY <3>1
  <2> QED
    BY <2>1
<1> HIDE DEF U
<1>3. Nat \subseteq U
  BY <1>1, <1>2, UpFromZero
<1> QED
  BY <1>3 DEF U

-----------------------------------------------------------------------------
(* What it computes.                                                       *)

(* Of the rows up to n: who serves is among them, can serve, is diverse    *)
(* and no more than the target; who does not serve cannot, or finds its    *)
(* Exit IP taken by a row before it, or the target reached.                *)
ServesRightly(exits, target, serving, n) ==
  /\ serving \subseteq 1..n
  /\ Cardinality(serving) <= target
  /\ \A i \in serving : exits[i] # NoExit
  /\ Diverse(exits, serving)
  /\ \A i \in (1..n) \ serving :
       \/ exits[i] = NoExit
       \/ \E j \in serving : j < i /\ exits[j] = exits[i]
       \/ Cardinality(serving) = target

LEMMA FewRows ==
  ASSUME NEW n \in Nat, NEW some \in SUBSET (1..n)
  PROVE  IsFiniteSet(some) /\ Cardinality(some) \in Nat
<1>1. IsFiniteSet(1..n)
  BY FS_Interval
<1>2. IsFiniteSet(some)
  BY <1>1, FS_Subset
<1> QED
  BY <1>2, FS_CardinalityType

LEMMA RightlyStep ==
  ASSUME NEW exits, NEW target \in Nat, NEW n \in Nat \ {0}, NEW before,
         ServesRightly(exits, target, before, n - 1)
  PROVE  ServesRightly(exits, target, Grown(exits, target, before, n), n)
<1>1. /\ before \in SUBSET (1..(n - 1)) /\ n - 1 \in Nat
      /\ Cardinality(before) <= target
  BY DEF ServesRightly
<1>2. IsFiniteSet(before) /\ Cardinality(before) \in Nat
  BY <1>1, FewRows
<1>3. CASE Enters(exits, target, before, n)
  <2> DEFINE after == before \cup {n}
  <2>1. Cardinality(after) = Cardinality(before) + 1
    BY <1>1, <1>2, FS_AddElement
  <2>2. exits[n] # NoExit /\ Cardinality(before) < target /\ \A i \in before : exits[i] # exits[n]
    BY <1>3 DEF Enters
  <2>3. after \subseteq 1..n /\ Cardinality(after) <= target
    BY <1>1, <1>2, <2>1, <2>2
  <2>4. \A i \in after : exits[i] # NoExit
    BY <2>2 DEF ServesRightly
  <2>5. Diverse(exits, after)
    BY <2>2 DEF ServesRightly, Diverse
  <2>6. ASSUME NEW i \in (1..n) \ after, exits[i] # NoExit
        PROVE  \E j \in after : j < i /\ exits[j] = exits[i]
    <3>1. i \in (1..(n - 1)) \ before
      OBVIOUS
    <3> QED
      BY <2>2, <2>6, <3>1 DEF ServesRightly
  <2>7. Grown(exits, target, before, n) = after
    BY <1>3 DEF Grown
  <2> HIDE DEF after
  <2> QED
    BY <2>3, <2>4, <2>5, <2>6, <2>7 DEF ServesRightly
<1>4. CASE ~Enters(exits, target, before, n)
  <2>1. \/ exits[n] = NoExit
        \/ \E j \in before : j < n /\ exits[j] = exits[n]
        \/ Cardinality(before) = target
    BY <1>1, <1>2, <1>4 DEF Enters
  <2>2. before \subseteq 1..n
    BY <1>1
  <2>3. \A i \in (1..n) \ before : i = n \/ i \in (1..(n - 1)) \ before
    OBVIOUS
  <2>4. Grown(exits, target, before, n) = before
    BY <1>4 DEF Grown
  <2> QED
    BY <2>1, <2>2, <2>3, <2>4 DEF ServesRightly
<1> QED
  BY <1>3, <1>4

(* The pass fills the Serving Pool as it should, whatever the rows are     *)
(* (from_instances).                                                       *)
THEOREM PassServesRightly ==
  ASSUME NEW exits, NEW target \in Nat, NEW size \in Nat
  PROVE  \A n \in 0..size :
           ServesRightly(exits, target, ServingUpTo(exits, size, target)[n], n)
<1> DEFINE S == ServingUpTo(exits, size, target)
           T == {n \in 0..size : ServesRightly(exits, target, S[n], n)}
<1>1. 0 \in T
  <2>1. S[0] = {}
    BY ServingRecursion
  <2>2. Cardinality({}) = 0
    BY FS_EmptySet
  <2> HIDE DEF S
  <2> QED
    BY <2>1, <2>2 DEF ServesRightly, Diverse
<1>2. ASSUME NEW n \in 1..size, n - 1 \in T PROVE n \in T
  <2>1. S[n] = Grown(exits, target, S[n - 1], n)
    BY ServingRecursion
  <2> HIDE DEF S
  <2>2. ServesRightly(exits, target, S[n], n)
    BY <1>2, <2>1, RightlyStep
  <2> QED
    BY <2>2
<1> HIDE DEF T
<1>3. \A n \in 0..size : n \in T
  BY <1>1, <1>2, UpToSize
<1> QED
  BY <1>3 DEF T

(* No other choice of instances serves more than the first come, first     *)
(* served one of the pass: an instance that another choice has stands for  *)
(* the one that took its Exit IP, and none stands for two (from_instances).*)
THEOREM RightIsLargest ==
  ASSUME NEW exits, NEW target \in Nat, NEW n \in Nat, NEW serving,
         ServesRightly(exits, target, serving, n)
  PROVE  Largest(exits, target, serving, 1..n)
<1> SUFFICES ASSUME NEW other \in SUBSET (1..n),
                    \A i \in other : exits[i] # NoExit,
                    Diverse(exits, other),
                    Cardinality(other) <= target,
                    Cardinality(serving) < Cardinality(other)
             PROVE  FALSE
  <2>1. serving \in SUBSET (1..n)
    BY DEF ServesRightly
  <2>2. Cardinality(serving) \in Nat /\ \A other \in SUBSET (1..n) : Cardinality(other) \in Nat
    BY <2>1, FewRows
  <2> QED
    BY <2>2 DEF Largest
<1>1. /\ serving \in SUBSET (1..n)
      /\ IsFiniteSet(serving) /\ Cardinality(serving) \in Nat
      /\ IsFiniteSet(other) /\ Cardinality(other) \in Nat
  BY FewRows DEF ServesRightly
<1>2. Cardinality(serving) # target
  BY <1>1
<1>3. ASSUME NEW i \in other PROVE \E j \in serving : exits[j] = exits[i]
  BY <1>2 DEF ServesRightly
<1> DEFINE stands == [i \in other |-> CHOOSE j \in serving : exits[j] = exits[i]]
<1>4. \A i \in other : stands[i] \in serving /\ exits[stands[i]] = exits[i]
  BY <1>3
<1>5. stands \in [other -> serving]
  BY <1>4
<1> HIDE DEF stands
<1>6. PICK i, j \in other : i # j /\ stands[i] = stands[j]
  BY <1>1, <1>5, FS_PigeonHole
<1>7. exits[i] = exits[j]
  BY <1>4, <1>6
<1> QED
  BY <1>6, <1>7 DEF Diverse

(* A place is decided when the pass is at its row: the rows that follow    *)
(* never take it away or give it.                                          *)
LEMMA PlacesAreKept ==
  ASSUME NEW exits, NEW target \in Nat, NEW size \in Nat, NEW i \in 1..size
  PROVE  \A n \in i..size :
           i \in ServingUpTo(exits, size, target)[n]
             <=> i \in ServingUpTo(exits, size, target)[i]
<1> DEFINE S == ServingUpTo(exits, size, target)
           T == {n \in 0..size : n >= i => (i \in S[n] <=> i \in S[i])}
<1>1. 0 \in T
  OBVIOUS
<1>2. ASSUME NEW n \in 1..size, n - 1 \in T PROVE n \in T
  <2>1. CASE n > i
    <3>1. S[n] = S[n - 1] \/ S[n] = S[n - 1] \cup {n}
      BY GrownIsNextServing
    <3>2. i \in S[n - 1] <=> i \in S[i]
      BY <1>2, <2>1
    <3> HIDE DEF S
    <3> QED
      BY <2>1, <3>1, <3>2
  <2>2. CASE n <= i
    BY <2>2
  <2> QED
    BY <2>1, <2>2
<1> HIDE DEF T
<1>3. \A n \in 0..size : n \in T
  BY <1>1, <1>2, UpToSize
<1> QED
  BY <1>3 DEF T

(* Who serves of the first rows depends on the Exit IPs of those only.     *)
LEMMA FirstRowsDecide ==
  ASSUME NEW exits, NEW others, NEW target \in Nat, NEW size \in Nat, NEW k \in 0..size,
         \A i \in 1..k : exits[i] = others[i]
  PROVE  ServingUpTo(exits, size, target)[k] = ServingUpTo(others, size, target)[k]
<1> DEFINE S == ServingUpTo(exits, size, target)
           O == ServingUpTo(others, size, target)
           T == {n \in 0..size : n <= k => S[n] = O[n]}
<1>1. 0 \in T
  <2>1. S[0] = {} /\ O[0] = {}
    BY ServingRecursion
  <2> QED
    BY <2>1
<1>2. ASSUME NEW n \in 1..size, n - 1 \in T PROVE n \in T
  <2> SUFFICES ASSUME n <= k PROVE S[n] = O[n]
    OBVIOUS
  <2>1. S[n - 1] = O[n - 1]
    BY <1>2
  <2>2. /\ S[n] = Grown(exits, target, S[n - 1], n)
        /\ O[n] = Grown(others, target, O[n - 1], n)
    BY ServingRecursion
  <2>3. S[n - 1] \subseteq 1..(n - 1)
    <3>1. n - 1 \in 0..size
      OBVIOUS
    <3>2. ServesRightly(exits, target, S[n - 1], n - 1)
      BY <3>1, PassServesRightly
    <3> QED
      BY <3>2 DEF ServesRightly
  <2> HIDE DEF S, O
  <2>4. Enters(exits, target, S[n - 1], n) <=> Enters(others, target, S[n - 1], n)
    BY <2>3 DEF Enters
  <2> QED
    BY <2>1, <2>2, <2>4 DEF Grown
<1> HIDE DEF T
<1>3. k \in T
  BY <1>1, <1>2, UpToSize
<1> QED
  BY <1>3 DEF T

-----------------------------------------------------------------------------
(* What becomes of the pass when instance i cannot serve any more.  Those  *)
(* who served go on serving, and at most one, m, takes the free place: the *)
(* first with the Exit IP of i, or the first that the target kept out.     *)
TakesPlaceOf(i, m, exits, target, s, o) ==
  /\ i \in s /\ m \notin s
  /\ o = (s \ {i}) \cup {m}
  /\ exits[m] = exits[i] \/ Cardinality(s) = target

WithoutOne(i, exits, target, s, o) ==
  o = s \ {i} \/ \E m \in o : TakesPlaceOf(i, m, exits, target, s, o)

LEMMA WithoutOneStep ==
  ASSUME NEW exits, NEW others, NEW target \in Nat, NEW n \in Nat \ {0}, NEW i \in Nat \ {0},
         n # i => others[n] = exits[n],
         \A k \in 1..(n - 1) : k # i => others[k] = exits[k],
         others[i] = NoExit,
         NEW s \in SUBSET (1..(n - 1)), NEW o \in SUBSET ((1..(n - 1)) \ {i}),
         Cardinality(s) <= target,
         WithoutOne(i, exits, target, s, o)
  PROVE  WithoutOne(i, exits, target, Grown(exits, target, s, n), Grown(others, target, o, n))
<1>1. /\ IsFiniteSet(s) /\ IsFiniteSet(o)
      /\ Cardinality(s) \in Nat /\ Cardinality(o) \in Nat
      /\ n \notin s /\ n \notin o
  <2>1. n - 1 \in Nat /\ o \in SUBSET (1..(n - 1))
    OBVIOUS
  <2>2. /\ IsFiniteSet(s) /\ IsFiniteSet(o)
        /\ Cardinality(s) \in Nat /\ Cardinality(o) \in Nat
    <3>1. n - 1 \in Nat
      BY <2>1
    <3>2. o \in SUBSET (1..(n - 1))
      BY <2>1
    <3>3. IsFiniteSet(s) /\ Cardinality(s) \in Nat
      BY <3>1, FewRows
    <3> QED
      BY <3>1, <3>2, <3>3, FewRows
  <2>3. n \notin s /\ n \notin o
    OBVIOUS
  <2> QED
    BY <2>2, <2>3
<1>2. IsFiniteSet(s \ {i}) /\ Cardinality(s \ {i}) = IF i \in s THEN Cardinality(s) - 1
                                                     ELSE Cardinality(s)
  BY <1>1, FS_RemoveElement
<1>3. CASE n = i
  <2>1. i \notin s /\ o = s
    BY <1>1, <1>3 DEF WithoutOne, TakesPlaceOf
  <2>2. Grown(others, target, o, n) = o
    BY <1>3 DEF Grown, Enters
  <2> QED
    BY <1>3, <2>1, <2>2 DEF Grown, WithoutOne
<1>4. CASE n # i /\ o = s \ {i}
  <2>1. others[n] = exits[n] /\ \A k \in o : others[k] = exits[k]
    BY <1>4
  <2>2. Enters(others, target, o, n) <=>
          exits[n] # NoExit /\ Cardinality(o) < target /\ \A k \in o : exits[k] # exits[n]
    BY <2>1 DEF Enters
  <2>3. CASE Enters(exits, target, s, n)
    <3>1. Enters(others, target, o, n)
      BY <1>1, <1>2, <1>4, <2>2, <2>3 DEF Enters
    <3> QED
      BY <1>4, <2>3, <3>1 DEF Grown, WithoutOne
  <2>4. CASE ~Enters(exits, target, s, n) /\ ~Enters(others, target, o, n)
    BY <1>4, <2>4 DEF Grown, WithoutOne
  <2>5. CASE ~Enters(exits, target, s, n) /\ Enters(others, target, o, n)
    <3>1. Cardinality(s) = target \/ \E k \in s : exits[k] = exits[n]
      BY <1>1, <2>2, <2>5 DEF Enters
    <3>2. i \in s /\ (exits[n] = exits[i] \/ Cardinality(s) = target)
      BY <1>1, <1>2, <1>4, <2>2, <2>5, <3>1
    <3>3. TakesPlaceOf(i, n, exits, target, s, o \cup {n})
      BY <1>1, <1>4, <3>2 DEF TakesPlaceOf
    <3> QED
      BY <2>5, <3>3 DEF Grown, WithoutOne
  <2> QED
    BY <2>3, <2>4, <2>5
<1>5. ASSUME n # i, NEW m \in o, TakesPlaceOf(i, m, exits, target, s, o)
      PROVE  WithoutOne(i, exits, target, Grown(exits, target, s, n),
                        Grown(others, target, o, n))
  <2>1. Cardinality(o) = Cardinality(s)
    <3>1. Cardinality(o) = Cardinality(s \ {i}) + 1
      BY <1>2, <1>5, FS_AddElement DEF TakesPlaceOf
    <3> QED
      BY <1>1, <1>2, <1>5, <3>1 DEF TakesPlaceOf
  <2>2. others[n] = exits[n] /\ \A k \in o : others[k] = exits[k]
    BY <1>5
  <2>3. CASE exits[m] = exits[i]
    <3>1. (\A k \in o : exits[k] # exits[n]) <=> (\A k \in s : exits[k] # exits[n])
      BY <1>5, <2>3 DEF TakesPlaceOf
    <3>2. Enters(others, target, o, n) <=> Enters(exits, target, s, n)
      BY <2>1, <2>2, <3>1 DEF Enters
    <3>3. CASE Enters(exits, target, s, n)
      <4>1. TakesPlaceOf(i, m, exits, target, s \cup {n}, o \cup {n})
        BY <1>1, <1>5, <2>3 DEF TakesPlaceOf
      <4> QED
        BY <3>2, <3>3, <4>1 DEF Grown, WithoutOne
    <3>4. CASE ~Enters(exits, target, s, n)
      BY <1>5, <3>2, <3>4 DEF Grown, WithoutOne
    <3> QED
      BY <3>3, <3>4
  <2>4. CASE Cardinality(s) = target
    <3>1. ~Enters(others, target, o, n) /\ ~Enters(exits, target, s, n)
      BY <2>1, <2>4 DEF Enters
    <3> QED
      BY <1>5, <3>1 DEF Grown, WithoutOne
  <2> QED
    BY <1>5, <2>3, <2>4 DEF TakesPlaceOf
<1> QED
  BY <1>3, <1>4, <1>5 DEF WithoutOne

LEMMA OthersGoOnServing ==
  ASSUME NEW exits, NEW others, NEW target \in Nat, NEW size \in Nat, NEW i \in 1..size,
         \A k \in 1..size : k # i => others[k] = exits[k],
         others[i] = NoExit
  PROVE  ServingUpTo(exits, size, target)[size] \ {i}
           \subseteq ServingUpTo(others, size, target)[size]
<1> DEFINE S == ServingUpTo(exits, size, target)
           O == ServingUpTo(others, size, target)
           T == {n \in 0..size : WithoutOne(i, exits, target, S[n], O[n])}
<1>1. 0 \in T
  <2>1. S[0] = {} /\ O[0] = {}
    BY ServingRecursion
  <2> HIDE DEF S, O
  <2> QED
    BY <2>1 DEF WithoutOne
<1>2. ASSUME NEW n \in 1..size, n - 1 \in T PROVE n \in T
  <2>1. /\ S[n] = Grown(exits, target, S[n - 1], n)
        /\ O[n] = Grown(others, target, O[n - 1], n)
    BY ServingRecursion
  <2>2. n - 1 \in 0..size
    OBVIOUS
  <2>3. /\ ServesRightly(exits, target, S[n - 1], n - 1)
        /\ ServesRightly(others, target, O[n - 1], n - 1)
    BY <2>2, PassServesRightly
  <2> HIDE DEF S, O
  <2>4. /\ S[n - 1] \in SUBSET (1..(n - 1)) /\ Cardinality(S[n - 1]) <= target
        /\ O[n - 1] \in SUBSET ((1..(n - 1)) \ {i})
    BY <2>3 DEF ServesRightly
  <2>5. WithoutOne(i, exits, target, S[n - 1], O[n - 1])
    BY <1>2
  <2>6. /\ n \in Nat \ {0} /\ i \in Nat \ {0}
        /\ n # i => others[n] = exits[n]
        /\ \A k \in 1..(n - 1) : k # i => others[k] = exits[k]
    OBVIOUS
  <2> HIDE DEF T
  <2>7. WithoutOne(i, exits, target, Grown(exits, target, S[n - 1], n),
                   Grown(others, target, O[n - 1], n))
    BY <2>4, <2>5, <2>6, WithoutOneStep
  <2> QED
    BY <2>1, <2>7 DEF T
<1> HIDE DEF T
<1>3. size \in T
  BY <1>1, <1>2, UpToSize
<1>4. WithoutOne(i, exits, target, S[size], O[size])
  BY <1>3 DEF T
<1> QED
  BY <1>4 DEF WithoutOne, TakesPlaceOf

=============================================================================
