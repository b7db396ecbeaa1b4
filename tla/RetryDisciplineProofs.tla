----------------------- MODULE RetryDisciplineProofs -----------------------
(***************************************************************************)
(* Proofs about RetryDiscipline, for any kinds, limits, tasks and delays,  *)
(* and without the bound on the attempts.                                  *)
(*                                                                         *)
(* The permits: the induction needs what the comparison of an exchange     *)
(* relies on: a task that is about to exchange read a value below the      *)
(* limit, so an exchange that succeeds adds one to a counter below the     *)
(* limit.  The answers: whatever was answered of a kind last is at most    *)
(* what it would be answered next, and next_retry answered just that.      *)
(***************************************************************************)
EXTENDS RetryDiscipline, FiniteSetTheorems, TLAPS

PermitsOK ==
  /\ current \in [Kinds -> Nat]
  /\ pc \in [Tasks -> {"idle", "exchange", "holding"}]
  /\ wants \in [Tasks -> Kinds]
  /\ seen \in [Tasks -> Nat]

ExchangesBelowLimit ==
  \A t \in Tasks : pc[t] = "exchange" => seen[t] < Limit[wants[t]]

PermitsInv == PermitsOK /\ ExchangesBelowLimit /\ PermitsCounted

-----------------------------------------------------------------------------
(* Facts about permits.                                                    *)

LEMMA PermitsAreFinite ==
  \A k : IsFiniteSet(PermitsOf(k)) /\ Cardinality(PermitsOf(k)) \in Nat
<1> TAKE k
<1>1. PermitsOf(k) \subseteq Tasks
  BY DEF PermitsOf
<1> QED
  BY <1>1, DisciplineAssumption, FS_Subset, FS_CardinalityType

LEMMA LimitsAreNat == \A k \in Kinds : Limit[k] \in Nat
  BY DisciplineAssumption

(* What a turn of the loop does: it never grants, and it goes on only with *)
(* a value below the limit.                                                *)
LEMMA TurnGrantsNothing ==
  ASSUME PermitsInv, NEW t \in Tasks, NEW k \in Kinds, TurnWith(t, k),
         pc[t] # "holding", UNCHANGED current,
         wants' = [wants EXCEPT ![t] = k]
  PROVE  PermitsInv'
<1>1. /\ current \in [Kinds -> Nat] /\ wants \in [Tasks -> Kinds]
      /\ pc \in [Tasks -> {"idle", "exchange", "holding"}]
      /\ seen \in [Tasks -> Nat]
  BY DEF PermitsInv, PermitsOK
<1>2. PermitsOK'
  BY <1>1 DEF PermitsOK, TurnWith
<1>3. ExchangesBelowLimit'
  <2> SUFFICES ASSUME NEW u \in Tasks, pc'[u] = "exchange"
               PROVE  seen'[u] < Limit[wants'[u]]
    BY DEF ExchangesBelowLimit
  <2>1. CASE u # t
    BY <1>1, <2>1 DEF PermitsInv, ExchangesBelowLimit, TurnWith
  <2>2. CASE u = t
    <3>1. current[k] < Limit[k] /\ seen'[t] = current[k] /\ wants'[t] = k
      BY <1>1, <2>2, LimitsAreNat DEF TurnWith
    <3> QED
      BY <2>2, <3>1
  <2> QED
    BY <2>1, <2>2
<1>4. \A j \in Kinds : PermitsOf(j)' = PermitsOf(j)
  BY <1>1 DEF PermitsOf, TurnWith
<1>5. PermitsCounted'
  BY <1>4 DEF PermitsInv, PermitsCounted
<1> QED
  BY <1>2, <1>3, <1>5 DEF PermitsInv

(* An exchange that succeeds is one more permit of its kind.               *)
LEMMA ExchangeGrants ==
  ASSUME PermitsInv, NEW t \in Tasks, pc[t] = "exchange", Acquired(t),
         current[wants[t]] = seen[t], UNCHANGED wants
  PROVE  PermitsInv'
<1> DEFINE k == wants[t]
<1>1. /\ current \in [Kinds -> Nat] /\ wants \in [Tasks -> Kinds] /\ k \in Kinds
      /\ pc \in [Tasks -> {"idle", "exchange", "holding"}]
      /\ seen \in [Tasks -> Nat]
  BY DEF PermitsInv, PermitsOK
<1>2. PermitsOK' /\ ExchangesBelowLimit'
  BY <1>1 DEF PermitsInv, PermitsOK, ExchangesBelowLimit, Acquired
<1>3. current[k] < Limit[k]
  BY DEF PermitsInv, ExchangesBelowLimit
<1>4. ASSUME NEW j \in Kinds
      PROVE  current'[j] = Cardinality(PermitsOf(j)') /\ current'[j] <= Limit[j]
  <2>1. current[j] = Cardinality(PermitsOf(j)) /\ current[j] <= Limit[j]
    BY DEF PermitsInv, PermitsCounted
  <2>2. CASE j = k
    <3>1. PermitsOf(j)' = PermitsOf(j) \cup {t} /\ t \notin PermitsOf(j)
      BY <1>1, <2>2 DEF Acquired, PermitsOf
    <3>2. Cardinality(PermitsOf(j)') = Cardinality(PermitsOf(j)) + 1
      BY <3>1, PermitsAreFinite, FS_AddElement
    <3>3. current'[j] = current[j] + 1
      BY <1>1, <2>2 DEF Acquired
    <3>4. current[j] \in Nat /\ Limit[j] \in Nat
      BY <1>1, LimitsAreNat
    <3> QED
      BY <1>3, <2>1, <2>2, <3>2, <3>3, <3>4
  <2>3. CASE j # k
    <3>1. PermitsOf(j)' = PermitsOf(j) /\ current'[j] = current[j]
      BY <1>1, <2>3 DEF Acquired, PermitsOf
    <3> QED
      BY <2>1, <3>1
  <2> QED
    BY <2>2, <2>3
<1> QED
  BY <1>2, <1>4 DEF PermitsInv, PermitsCounted

LEMMA ExchangeStep ==
  ASSUME PermitsInv, NEW t \in Tasks, Exchange(t)
  PROVE  PermitsInv'
<1>1. wants \in [Tasks -> Kinds] /\ wants[t] \in Kinds /\ pc[t] = "exchange"
  BY DEF PermitsInv, PermitsOK, Exchange
<1>2. CASE current[wants[t]] = seen[t]
  BY <1>1, <1>2, ExchangeGrants DEF Exchange
<1>3. CASE current[wants[t]] # seen[t]
  <2>1. wants' = [wants EXCEPT ![t] = wants[t]]
    BY <1>1 DEF Exchange
  <2> QED
    BY <1>1, <1>3, <2>1, TurnGrantsNothing DEF Exchange
<1> QED
  BY <1>2, <1>3

(* A permit that is dropped is one less: the subtraction never wraps.      *)
LEMMA DropStep ==
  ASSUME PermitsInv, NEW t \in Tasks, DropPermit(t)
  PROVE  PermitsInv'
<1> DEFINE k == wants[t]
<1>1. /\ current \in [Kinds -> Nat] /\ wants \in [Tasks -> Kinds] /\ k \in Kinds
      /\ pc \in [Tasks -> {"idle", "exchange", "holding"}]
      /\ seen \in [Tasks -> Nat]
  BY DEF PermitsInv, PermitsOK
<1>2. \A j \in Kinds : current[j] = Cardinality(PermitsOf(j)) /\ current[j] <= Limit[j]
  BY DEF PermitsInv, PermitsCounted
<1>3. t \in PermitsOf(k)
  BY <1>1 DEF DropPermit, PermitsOf
<1>4. current[k] > 0
  BY <1>1, <1>2, <1>3, PermitsAreFinite, FS_EmptySet
<1>5. PermitsOK' /\ ExchangesBelowLimit'
  BY <1>1, <1>4 DEF PermitsInv, PermitsOK, ExchangesBelowLimit, DropPermit
<1>6. ASSUME NEW j \in Kinds
      PROVE  current'[j] = Cardinality(PermitsOf(j)') /\ current'[j] <= Limit[j]
  <2>1. CASE j = k
    <3>1. PermitsOf(j)' = PermitsOf(j) \ {t} /\ t \in PermitsOf(j)
      BY <1>1, <2>1 DEF DropPermit, PermitsOf
    <3>2. Cardinality(PermitsOf(j)') = Cardinality(PermitsOf(j)) - 1
      BY <3>1, PermitsAreFinite, FS_RemoveElement
    <3>3. current'[j] = current[j] - 1
      BY <1>1, <2>1 DEF DropPermit
    <3>4. current[j] \in Nat /\ Limit[j] \in Nat
      BY <1>1, LimitsAreNat
    <3> QED
      BY <1>2, <3>2, <3>3, <3>4
  <2>2. CASE j # k
    <3>1. PermitsOf(j)' = PermitsOf(j) /\ current'[j] = current[j]
      BY <1>1, <2>2 DEF DropPermit, PermitsOf
    <3> QED
      BY <1>2, <3>1
  <2> QED
    BY <2>1, <2>2
<1> QED
  BY <1>5, <1>6 DEF PermitsInv, PermitsCounted

-----------------------------------------------------------------------------

LEMMA PermitsStep == PermitsInv /\ [Next]_vars => PermitsInv'
<1> SUFFICES ASSUME PermitsInv, [Next]_vars PROVE PermitsInv'
  OBVIOUS
<1>1. CASE UNCHANGED permitVars
  BY <1>1 DEF permitVars, PermitsInv, PermitsOK, ExchangesBelowLimit, PermitsCounted, PermitsOf
<1>2. CASE \E t \in Tasks, k \in Kinds : TryAcquire(t, k)
  BY <1>2, TurnGrantsNothing DEF TryAcquire
<1>3. CASE \E t \in Tasks : Exchange(t)
  BY <1>3, ExchangeStep
<1>4. CASE \E t \in Tasks : DropPermit(t)
  BY <1>4, DropStep
<1> QED
  BY <1>1, <1>2, <1>3, <1>4 DEF Next, vars, RecordFailure, RecordSuccess, NextRetry

LEMMA PermitsInit == Init => PermitsInv
<1> SUFFICES ASSUME Init PROVE PermitsInv
  OBVIOUS
<1>1. PermitsOK /\ ExchangesBelowLimit
  BY DEF Init, PermitsOK, ExchangesBelowLimit
<1>2. ASSUME NEW k \in Kinds
      PROVE  current[k] = Cardinality(PermitsOf(k)) /\ current[k] <= Limit[k]
  <2>1. PermitsOf(k) = {} /\ current[k] = 0
    BY DEF Init, PermitsOf
  <2> QED
    BY <2>1, FS_EmptySet, LimitsAreNat
<1> QED
  BY <1>1, <1>2 DEF PermitsInv, PermitsCounted

LEMMA PermitsInvariant == Spec => []PermitsInv
  BY PermitsInit, PermitsStep, PTL DEF Spec

(* The counter of a limit is the number of permits in flight and never     *)
(* above the limit (ConcurrencyLimit::acquire, ConcurrencyPermit::drop),   *)
(* for any number of tasks and any limits.                                 *)
THEOREM PermitsAreCounted == Spec => []PermitsCounted
<1>1. PermitsInv => PermitsCounted
  BY DEF PermitsInv
<1> QED
  BY <1>1, PermitsInvariant, PTL

(* try_acquire answers LimitReached only while the permits in flight fill  *)
(* the limit, also when it lost the exchange to other tasks before.        *)
THEOREM RefusalsMeanFull == Spec => RefusedOnlyWhenFull
<1>1. ASSUME PermitsInv, NEW t \in Tasks, NEW k \in Kinds,
             TryAcquire(t, k) \/ (Exchange(t) /\ wants[t] = k),
             pc'[t] = "idle"
      PROVE  Cardinality(PermitsOf(k)) = Limit[k]
  <2>1. pc \in [Tasks -> {"idle", "exchange", "holding"}]
    BY <1>1 DEF PermitsInv, PermitsOK
  <2>2. TurnWith(t, k)
    BY <1>1, <2>1 DEF TryAcquire, Exchange, Acquired
  <2>3. current[k] >= Limit[k]
    BY <1>1, <2>1, <2>2 DEF TurnWith
  <2>4. current[k] = Cardinality(PermitsOf(k)) /\ current[k] <= Limit[k]
    BY <1>1 DEF PermitsInv, PermitsCounted
  <2>5. current[k] \in Nat /\ Limit[k] \in Nat
    BY <1>1, LimitsAreNat DEF PermitsInv, PermitsOK
  <2> QED
    BY <2>3, <2>4, <2>5
<1>2. PermitsInv /\ [Next]_vars =>
        [\A t \in Tasks, k \in Kinds :
           /\ TryAcquire(t, k) \/ (Exchange(t) /\ wants[t] = k)
           /\ pc'[t] = "idle"
           => Cardinality(PermitsOf(k)) = Limit[k]]_vars
  BY <1>1
<1> QED
  BY <1>2, PermitsInvariant, PTL DEF Spec, RefusedOnlyWhenFull

-----------------------------------------------------------------------------
(* Losing the exchange runs out.                                           *)

Measure(count, value) == 2 * count + (IF value = count THEN 0 ELSE 1)

LEMMA FreshValueIsLess ==
  ASSUME NEW count \in Nat, NEW value \in Nat, value # count
  PROVE  Measure(count, count) < Measure(count, value)
  BY DEF Measure

LEMMA FewerIsLess ==
  ASSUME NEW count \in Nat, count > 0, NEW value \in Nat
  PROVE  Measure(count - 1, value) < Measure(count, value)
  BY DEF Measure

LEMMA LessIsNotMore ==
  ASSUME NEW count \in Nat, NEW value \in Nat,
         NEW countAfter \in Nat, NEW valueAfter \in Nat,
         Measure(countAfter, valueAfter) < Measure(count, value)
  PROVE  Measure(countAfter, valueAfter) <= Measure(count, value)
  BY DEF Measure

LEMMA SameIsNotMore ==
  ASSUME NEW count \in Nat, NEW value \in Nat
  PROVE  Measure(count, value) <= Measure(count, value)
  BY DEF Measure

(* What a task in the loop has ahead of it: a value read anew, a counter   *)
(* that fell, or what it had.                                              *)
LEMMA LosingStep ==
  ASSUME PermitsInv, [Next]_vars, NEW t \in Tasks,
         pc[t] = "exchange", pc'[t] = "exchange",
         ~\E u \in Tasks : Exchange(u) /\ pc'[u] = "holding" /\ wants[u] = wants[t]
  PROVE  LET k == wants[t] IN
         /\ wants'[t] = k
         /\ \/ /\ current'[k] = current[k] /\ seen'[t] = current[k] /\ seen[t] # current[k]
            \/ /\ current'[k] = current[k] /\ seen'[t] = seen[t] /\ ~Exchange(t)
            \/ /\ current[k] > 0 /\ current'[k] = current[k] - 1 /\ seen'[t] = seen[t]
               /\ ~Exchange(t)
<1> DEFINE k == wants[t]
<1>1. /\ current \in [Kinds -> Nat] /\ wants \in [Tasks -> Kinds] /\ k \in Kinds
      /\ pc \in [Tasks -> {"idle", "exchange", "holding"}]
      /\ seen \in [Tasks -> Nat]
  BY DEF PermitsInv, PermitsOK
<1>2. ASSUME Exchange(t)
      PROVE  /\ wants'[t] = k /\ current'[k] = current[k]
             /\ seen'[t] = current[k] /\ seen[t] # current[k]
  <2>1. current[k] # seen[t]
    BY <1>1, <1>2 DEF Exchange, Acquired
  <2>2. TurnWith(t, k) /\ UNCHANGED current /\ UNCHANGED wants
    BY <1>2, <2>1 DEF Exchange
  <2> QED
    BY <1>1, <2>1, <2>2 DEF TurnWith
<1>3. ASSUME NEW u \in Tasks, u # t, Exchange(u)
      PROVE  wants'[t] = k /\ current'[k] = current[k] /\ seen'[t] = seen[t]
  <2>1. CASE current[wants[u]] = seen[u]
    <3>1. Acquired(u) /\ UNCHANGED wants
      BY <1>3, <2>1 DEF Exchange
    <3>2. pc'[u] = "holding"
      BY <1>1, <3>1 DEF Acquired
    <3>3. wants[u] # k
      BY <1>3, <3>2
    <3> QED
      BY <1>1, <3>1, <3>3 DEF Acquired
  <2>2. CASE current[wants[u]] # seen[u]
    <3>1. TurnWith(u, wants[u]) /\ UNCHANGED current /\ UNCHANGED wants
      BY <1>3, <2>2 DEF Exchange
    <3> QED
      BY <1>1, <1>3, <3>1 DEF TurnWith
  <2> QED
    BY <2>1, <2>2
<1>4. ASSUME NEW u \in Tasks, NEW j \in Kinds, TryAcquire(u, j)
      PROVE  /\ wants'[t] = k /\ current'[k] = current[k] /\ seen'[t] = seen[t]
  <2>1. u # t
    BY <1>4 DEF TryAcquire
  <2>2. /\ wants' = [wants EXCEPT ![u] = j] /\ TurnWith(u, j) /\ UNCHANGED current
    BY <1>4 DEF TryAcquire
  <2> QED
    BY <1>1, <2>1, <2>2 DEF TurnWith
<1>5. ASSUME NEW u \in Tasks, DropPermit(u)
      PROVE  /\ wants'[t] = k /\ seen'[t] = seen[t]
             /\ \/ current'[k] = current[k]
                \/ current[k] > 0 /\ current'[k] = current[k] - 1
  <2>1. /\ pc[u] = "holding" /\ current' = [current EXCEPT ![wants[u]] = @ - 1]
        /\ UNCHANGED <<wants, seen>>
    BY <1>5 DEF DropPermit
  <2>2. CASE wants[u] # k
    BY <1>1, <2>1, <2>2
  <2>3. CASE wants[u] = k
    <3>1. u \in PermitsOf(k) /\ current[k] = Cardinality(PermitsOf(k))
      BY <1>1, <2>1, <2>3 DEF PermitsInv, PermitsCounted, PermitsOf
    <3>2. current[k] > 0
      BY <1>1, <3>1, PermitsAreFinite, FS_EmptySet
    <3> QED
      BY <1>1, <2>1, <2>3, <3>2
  <2> QED
    BY <2>2, <2>3
<1>6. CASE UNCHANGED permitVars
  <2>1. wants'[t] = k /\ current'[k] = current[k] /\ seen'[t] = seen[t]
    BY <1>6 DEF permitVars
  <2> QED
    BY <1>2, <2>1
<1>7. CASE Exchange(t)
  BY <1>2, <1>7
<1>8. CASE ~Exchange(t) /\ ~UNCHANGED permitVars
  <2>1. \/ \E u \in Tasks : u # t /\ Exchange(u)
        \/ \E u \in Tasks, j \in Kinds : TryAcquire(u, j)
        \/ \E u \in Tasks : DropPermit(u)
    BY <1>8 DEF Next, vars, permitVars, RecordFailure, RecordSuccess, NextRetry
  <2> QED
    BY <1>3, <1>4, <1>5, <1>8, <2>1
<1> QED
  BY <1>6, <1>7, <1>8

(* A task loses the exchange of acquire only while others take permits of  *)
(* the same kind: otherwise every loss uses up one of finitely many, for   *)
(* any number of tasks and any limits.  This is the step of the argument   *)
(* for LostOnlyToWinners; that a number cannot fall for ever is the rest.  *)
THEOREM LossesRunOut == Spec => LosingRunsOut
<1>1. ASSUME PermitsInv, [Next]_vars, NEW t \in Tasks,
             pc[t] = "exchange", pc'[t] = "exchange",
             ~\E u \in Tasks : Exchange(u) /\ pc'[u] = "holding" /\ wants[u] = wants[t]
      PROVE  /\ LossesLeft(t)' <= LossesLeft(t)
             /\ Exchange(t) => LossesLeft(t)' < LossesLeft(t)
  <2> DEFINE k == wants[t]
  <2>1. PermitsInv'
    BY <1>1, PermitsStep
  <2>2. /\ k \in Kinds /\ current[k] \in Nat /\ seen[t] \in Nat
        /\ current'[k] \in Nat /\ seen'[t] \in Nat
    BY <1>1, <2>1 DEF PermitsInv, PermitsOK
  <2>3. /\ wants'[t] = k
        /\ \/ /\ current'[k] = current[k] /\ seen'[t] = current[k] /\ seen[t] # current[k]
           \/ /\ current'[k] = current[k] /\ seen'[t] = seen[t] /\ ~Exchange(t)
           \/ /\ current[k] > 0 /\ current'[k] = current[k] - 1 /\ seen'[t] = seen[t]
              /\ ~Exchange(t)
    BY <1>1, LosingStep
  <2>4. /\ LossesLeft(t) = Measure(current[k], seen[t])
        /\ LossesLeft(t)' = Measure(current'[k], seen'[t])
    BY <2>3 DEF LossesLeft, Measure
  <2>5. \/ Measure(current'[k], seen'[t]) < Measure(current[k], seen[t])
        \/ current'[k] = current[k] /\ seen'[t] = seen[t] /\ ~Exchange(t)
    BY <2>2, <2>3, FreshValueIsLess, FewerIsLess
  <2>6. CASE Measure(current'[k], seen'[t]) < Measure(current[k], seen[t])
    BY <2>2, <2>4, <2>6, LessIsNotMore
  <2>7. CASE current'[k] = current[k] /\ seen'[t] = seen[t] /\ ~Exchange(t)
    BY <2>2, <2>4, <2>7, SameIsNotMore
  <2> QED
    BY <2>5, <2>6, <2>7
<1>2. PermitsInv /\ [Next]_vars =>
        [\A t \in Tasks :
           /\ pc[t] = "exchange" /\ pc'[t] = "exchange"
           /\ ~\E u \in Tasks : Exchange(u) /\ pc'[u] = "holding" /\ wants[u] = wants[t]
           => /\ LossesLeft(t)' <= LossesLeft(t)
              /\ Exchange(t) => LossesLeft(t)' < LossesLeft(t)]_vars
  BY <1>1
<1> QED
  BY <1>2, PermitsInvariant, PTL DEF Spec, LosingRunsOut

-----------------------------------------------------------------------------
(* The delays.  Powers of two are counted: 2^n is the number of subsets of *)
(* 1..n, so they are numbers and grow with n because those sets do.        *)

LEMMA PowerCounts ==
  ASSUME NEW n \in Nat
  PROVE  /\ IsFiniteSet(SUBSET (1..n)) /\ Cardinality(SUBSET (1..n)) = 2 ^ n
         /\ 2 ^ n \in Nat
<1>1. IsFiniteSet(1..n) /\ Cardinality(1..n) = n
  BY FS_Interval
<1>2. IsFiniteSet(SUBSET (1..n)) /\ Cardinality(SUBSET (1..n)) = 2 ^ Cardinality(1..n)
  BY <1>1, FS_SUBSET
<1>3. Cardinality(SUBSET (1..n)) \in Nat
  BY <1>2, FS_CardinalityType
<1> QED
  BY <1>1, <1>2, <1>3

LEMMA PowerGrows ==
  ASSUME NEW m \in Nat, NEW n \in Nat, m < n
  PROVE  2 ^ m + 1 <= 2 ^ n
<1> DEFINE small == SUBSET (1..m)
           large == SUBSET (1..n)
<1>1. small \subseteq large
  <2>1. 1..m \subseteq 1..n
    OBVIOUS
  <2> QED
    BY <2>1
<1>2. small # large
  <2>1. 1..n \in large /\ n \in 1..n /\ n \notin 1..m
    OBVIOUS
  <2>2. 1..n \notin small
    BY <2>1
  <2> QED
    BY <2>1, <2>2
<1>3. /\ IsFiniteSet(large) /\ Cardinality(large) = 2 ^ n
      /\ Cardinality(small) = 2 ^ m /\ 2 ^ m \in Nat /\ 2 ^ n \in Nat
  BY PowerCounts
<1>4. Cardinality(small) <= Cardinality(large) /\ Cardinality(small) # Cardinality(large)
  <2> HIDE DEF small, large
  <2> QED
    BY <1>1, <1>2, <1>3, FS_Subset
<1> DEFINE a == 2 ^ m
           b == 2 ^ n
<1>5. a \in Nat /\ b \in Nat /\ a <= b /\ a # b
  BY <1>3, <1>4
<1> HIDE DEF a, b
<1>6. a + 1 <= b
  BY <1>5
<1> QED
  BY <1>6 DEF a, b

LEMMA MultiplierGrows ==
  ASSUME NEW m \in Nat, NEW n \in Nat, m <= n
  PROVE  Multiplier(m) \in Nat /\ Multiplier(n) \in Nat /\ Multiplier(m) <= Multiplier(n)
<1> DEFINE top == 2 ^ MultiplierBits
           a == 2 ^ m
           b == 2 ^ n
<1>1. MultiplierBits \in Nat /\ top \in Nat /\ a \in Nat /\ b \in Nat
  BY PolicyAssumption, PowerCounts
<1>2. m < MultiplierBits => a + 1 <= top
  BY <1>1, PowerGrows
<1>3. n < MultiplierBits => b + 1 <= top
  BY <1>1, PowerGrows
<1>4. a <= b
  <2>1. CASE m = n
    BY <1>1, <2>1
  <2>2. CASE m < n
    <3>1. a + 1 <= b
      BY <2>2, PowerGrows
    <3> HIDE DEF a, b
    <3> QED
      BY <1>1, <3>1
  <2> QED
    BY <2>1, <2>2
<1>5. top >= 1
  <2>1. 0 < MultiplierBits /\ MultiplierBits \in Nat
    BY PolicyAssumption
  <2>2. 2 ^ 0 + 1 <= top /\ 2 ^ 0 \in Nat
    BY <2>1, PowerGrows, PowerCounts
  <2> DEFINE one == 2 ^ 0
  <2> HIDE DEF top, one
  <2>3. one + 1 <= top /\ one \in Nat
    BY <2>2 DEF one
  <2> QED
    BY <1>1, <2>3
<1>6. /\ Multiplier(m) = IF m < MultiplierBits THEN a ELSE top - 1
      /\ Multiplier(n) = IF n < MultiplierBits THEN b ELSE top - 1
  BY DEF Multiplier
<1> HIDE DEF a, b, top
<1> QED
  BY <1>1, <1>2, <1>3, <1>4, <1>5, <1>6

LEMMA ProductGrows ==
  \A x, m, n \in Nat : m <= n => x * m \in Nat /\ x * n \in Nat /\ x * m <= x * n
  OBVIOUS

(* A delay lies between the jitter and the cap plus the jitter, and more   *)
(* attempts never make it shorter.                                         *)
LEMMA DelayGrows ==
  ASSUME NEW m \in Nat, NEW n \in Nat, m <= n
  PROVE  /\ retry_delay(m) \in Jitter..(MaxDelay + Jitter) /\ retry_delay(m) \in Nat
         /\ retry_delay(m) <= retry_delay(n)
<1> DEFINE p == BaseDelay * Multiplier(m)
           q == BaseDelay * Multiplier(n)
<1>1. BaseDelay \in Nat /\ MaxDelay \in Nat /\ Jitter \in Nat
  BY PolicyAssumption
<1>2. p \in Nat /\ q \in Nat /\ p <= q
  BY <1>1, MultiplierGrows, ProductGrows
<1>3. /\ retry_delay(m) = (IF p < MaxDelay THEN p ELSE MaxDelay) + Jitter
      /\ retry_delay(n) = (IF q < MaxDelay THEN q ELSE MaxDelay) + Jitter
  BY DEF retry_delay
<1> HIDE DEF p, q
<1> QED
  BY <1>1, <1>2, <1>3

-----------------------------------------------------------------------------
(* What was answered of a kind, and what is remembered of it: an answer    *)
(* never runs ahead of the next one.                                       *)

Answers == {Ready} \cup [kind : {"retry"}, delay : Nat] \cup [kind : {"blocked"}, reason : Reasons]

Matches(remembered, told, byQuestion) ==
  /\ told.kind = "blocked" => remembered.blocked # "no"
  /\ told.kind = "retry" => /\ told.delay \in Jitter..(MaxDelay + Jitter)
                           /\ told.delay <= retry_delay(remembered.attempts)
  /\ byQuestion => told = next_retry(remembered)

AnswersOK ==
  /\ memory \in [Kinds -> Memory]
  /\ answer \in [Kinds -> Answers]
  /\ asked \in [Kinds -> BOOLEAN]

AnswersInv == AnswersOK /\ \A k \in Kinds : Matches(memory[k], answer[k], asked[k])

LEMMA NextRetryAnswers ==
  ASSUME NEW remembered \in Memory
  PROVE  /\ next_retry(remembered) \in Answers
         /\ Matches(remembered, next_retry(remembered), TRUE)
<1> DEFINE delay == retry_delay(remembered.attempts)
<1>1. remembered.attempts \in Nat /\ remembered.blocked \in Reasons \cup {"no"}
  BY DEF Memory
<1>2. delay \in Jitter..(MaxDelay + Jitter) /\ delay \in Nat /\ delay <= delay
  BY <1>1, DelayGrows
<1> HIDE DEF delay
<1>5. CASE remembered.blocked # "no"
  <2>1. next_retry(remembered) = Blocked(remembered.blocked)
    BY <1>5 DEF next_retry
  <2> QED
    BY <1>1, <1>5, <2>1 DEF Matches, Answers, Blocked
<1>6. CASE remembered.blocked = "no" /\ remembered.attempts = 0
  <2>1. next_retry(remembered) = Ready
    BY <1>6 DEF next_retry
  <2> QED
    BY <2>1 DEF Matches, Answers, Ready
<1>7. CASE remembered.blocked = "no" /\ remembered.attempts # 0
  <2>1. next_retry(remembered) = RetryAfter(delay)
    BY <1>7 DEF next_retry, delay
  <2>2. RetryAfter(delay).delay = delay /\ RetryAfter(delay).kind = "retry"
    BY DEF RetryAfter
  <2>3. RetryAfter(delay) \in Answers
    BY <1>2 DEF RetryAfter, Answers
  <2>4. RetryAfter(delay).delay <= retry_delay(remembered.attempts)
    BY <1>2, <2>2 DEF delay
  <2> QED
    BY <1>2, <2>1, <2>2, <2>3, <2>4 DEF Matches
<1> QED
  BY <1>5, <1>6, <1>7

LEMMA FailureAnswers ==
  ASSUME NEW remembered \in Memory, NEW error \in Reasons \cup {"transient"}
  PROVE  /\ AfterFailure(remembered, error) \in Memory
         /\ FailureAnswer(remembered, error) \in Answers
         /\ Matches(AfterFailure(remembered, error), FailureAnswer(remembered, error), FALSE)
<1>1. remembered.attempts \in Nat /\ remembered.blocked \in Reasons \cup {"no"}
  BY DEF Memory
<1>2. AfterFailure(remembered, error) \in Memory
  BY <1>1 DEF AfterFailure, Memory
<1>3. CASE error \in Reasons
  BY <1>2, <1>3 DEF AfterFailure, FailureAnswer, Memory, Answers, Matches, Blocked, Reasons
<1>4. CASE error \notin Reasons /\ remembered.blocked # "no"
  BY <1>1, <1>2, <1>4 DEF AfterFailure, FailureAnswer, Answers, Matches, Blocked
<1>5. CASE error \notin Reasons /\ remembered.blocked = "no"
  <2> DEFINE n     == remembered.attempts
             delay == retry_delay(n)
             after == AfterFailure(remembered, error)
  <2>1. /\ FailureAnswer(remembered, error) = RetryAfter(delay)
        /\ after.attempts = n + 1
    BY <1>5 DEF FailureAnswer, AfterFailure, Memory
  <2>2. /\ delay \in Jitter..(MaxDelay + Jitter) /\ delay \in Nat
        /\ delay <= retry_delay(n + 1)
    BY <1>1, DelayGrows
  <2> HIDE DEF delay, after
  <2>3. /\ RetryAfter(delay) \in Answers
        /\ RetryAfter(delay).kind = "retry" /\ RetryAfter(delay).delay = delay
    BY <2>2 DEF RetryAfter, Answers
  <2>4. Matches(after, RetryAfter(delay), FALSE)
    BY <2>1, <2>2, <2>3 DEF Matches
  <2> QED
    BY <1>2, <2>1, <2>3, <2>4 DEF after
<1> QED
  BY <1>3, <1>4, <1>5

LEMMA AnswersInit == Init => AnswersInv
  BY DEF Init, AnswersInv, AnswersOK, Matches, Answers, Fresh, Memory, Ready

(* A kind that is answered, the others as they were.                       *)
LEMMA AnsweredOne ==
  ASSUME AnswersInv, NEW k \in Kinds, NEW remembered \in Memory, NEW told \in Answers,
         NEW byQuestion \in BOOLEAN, Matches(remembered, told, byQuestion),
         memory' = [memory EXCEPT ![k] = remembered],
         answer' = [answer EXCEPT ![k] = told],
         asked' = [asked EXCEPT ![k] = byQuestion]
  PROVE  AnswersInv'
<1>1. AnswersOK'
  BY DEF AnswersInv, AnswersOK
<1>2. ASSUME NEW j \in Kinds PROVE Matches(memory'[j], answer'[j], asked'[j])
  <2>1. CASE j = k
    <3>1. memory'[j] = remembered /\ answer'[j] = told /\ asked'[j] = byQuestion
      BY <2>1 DEF AnswersInv, AnswersOK
    <3> QED
      BY <3>1
  <2>2. CASE j # k
    <3>1. memory'[j] = memory[j] /\ answer'[j] = answer[j] /\ asked'[j] = asked[j]
      BY <2>2 DEF AnswersInv, AnswersOK
    <3>2. Matches(memory[j], answer[j], asked[j])
      BY DEF AnswersInv
    <3> QED
      BY <3>1, <3>2
  <2> QED
    BY <2>1, <2>2
<1>3. \A j \in Kinds : Matches(memory[j], answer[j], asked[j])'
  BY <1>2 DEF Matches
<1> QED
  BY <1>1, <1>3 DEF AnswersInv

LEMMA AnswersStep == AnswersInv /\ [Next]_vars => AnswersInv'
<1> SUFFICES ASSUME AnswersInv, [Next]_vars PROVE AnswersInv'
  OBVIOUS
<1>1. AnswersOK
  BY DEF AnswersInv
<1>2. CASE UNCHANGED answerVars
  BY <1>2 DEF answerVars, AnswersInv, AnswersOK, Matches
<1>3. ASSUME NEW k \in Kinds, NEW error \in Failures, RecordFailure(k, error)
      PROVE  AnswersInv'
  <2> DEFINE after == AfterFailure(memory[k], error)
             told  == FailureAnswer(memory[k], error)
  <2>1. after \in Memory /\ told \in Answers /\ Matches(after, told, FALSE)
    BY <1>1, <1>3, DisciplineAssumption, FailureAnswers DEF AnswersOK
  <2>2. /\ memory' = [memory EXCEPT ![k] = after] /\ answer' = [answer EXCEPT ![k] = told]
        /\ asked' = [asked EXCEPT ![k] = FALSE]
    BY <1>1, <1>3 DEF RecordFailure, AnswersOK
  <2> HIDE DEF after, told
  <2> QED
    BY <2>1, <2>2, AnsweredOne
<1>4. ASSUME NEW k \in Kinds, RecordSuccess(k) PROVE AnswersInv'
  <2>1. Fresh \in Memory /\ Ready \in Answers /\ Matches(Fresh, Ready, FALSE)
    BY DEF Fresh, Memory, Answers, Ready, Matches
  <2> QED
    BY <1>4, <2>1, AnsweredOne DEF RecordSuccess
<1>5. ASSUME NEW k \in Kinds, NextRetry(k) PROVE AnswersInv'
  <2> DEFINE told == next_retry(memory[k])
  <2>1. memory[k] \in Memory /\ told \in Answers /\ Matches(memory[k], told, TRUE)
    BY <1>1, NextRetryAnswers DEF AnswersOK
  <2>2. /\ memory' = [memory EXCEPT ![k] = memory[k]] /\ answer' = [answer EXCEPT ![k] = told]
        /\ asked' = [asked EXCEPT ![k] = TRUE]
    BY <1>1, <1>5 DEF NextRetry, AnswersOK
  <2> HIDE DEF told
  <2> QED
    BY <2>1, <2>2, AnsweredOne
<1> QED
  BY <1>2, <1>3, <1>4, <1>5 DEF Next, vars, TryAcquire, Exchange, DropPermit

LEMMA AnswersHold == Spec => []AnswersInv
  BY AnswersInit, AnswersStep, PTL DEF Spec

(* Type correctness of RetryDiscipline.                                    *)
THEOREM DisciplineTypeCorrect == Spec => []DisciplineTypeOK
<1>1. AnswersInv /\ PermitsInv => DisciplineTypeOK
  BY DEF AnswersInv, AnswersOK, Answers, PermitsInv, PermitsOK, DisciplineTypeOK
<1> QED
  BY <1>1, AnswersHold, PermitsInvariant, PTL

(* What a step can answer of a kind.                                       *)
LEMMA AnswerCases ==
  ASSUME AnswersInv, [Next]_vars, NEW k \in Kinds
  PROVE  \/ answer'[k] = answer[k]
         \/ answer'[k] = Ready
         \/ answer'[k] = next_retry(memory[k])
         \/ \E error \in Failures : answer'[k] = FailureAnswer(memory[k], error)
<1>1. answer \in [Kinds -> Answers]
  BY DEF AnswersInv, AnswersOK
<1>2. CASE \E j \in Kinds, error \in Failures : RecordFailure(j, error)
  BY <1>1, <1>2 DEF RecordFailure
<1>3. CASE \E j \in Kinds : RecordSuccess(j) \/ NextRetry(j)
  BY <1>1, <1>3 DEF RecordSuccess, NextRetry
<1>4. CASE UNCHANGED answerVars
  BY <1>4 DEF answerVars
<1> QED
  BY <1>2, <1>3, <1>4 DEF Next, vars, TryAcquire, Exchange, DropPermit

(* An operation that was answered "blocked" is scheduled again only after  *)
(* a success: neither a later transient failure nor a question schedules   *)
(* it (record_failure and next_retry look at the blocked map first).       *)
THEOREM BlockedIsNotScheduled == Spec => BlockedStopsRetry
<1>1. ASSUME AnswersInv, [Next]_vars, NEW k \in Kinds, answer[k].kind = "blocked"
      PROVE  answer'[k].kind # "retry"
  <2>1. memory[k].blocked # "no"
    BY <1>1 DEF AnswersInv, Matches
  <2>2. next_retry(memory[k]).kind # "retry"
    BY <2>1 DEF next_retry, Blocked
  <2>3. \A error \in Failures : FailureAnswer(memory[k], error).kind # "retry"
    BY <2>1 DEF FailureAnswer, Blocked
  <2> QED
    BY <1>1, <2>2, <2>3, AnswerCases DEF Ready
<1>2. AnswersInv /\ [Next]_vars =>
        [\A k \in Kinds : answer[k].kind = "blocked" => answer'[k].kind # "retry"]_vars
  BY <1>1
<1> QED
  BY <1>2, AnswersHold, PTL DEF Spec, BlockedStopsRetry

(* The delays that are answered grow from failure to failure until a       *)
(* success, and stay below the cap plus the jitter, also where the         *)
(* multiplier saturates (retry_delay, for every base, cap and jitter).     *)
THEOREM DelaysGrow == Spec => BackoffGrows
<1>1. ASSUME AnswersInv, [Next]_vars, NEW k \in Kinds, answer'[k].kind = "retry"
      PROVE  /\ answer'[k].delay \in Jitter..(MaxDelay + Jitter)
             /\ answer[k].kind = "retry" => answer[k].delay <= answer'[k].delay
  <2>1. AnswersInv' /\ memory \in [Kinds -> Memory] /\ answer \in [Kinds -> Answers]
    BY <1>1, AnswersStep DEF AnswersInv, AnswersOK
  <2>2. Matches(memory[k], answer[k], asked[k])
    BY <1>1 DEF AnswersInv
  <2>3. answer'[k].delay \in Jitter..(MaxDelay + Jitter)
    <3>1. Matches(memory[k], answer[k], asked[k])'
      BY <2>1 DEF AnswersInv
    <3> QED
      BY <1>1, <3>1 DEF Matches
  <2>4. \/ answer'[k] = answer[k]
        \/ answer'[k].delay = retry_delay(memory[k].attempts)
    <3>1. \A d : Ready.kind # "retry" /\ RetryAfter(d).delay = d
      BY DEF Ready, RetryAfter
    <3>2. \A r : Blocked(r).kind # "retry"
      BY DEF Blocked
    <3>3. next_retry(memory[k]).kind = "retry" =>
            next_retry(memory[k]).delay = retry_delay(memory[k].attempts)
      BY <3>1, <3>2 DEF next_retry
    <3>4. \A error \in Failures :
            FailureAnswer(memory[k], error).kind = "retry" =>
              FailureAnswer(memory[k], error).delay = retry_delay(memory[k].attempts)
      BY <3>1, <3>2 DEF FailureAnswer
    <3> QED
      BY <1>1, <3>1, <3>3, <3>4, AnswerCases
  <2>5. answer[k].kind = "retry" =>
          answer[k].delay \in Nat /\ answer[k].delay <= retry_delay(memory[k].attempts)
    BY <2>1, <2>2 DEF Matches, Answers, Ready
  <2> QED
    BY <2>3, <2>4, <2>5
<1>2. AnswersInv /\ [Next]_vars =>
        [\A k \in Kinds :
           answer'[k].kind = "retry" =>
             /\ answer'[k].delay \in Jitter..(MaxDelay + Jitter)
             /\ answer[k].kind = "retry" => answer[k].delay <= answer'[k].delay]_vars
  BY <1>1
<1> QED
  BY <1>2, AnswersHold, PTL DEF Spec, BackoffGrows

(* next_retry answers what the next transient failure will be answered,    *)
(* and asking changes nothing (record_failure counts an attempt after it   *)
(* has computed the delay, next_retry counts none).                        *)
THEOREM QuestionsPredict == Spec => NextRetryPredicts
<1>1. ASSUME AnswersInv, NEW k \in Kinds, asked[k], answer[k] # Ready,
             RecordFailure(k, "transient")
      PROVE  answer'[k] = answer[k]
  <2>1. answer[k] = next_retry(memory[k])
    BY <1>1 DEF AnswersInv, Matches
  <2>2. answer'[k] = FailureAnswer(memory[k], "transient")
    BY <1>1 DEF RecordFailure, AnswersInv, AnswersOK
  <2>3. memory[k].blocked = "no" => memory[k].attempts # 0
    BY <1>1, <2>1 DEF next_retry
  <2> QED
    BY <2>1, <2>2, <2>3 DEF next_retry, FailureAnswer, Reasons
<1>2. AnswersInv /\ [Next]_vars =>
        [\A k \in Kinds :
           asked[k] /\ answer[k] # Ready /\ RecordFailure(k, "transient") =>
             answer'[k] = answer[k]]_vars
  BY <1>1
<1> QED
  BY <1>2, AnswersHold, PTL DEF Spec, NextRetryPredicts

=============================================================================
