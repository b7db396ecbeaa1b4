-------------------------- MODULE ProxyPoolProofs --------------------------
(***************************************************************************)
(* Proofs about ProxyPool, for every set of pools, holders and routes.     *)
(***************************************************************************)
EXTENDS ProxyPool, ClassificationProofs

-----------------------------------------------------------------------------
(* Facts about a pool.                                                     *)

LEMMA PoolShape ==
  ASSUME pool \in Pools
  PROVE  /\ pool.rows \in Seq(Row) /\ pool.target \in Nat
         /\ Instances = 1..Len(pool.rows) /\ Len(pool.rows) \in Nat
         /\ NONE \notin Instances
         /\ \A i \in Instances : pool.rows[i] \in Row
  BY PoolAssumption DEF Pool, Instances, NONE

(* What the type invariant says of the step that runs a search.            *)
LEMMA ScanType ==
  ASSUME PoolTypeOK
  PROVE  /\ scan.next \in 1..(Len(pool.rows) + 1)
         /\ scan.best \in Instances \cup {NONE}
         /\ scan.load \in Nat
         /\ scan.tier \subseteq Usable
  BY DEF PoolTypeOK

-----------------------------------------------------------------------------
(* Type correctness: Spec keeps the state in its type.                     *)

LEMMA PoolTypeStep == PoolTypeOK /\ [PoolNext]_poolVars => PoolTypeOK'
<1> SUFFICES ASSUME PoolTypeOK, [PoolNext]_poolVars PROVE PoolTypeOK'
  OBVIOUS
<1> USE DEF PoolTypeOK
<1>0. pool \in Pools
  OBVIOUS
<1>1. CASE ClassifyRow
  <2>1. pool.rows[next_row] \in Row /\ next_row \in Instances
    BY <1>1, PoolShape DEF ClassifyRow
  <2>2. next_row' \in 1..(Len(pool.rows) + 1)
    BY <1>1, <2>1, PoolShape DEF ClassifyRow, Classify
  <2>3. seen_exit_ips' \subseteq Exits /\ serving_count' \in Nat
    BY <1>1, <2>1 DEF ClassifyRow, Row, Healthy
  <2>4. membership' \in [Instances -> Usable \cup {"Failed", "unclassified"}]
    BY <1>1 DEF ClassifyRow, Classify, Usable
  <2> QED
    BY <1>1, <2>2, <2>3, <2>4 DEF ClassifyRow, Classify, Instances
<1>2. CASE \E h \in Holders, route \in Routes : BeginSelection(h, route)
  <2> PICK h \in Holders, route \in Routes : BeginSelection(h, route)
    BY <1>2
  <2>1. FirstTier(route) \subseteq Usable
    BY DEF FirstTier, Usable
  <2>2. Instances' = Instances /\ UNCHANGED buildVars
    BY DEF BeginSelection, buildVars, Instances
  <2>3. scan' \in [route : Routes \cup {NoScan.route}, tier : SUBSET Usable,
                   next : 1..(Len(pool.rows) + 1), best : Instances \cup {NONE},
                   load : Nat, start : [Instances -> Nat] \cup {<<>>}]
    BY <2>1, PoolShape DEF BeginSelection
  <2> QED
    BY <2>2, <2>3 DEF BeginSelection, buildVars
<1>3. CASE ReadInstance
  <2>1. /\ scan.next \in Instances /\ scan.next + 1 \in 1..(Len(pool.rows) + 1)
        /\ active[scan.next] \in Nat
    BY <1>3, PoolShape DEF ReadInstance
  <2> QED
    BY <1>3, <2>1 DEF ReadInstance, buildVars, Instances
<1>4. ASSUME NoScan.next = 1 PROVE NoScan \in
        [route : Routes \cup {NoScan.route}, tier : SUBSET Usable,
         next : 1..(Len(pool.rows) + 1), best : Instances \cup {NONE},
         load : Nat, start : [Instances -> Nat] \cup {<<>>}]
  BY PoolShape DEF NoScan
<1>5. CASE GrantLease
  <2>1. scan.best \in Instances /\ lock \in Holders /\ active[scan.best] + 1 \in Nat
    BY <1>5, ScanType DEF GrantLease, SearchEnded
  <2> QED
    BY <1>4, <1>5, <2>1 DEF GrantLease, buildVars, Instances, NoScan
<1>6. CASE SearchStandby
  <2>1. 1 \in 1..(Len(pool.rows) + 1) /\ {"Standby"} \in SUBSET Usable
    BY PoolShape DEF Usable
  <2> QED
    BY <1>6, <2>1 DEF SearchStandby, buildVars, Instances
<1>7. CASE RefuseSelection
  BY <1>4, <1>7 DEF RefuseSelection, buildVars, Instances, NoScan
<1>8. CASE \E h \in Holders : DropLease(h)
  <2> PICK h \in Holders : DropLease(h)
    BY <1>8
  <2>1. lease[h] \in Instances /\ Released(active[lease[h]]) \in Nat
    BY DEF DropLease, Released
  <2> QED
    BY <2>1 DEF DropLease, buildVars, Instances
<1>9. CASE UNCHANGED poolVars
  BY <1>9 DEF poolVars, buildVars, Instances
<1> QED
  BY <1>1, <1>2, <1>3, <1>5, <1>6, <1>7, <1>8, <1>9 DEF PoolNext

LEMMA PoolTypeInit == PoolInit => PoolTypeOK
  BY PoolShape DEF PoolInit, PoolTypeOK, NoScan, Usable, Instances

(* The pool's state keeps its type.                                        *)
THEOREM PoolTypeCorrect == PoolSpec => []PoolTypeOK
  BY PoolTypeInit, PoolTypeStep, PTL DEF PoolSpec

-----------------------------------------------------------------------------
(* Leases are counted.  The induction needs that whoever runs a selection  *)
(* holds no lease yet: its new lease is one more holder of the instance.   *)

SelectingHoldsNone == lock # NoHolder => lease[lock] = NONE

LeaseInv == PoolTypeOK /\ SelectingHoldsNone /\ LeasesCounted

LEMMA HoldersAreFinite ==
  \A i : IsFiniteSet(HoldersOf(i)) /\ Cardinality(HoldersOf(i)) \in Nat
<1> TAKE i
<1>1. HoldersOf(i) \subseteq Holders
  BY DEF HoldersOf
<1> QED
  BY <1>1, PoolAssumption, FS_Subset, FS_CardinalityType

(* A step that keeps the leases and the counts keeps the equation.         *)
LEMMA LeasesUntouched ==
  ASSUME LeasesCounted, UNCHANGED <<pool, active, lease>>
  PROVE  LeasesCounted'
  BY DEF LeasesCounted, HoldersOf, Instances

LEMMA LeasesGranted == LeaseInv /\ GrantLease => LeasesCounted'
<1> SUFFICES ASSUME LeaseInv, GrantLease,
                    NEW i \in Instances'
             PROVE  active'[i] = Cardinality(HoldersOf(i)')
  BY DEF LeasesCounted
<1>1. /\ i \in Instances /\ scan.best \in Instances /\ NONE \notin Instances
      /\ lock \in Holders /\ lease[lock] = NONE
      /\ active \in [Instances -> Nat] /\ lease \in [Holders -> Instances \cup {NONE}]
  BY ScanType, PoolShape
     DEF LeaseInv, SelectingHoldsNone, GrantLease, SearchEnded, buildVars, Instances, PoolTypeOK
<1>2. active[i] = Cardinality(HoldersOf(i))
  BY <1>1 DEF LeaseInv, LeasesCounted
<1>3. CASE i = scan.best
  <2>1. HoldersOf(i)' = HoldersOf(i) \cup {lock} /\ lock \notin HoldersOf(i)
    BY <1>1, <1>3 DEF GrantLease, HoldersOf
  <2>2. Cardinality(HoldersOf(i)') = Cardinality(HoldersOf(i)) + 1
    BY <2>1, HoldersAreFinite, FS_AddElement
  <2> QED
    BY <1>1, <1>2, <1>3, <2>2 DEF GrantLease
<1>4. CASE i # scan.best
  <2>1. HoldersOf(i)' = HoldersOf(i)
    BY <1>1, <1>4 DEF GrantLease, HoldersOf
  <2> QED
    BY <1>1, <1>2, <1>4, <2>1 DEF GrantLease
<1> QED
  BY <1>3, <1>4

LEMMA LeasesDropped ==
  ASSUME LeaseInv, NEW h \in Holders, DropLease(h)
  PROVE  LeasesCounted'
<1> SUFFICES ASSUME NEW i \in Instances'
             PROVE  active'[i] = Cardinality(HoldersOf(i)')
  BY DEF LeasesCounted
<1>1. /\ i \in Instances /\ lease[h] \in Instances /\ NONE \notin Instances
      /\ active \in [Instances -> Nat] /\ lease \in [Holders -> Instances \cup {NONE}]
  BY PoolShape DEF LeaseInv, DropLease, buildVars, Instances, PoolTypeOK
<1>2. active[i] = Cardinality(HoldersOf(i))
  BY <1>1 DEF LeaseInv, LeasesCounted
<1>3. CASE i = lease[h]
  <2>1. HoldersOf(i)' = HoldersOf(i) \ {h} /\ h \in HoldersOf(i)
    BY <1>1, <1>3 DEF DropLease, HoldersOf
  <2>2. Cardinality(HoldersOf(i)') = Cardinality(HoldersOf(i)) - 1
    BY <2>1, HoldersAreFinite, FS_RemoveElement
  <2>3. active[i] > 0
    BY <1>2, <2>1, HoldersAreFinite, FS_EmptySet
  <2> QED
    BY <1>1, <1>2, <1>3, <2>2, <2>3 DEF DropLease, Released
<1>4. CASE i # lease[h]
  <2>1. HoldersOf(i)' = HoldersOf(i)
    BY <1>1, <1>4 DEF DropLease, HoldersOf
  <2> QED
    BY <1>1, <1>2, <1>4, <2>1 DEF DropLease
<1> QED
  BY <1>3, <1>4

LEMMA LeaseStep == LeaseInv /\ [PoolNext]_poolVars => LeaseInv'
<1> SUFFICES ASSUME LeaseInv, [PoolNext]_poolVars PROVE LeaseInv'
  OBVIOUS
<1>1. PoolTypeOK /\ PoolTypeOK' /\ LeasesCounted /\ SelectingHoldsNone
  BY PoolTypeStep DEF LeaseInv
<1>2. LeasesCounted'
  <2>1. CASE UNCHANGED <<pool, active, lease>>
    BY <1>1, <2>1, LeasesUntouched
  <2>2. CASE GrantLease
    BY <2>2, LeasesGranted
  <2>3. CASE \E h \in Holders : DropLease(h)
    BY <2>3, LeasesDropped
  <2> QED
    BY <2>1, <2>2, <2>3
       DEF PoolNext, poolVars, buildVars, ClassifyRow, Classify, BeginSelection,
           ReadInstance, SearchStandby, RefuseSelection
<1>3. SelectingHoldsNone'
  <2>1. lease \in [Holders -> Instances \cup {NONE}] /\ NoHolder \notin Holders
    BY <1>1, PoolAssumption DEF PoolTypeOK
  <2>2. CASE \E h \in Holders, route \in Routes : BeginSelection(h, route)
    BY <2>2 DEF BeginSelection, SelectingHoldsNone
  <2>3. CASE GrantLease \/ RefuseSelection
    BY <2>3 DEF GrantLease, RefuseSelection, SelectingHoldsNone
  <2>4. CASE \E h \in Holders : DropLease(h)
    BY <1>1, <2>1, <2>4 DEF DropLease, SelectingHoldsNone
  <2>5. CASE UNCHANGED <<lock, lease>>
    BY <1>1, <2>5 DEF SelectingHoldsNone
  <2> QED
    BY <2>2, <2>3, <2>4, <2>5
       DEF PoolNext, poolVars, ClassifyRow, Classify, ReadInstance, SearchStandby
<1> QED
  BY <1>1, <1>2, <1>3 DEF LeaseInv

LEMMA LeaseInit == PoolInit => LeaseInv
<1> SUFFICES ASSUME PoolInit PROVE SelectingHoldsNone /\ LeasesCounted
  BY PoolTypeInit DEF LeaseInv
<1>1. SelectingHoldsNone
  BY DEF PoolInit, SelectingHoldsNone
<1>2. ASSUME NEW i \in Instances PROVE active[i] = Cardinality(HoldersOf(i))
  <2>1. HoldersOf(i) = {} /\ active[i] = 0
    BY <1>2, PoolShape DEF PoolInit, HoldersOf, NONE
  <2> QED
    BY <2>1, FS_EmptySet
<1> QED
  BY <1>1, <1>2 DEF LeasesCounted

LEMMA LeaseInvariant == PoolSpec => []LeaseInv
  BY LeaseInit, LeaseStep, PTL DEF PoolSpec

(* The active connection count of an instance is the number of leases on   *)
(* it (ConnectionLease::new and drop), for any number of holders.          *)
THEOREM LeasesAreCounted == PoolSpec => []LeasesCounted
<1>1. LeaseInv => LeasesCounted
  BY DEF LeaseInv
<1> QED
  BY <1>1, LeaseInvariant, PTL

-----------------------------------------------------------------------------
(* The Serving Pool.  The two locals of from_instances describe the pool   *)
(* built so far, which is what makes its loop correct: seen_exit_ips are   *)
(* the Exit IPs that serve, serving_count is how many instances serve.     *)

LocalsDescribePool ==
  /\ seen_exit_ips = {pool.rows[i].exit : i \in ServingPool}
  /\ serving_count = Cardinality(ServingPool)
  /\ \A i \in Instances : i >= next_row <=> membership[i] = "unclassified"

ServingInv == PoolTypeOK /\ LocalsDescribePool /\ ServingPoolIsDiverseAndFull

LEMMA ServingPoolIsFinite ==
  ASSUME PoolTypeOK
  PROVE  /\ ServingPool \subseteq Instances /\ IsFiniteSet(ServingPool)
         /\ Cardinality(ServingPool) \in Nat
<1>1. ServingPool \subseteq Instances
  BY DEF ServingPool
<1>2. IsFiniteSet(Instances)
  <2>1. Instances = 1..Len(pool.rows) /\ 1 \in Int /\ Len(pool.rows) \in Int
    BY PoolShape DEF PoolTypeOK
  <2> QED
    BY <2>1, FS_Interval
<1> QED
  BY <1>1, <1>2, FS_Subset, FS_CardinalityType

(* The row that is classified is put in the Serving Pool.                  *)
LEMMA RowServes ==
  ASSUME ServingInv, next_row \in Instances,
         Healthy(pool.rows[next_row]), EntersServing(pool.rows[next_row]),
         Classify(next_row, "Serving"),
         seen_exit_ips' = seen_exit_ips \cup {pool.rows[next_row].exit},
         serving_count' = serving_count + 1
  PROVE  LocalsDescribePool' /\ ServingPoolIsDiverseAndFull'
<1>1. /\ PoolTypeOK /\ LocalsDescribePool /\ ServingPoolIsDiverseAndFull
      /\ Instances \subseteq Nat /\ Instances' = Instances /\ pool' = pool
      /\ next_row' = next_row + 1 /\ next_row \in Nat /\ pool.target \in Nat
      /\ membership \in [Instances -> Usable \cup {"Failed", "unclassified"}]
      /\ membership' = [membership EXCEPT ![next_row] = "Serving"]
  BY PoolShape DEF ServingInv, PoolTypeOK, Classify, Instances
<1>2. /\ ServingPool' = ServingPool \cup {next_row} /\ next_row \notin ServingPool
      /\ \A i \in ServingPool : i < next_row
  <2>1. ServingPool' = {i \in Instances : membership'[i] = "Serving"}
    BY <1>1 DEF ServingPool
  <2>2. membership[next_row] = "unclassified"
    BY <1>1 DEF LocalsDescribePool
  <2>3. \A i \in ServingPool : i < next_row
    BY <1>1 DEF ServingPool, LocalsDescribePool
  <2>4. \A i \in Instances :
          membership'[i] = IF i = next_row THEN "Serving" ELSE membership[i]
    BY <1>1
  <2> QED
    BY <2>1, <2>2, <2>3, <2>4 DEF ServingPool
<1>3. Cardinality(ServingPool') = Cardinality(ServingPool) + 1
  BY <1>1, <1>2, ServingPoolIsFinite, FS_AddElement
<1>4. LocalsDescribePool'
  <2>1. seen_exit_ips' = {pool.rows[i].exit : i \in ServingPool'}
    BY <1>1, <1>2 DEF LocalsDescribePool
  <2>2. \A i \in Instances : i >= next_row + 1 <=> membership'[i] = "unclassified"
    BY <1>1 DEF LocalsDescribePool
  <2> QED
    BY <1>1, <1>3, <2>1, <2>2 DEF LocalsDescribePool
<1>5. ASSUME NEW i \in ServingPool', NEW j \in ServingPool',
             pool.rows[i].exit = pool.rows[j].exit
      PROVE  i = j
  BY <1>1, <1>2, <1>5 DEF EntersServing, LocalsDescribePool, ServingPoolIsDiverseAndFull
<1>6. Cardinality(ServingPool') <= pool.target
  BY <1>1, <1>3, ServingPoolIsFinite DEF EntersServing, LocalsDescribePool
<1>7. ASSUME NEW i \in Instances
      PROVE  /\ membership'[i] = "Failed" => ~Healthy(pool.rows[i])
             /\ membership'[i] \in Usable => Healthy(pool.rows[i])
  BY <1>1 DEF ServingPoolIsDiverseAndFull, Usable
<1>8. ASSUME NEW i \in Instances, membership'[i] = "Standby"
      PROVE  \/ \E j \in ServingPool' : j < i /\ pool.rows[j].exit = pool.rows[i].exit
             \/ Cardinality({j \in ServingPool' : j < i}) = pool.target
  <2>1. i # next_row /\ membership[i] = "Standby" /\ i < next_row
    BY <1>1, <1>8 DEF LocalsDescribePool
  <2>2. {j \in ServingPool' : j < i} = {j \in ServingPool : j < i}
    BY <1>1, <1>2, <2>1
  <2> QED
    BY <1>1, <1>2, <2>1, <2>2 DEF ServingPoolIsDiverseAndFull
<1> QED
  BY <1>1, <1>4, <1>5, <1>6, <1>7, <1>8 DEF ServingPoolIsDiverseAndFull, Healthy

(* The row that is classified is not put in the Serving Pool.              *)
LEMMA RowDoesNotServe ==
  ASSUME ServingInv, next_row \in Instances, NEW as \in {"Failed", "Standby"},
         IF as = "Failed" THEN ~Healthy(pool.rows[next_row])
         ELSE Healthy(pool.rows[next_row]) /\ ~EntersServing(pool.rows[next_row]),
         Classify(next_row, as), UNCHANGED <<seen_exit_ips, serving_count>>
  PROVE  LocalsDescribePool' /\ ServingPoolIsDiverseAndFull'
<1>1. /\ PoolTypeOK /\ LocalsDescribePool /\ ServingPoolIsDiverseAndFull
      /\ Instances \subseteq Nat /\ Instances' = Instances /\ pool' = pool
      /\ next_row' = next_row + 1 /\ next_row \in Nat /\ pool.target \in Nat
      /\ membership \in [Instances -> Usable \cup {"Failed", "unclassified"}]
      /\ membership' = [membership EXCEPT ![next_row] = as]
  BY PoolShape DEF ServingInv, PoolTypeOK, Classify, Instances
<1>2. ServingPool' = ServingPool /\ \A i \in ServingPool : i < next_row
  <2>1. ServingPool' = {i \in Instances : membership'[i] = "Serving"}
    BY <1>1 DEF ServingPool
  <2>2. membership[next_row] = "unclassified"
    BY <1>1 DEF LocalsDescribePool
  <2>3. \A i \in ServingPool : i < next_row
    BY <1>1 DEF ServingPool, LocalsDescribePool
  <2>4. \A i \in Instances :
          membership'[i] = IF i = next_row THEN as ELSE membership[i]
    BY <1>1
  <2> QED
    BY <2>1, <2>2, <2>3, <2>4 DEF ServingPool
<1>3. LocalsDescribePool'
  <2>1. \A i \in Instances : i >= next_row + 1 <=> membership'[i] = "unclassified"
    <3> SUFFICES ASSUME NEW i \in Instances
                 PROVE  i >= next_row + 1 <=> membership'[i] = "unclassified"
      OBVIOUS
    <3>1. i >= next_row <=> membership[i] = "unclassified"
      BY <1>1 DEF LocalsDescribePool
    <3>2. CASE i = next_row
      <4>1. ~(membership'[i] = "unclassified")
        BY <1>1, <3>2
      <4>2. ~(i >= next_row + 1)
        BY <1>1, <3>2
      <4> QED
        BY <4>1, <4>2
    <3>3. CASE i # next_row
      BY <1>1, <3>1, <3>3
    <3> QED
      BY <3>2, <3>3
  <2> QED
    BY <1>1, <1>2, <2>1 DEF LocalsDescribePool
<1>4. ASSUME NEW i \in Instances
      PROVE  /\ membership'[i] = "Failed" => ~Healthy(pool.rows[i])
             /\ membership'[i] \in Usable => Healthy(pool.rows[i])
  BY <1>1 DEF ServingPoolIsDiverseAndFull, Usable
<1>5. ASSUME NEW i \in Instances, membership'[i] = "Standby"
      PROVE  \/ \E j \in ServingPool' : j < i /\ pool.rows[j].exit = pool.rows[i].exit
             \/ Cardinality({j \in ServingPool' : j < i}) = pool.target
  <2>1. CASE i # next_row
    BY <1>1, <1>2, <1>5, <2>1 DEF ServingPoolIsDiverseAndFull
  <2>2. CASE i = next_row /\ pool.rows[i].exit \in seen_exit_ips
    BY <1>1, <1>2, <2>2 DEF LocalsDescribePool
  <2>3. CASE i = next_row /\ ~(serving_count < pool.target)
    <3>1. {j \in ServingPool' : j < i} = ServingPool
      BY <1>2, <2>3
    <3>2. Cardinality(ServingPool) = pool.target
      <4>1. Cardinality(ServingPool) \in Nat /\ Cardinality(ServingPool) <= pool.target
        BY <1>1, ServingPoolIsFinite DEF ServingPoolIsDiverseAndFull
      <4>2. ~(Cardinality(ServingPool) < pool.target)
        BY <1>1, <2>3 DEF LocalsDescribePool
      <4> QED
        BY <1>1, <4>1, <4>2
    <3> QED
      BY <3>1, <3>2
  <2> QED
    BY <1>1, <1>5, <2>1, <2>2, <2>3 DEF EntersServing
<1> QED
  BY <1>1, <1>2, <1>3, <1>4, <1>5 DEF ServingPoolIsDiverseAndFull, Healthy

LEMMA ServingStep == ServingInv /\ [PoolNext]_poolVars => ServingInv'
<1> SUFFICES ASSUME ServingInv, [PoolNext]_poolVars
             PROVE  LocalsDescribePool' /\ ServingPoolIsDiverseAndFull'
  BY PoolTypeStep DEF ServingInv
<1>1. CASE ClassifyRow
  BY <1>1, RowServes, RowDoesNotServe DEF ClassifyRow
<1>2. CASE UNCHANGED buildVars
  BY <1>2 DEF buildVars, ServingInv, LocalsDescribePool, ServingPoolIsDiverseAndFull,
              ServingPool, Instances, Healthy
<1> QED
  BY <1>1, <1>2 DEF PoolNext, poolVars, BeginSelection, ReadInstance, GrantLease,
                    SearchStandby, RefuseSelection, DropLease

LEMMA ServingInit == PoolInit => ServingInv
<1> SUFFICES ASSUME PoolInit PROVE LocalsDescribePool /\ ServingPoolIsDiverseAndFull
  BY PoolTypeInit DEF ServingInv
<1>1. ServingPool = {} /\ Cardinality({}) = 0
  BY FS_EmptySet DEF PoolInit, ServingPool
<1> QED
  BY <1>1, PoolShape
     DEF PoolInit, LocalsDescribePool, ServingPoolIsDiverseAndFull, Usable

(* from_instances: one instance per Exit IP serves, never more than the    *)
(* target, and a healthy instance stays out only for one of those reasons. *)
THEOREM ServingPoolDiverseAndFull == PoolSpec => []ServingPoolIsDiverseAndFull
<1>1. ServingInv => ServingPoolIsDiverseAndFull
  BY DEF ServingInv
<1> QED
  BY <1>1, ServingInit, ServingStep, PTL DEF PoolSpec

(* The loop of from_instances, at every row, has the Serving Pool that the *)
(* function has that ProbeCycle builds its pools with.                     *)
LoopComputesPass ==
  ServingPool = ServingUpTo(ServableExits, Len(pool.rows), pool.target)[next_row - 1]

PassInv == ServingInv /\ LoopComputesPass

LEMMA PassInit == PoolInit => PassInv
<1> SUFFICES ASSUME PoolInit PROVE LoopComputesPass
  BY ServingInit DEF PassInv
<1>1. ServingPool = {} /\ next_row - 1 = 0
  BY DEF PoolInit, ServingPool
<1>2. Len(pool.rows) \in Nat /\ pool.target \in Nat
  BY PoolShape DEF PoolInit
<1> QED
  BY <1>1, <1>2, ServingRecursion DEF LoopComputesPass

LEMMA RowIsPassed ==
  ASSUME PassInv, ClassifyRow
  PROVE  LoopComputesPass'
<1> DEFINE row == pool.rows[next_row]
           S   == ServingUpTo(ServableExits, Len(pool.rows), pool.target)
<1>1. /\ PoolTypeOK /\ LocalsDescribePool /\ next_row \in Instances
      /\ Len(pool.rows) \in Nat /\ pool.target \in Nat /\ next_row \in 1..Len(pool.rows)
      /\ UNCHANGED pool /\ next_row' = next_row + 1 /\ Instances' = Instances
      /\ membership \in [Instances -> Usable \cup {"Failed", "unclassified"}]
  BY PoolShape DEF PassInv, ServingInv, PoolTypeOK, ClassifyRow, Classify, Instances
<1>2. ServableExits' = ServableExits
  BY <1>1 DEF ServableExits, Healthy
<1>3. S[next_row] = Grown(ServableExits, pool.target, ServingPool, next_row)
  BY <1>1, ServingRecursion DEF PassInv, LoopComputesPass
<1>4. Enters(ServableExits, pool.target, ServingPool, next_row)
        <=> Healthy(row) /\ EntersServing(row)
  <2>1. \A i \in ServingPool : i \in Instances /\ Healthy(pool.rows[i])
    BY DEF PassInv, ServingInv, ServingPoolIsDiverseAndFull, ServingPool, Usable
  <2>2. \A i \in ServingPool : ServableExits[i] = pool.rows[i].exit
    BY <2>1 DEF ServableExits
  <2>3. Healthy(row) => ServableExits[next_row] = row.exit /\ row.exit # NoExit
    BY <1>1 DEF ServableExits, Healthy
  <2>4. ~Healthy(row) => ServableExits[next_row] = NoExit
    BY <1>1 DEF ServableExits
  <2>5. row.exit \notin seen_exit_ips <=> \A i \in ServingPool : pool.rows[i].exit # row.exit
    BY <1>1 DEF LocalsDescribePool
  <2>6. serving_count = Cardinality(ServingPool)
    BY <1>1 DEF LocalsDescribePool
  <2> HIDE DEF row
  <2> QED
    BY <2>2, <2>3, <2>4, <2>5, <2>6 DEF Enters, EntersServing
<1>5. ServingPool' = Grown(ServableExits, pool.target, ServingPool, next_row)
  <2>1. membership[next_row] = "unclassified"
    BY <1>1 DEF LocalsDescribePool
  <2>2. ServingPool' = {i \in Instances : membership'[i] = "Serving"}
    BY <1>1 DEF ServingPool
  <2>3. CASE Healthy(row) /\ EntersServing(row)
    <3>1. membership' = [membership EXCEPT ![next_row] = "Serving"]
      BY <2>3 DEF ClassifyRow, Classify
    <3>2. ServingPool' = ServingPool \cup {next_row}
      BY <1>1, <2>2, <3>1 DEF ServingPool
    <3> QED
      BY <1>4, <2>3, <3>2 DEF Grown
  <2>4. CASE ~(Healthy(row) /\ EntersServing(row))
    <3>1. PICK as \in {"Failed", "Standby"} : membership' = [membership EXCEPT ![next_row] = as]
      BY <2>4 DEF ClassifyRow, Classify
    <3>2. ServingPool' = ServingPool
      BY <1>1, <2>1, <2>2, <3>1 DEF ServingPool
    <3> QED
      BY <1>4, <2>4, <3>2 DEF Grown
  <2> QED
    BY <2>3, <2>4
<1>6. next_row' - 1 = next_row
  BY <1>1
<1> QED
  BY <1>1, <1>2, <1>3, <1>5, <1>6 DEF LoopComputesPass

LEMMA PassStep == PassInv /\ [PoolNext]_poolVars => PassInv'
<1> SUFFICES ASSUME PassInv, [PoolNext]_poolVars PROVE LoopComputesPass'
  BY ServingStep DEF PassInv
<1>1. CASE ClassifyRow
  BY <1>1, RowIsPassed
<1>2. CASE UNCHANGED buildVars
  BY <1>2 DEF buildVars, PassInv, LoopComputesPass, ServingPool, ServableExits, Instances, Healthy
<1> QED
  BY <1>1, <1>2 DEF PoolNext, poolVars, BeginSelection, ReadInstance, GrantLease,
                    SearchStandby, RefuseSelection, DropLease

(* The loop of from_instances, read row by row here and as one function in *)
(* ProbeCycle, is one algorithm: at every row the Serving Pools agree.     *)
THEOREM LoopsAgree == PoolSpec => []LoopComputesPass
<1>1. PassInv => LoopComputesPass
  BY DEF PassInv
<1> QED
  BY <1>1, PassInit, PassStep, PTL DEF PoolSpec

(* from_instances: the Serving Pool is diverse and within the target, a    *)
(* healthy instance stays out only for one of those reasons, and no other  *)
(* choice of instances is larger.                                          *)
THEOREM ServingPoolsAreBest == PoolSpec => []ServingPoolIsBest
<1>1. PassInv => ServingPoolIsBest
  <2> SUFFICES ASSUME PassInv, Built
               PROVE  Largest(ServableExits, pool.target, ServingPool, Instances)
    BY DEF PassInv, ServingInv, ServingPoolIsBest, ServingPoolIsLargest
  <2> DEFINE size == Len(pool.rows)
  <2>1. /\ size \in Nat /\ pool.target \in Nat /\ Instances = 1..size
        /\ next_row \in 1..(size + 1) /\ next_row \notin 1..size
    BY PoolShape DEF PassInv, ServingInv, PoolTypeOK, Built
  <2>2. next_row - 1 = size /\ size \in 0..size
    BY <2>1
  <2>3. ServingPool = ServingUpTo(ServableExits, size, pool.target)[size]
    BY <2>2 DEF PassInv, LoopComputesPass
  <2>4. ServesRightly(ServableExits, pool.target, ServingPool, size)
    BY <2>1, <2>2, <2>3, PassServesRightly
  <2> HIDE DEF size
  <2> QED
    BY <2>1, <2>4, RightIsLargest
<1> QED
  BY <1>1, PassInit, PassStep, PTL DEF PoolSpec

-----------------------------------------------------------------------------
(* Selections.  While one runs: the pool is built, the tier is the one of  *)
(* its route, or the Standby Pool after a fruitless first search; nothing  *)
(* was passed over while there is no candidate, and the candidate is one.  *)

TierFits ==
  \/ scan.tier = FirstTier(scan.route)
  \/ /\ scan.tier = {"Standby"} /\ scan.route.kind = "group"
     /\ pool.standby_fallback /\ InGroup(scan.route.value, "Serving") = {}

SearchState ==
  lock # NoHolder =>
    /\ Built
    /\ scan.route \in Routes
    /\ scan.start \in [Instances -> Nat]
    /\ TierFits
    /\ scan.best = NONE =>
         \A i \in Instances : i < scan.next => ~Candidate(scan.route, scan.tier, i)
    /\ scan.best # NONE => Candidate(scan.route, scan.tier, scan.best)

ScanInv == PoolTypeOK /\ SearchState /\ ScanWithinStart

LEMMA SelectionBegins ==
  ASSUME ScanInv, NEW h \in Holders, NEW route \in Routes, BeginSelection(h, route)
  PROVE  SearchState' /\ ScanWithinStart'
<1>1. /\ Instances' = Instances /\ Instances \subseteq Nat /\ UNCHANGED <<buildVars, active>>
      /\ Built /\ active \in [Instances -> Nat] /\ lock' = h
      /\ scan' = [route |-> route, tier |-> FirstTier(route), next |-> 1,
                  best |-> NONE, load |-> 0, start |-> active]
  BY PoolShape DEF ScanInv, PoolTypeOK, BeginSelection, buildVars, Instances
<1>2. SearchState'
  <2>1. \A i \in Instances : 1 <= i
    BY PoolShape DEF ScanInv, PoolTypeOK
  <2>2. TierFits' /\ Built'
    BY <1>1 DEF TierFits, Built, buildVars, FirstTier
  <2> QED
    BY <1>1, <2>1, <2>2 DEF SearchState
<1>3. ScanWithinStart'
  BY <1>1 DEF ScanWithinStart
<1> QED
  BY <1>2, <1>3

LEMMA InstanceRead ==
  ASSUME ScanInv, ReadInstance
  PROVE  SearchState' /\ ScanWithinStart'
<1> DEFINE n == scan.next
           Cand(i) == Candidate(scan.route, scan.tier, i)
<1>1. /\ n \in Instances /\ Instances \subseteq Nat /\ active \in [Instances -> Nat]
      /\ lock # NoHolder /\ NONE \notin Instances /\ scan.load \in Nat
      /\ UNCHANGED <<buildVars, active, lock>> /\ Instances' = Instances
      /\ SearchState /\ ScanWithinStart /\ scan.start \in [Instances -> Nat]
  <2>1. PoolTypeOK /\ SearchState /\ ScanWithinStart
    BY DEF ScanInv
  <2>2. /\ Instances \subseteq Nat /\ NONE \notin Instances
        /\ active \in [Instances -> Nat] /\ scan.load \in Nat
    BY <2>1, ScanType, PoolShape DEF PoolTypeOK
  <2>3. n \in Instances /\ lock # NoHolder /\ UNCHANGED <<buildVars, active, lock>>
    BY DEF ReadInstance
  <2>4. Instances' = Instances
    BY <2>3 DEF buildVars, Instances
  <2> QED
    BY <2>1, <2>2, <2>3, <2>4 DEF SearchState
<1>2. /\ scan'.route = scan.route /\ scan'.tier = scan.tier /\ scan'.start = scan.start
      /\ scan'.next = n + 1
      /\ IF Cand(n) /\ Better(active[n], scan.best, scan.load)
         THEN scan'.best = n /\ scan'.load = active[n]
         ELSE scan'.best = scan.best /\ scan'.load = scan.load
  BY DEF ReadInstance, ScanInv, PoolTypeOK
<1>3. \A i \in Instances : Candidate(scan.route, scan.tier, i)' <=> Cand(i)
  BY <1>1, <1>2 DEF Candidate, Matches, buildVars
<1>4. TierFits' /\ Built'
  BY <1>1, <1>2 DEF SearchState, TierFits, InGroup, Built, buildVars, FirstTier
<1>5. \A i \in Instances : i < n + 1 => i < n \/ i = n
  <2> SUFFICES ASSUME NEW i \in Instances, i < n + 1 PROVE i < n \/ i = n
    OBVIOUS
  <2>1. i \in 1..Len(pool.rows) /\ scan.next \in 1..(Len(pool.rows) + 1)
    BY ScanType, PoolShape DEF ScanInv, PoolTypeOK
  <2> QED
    BY <2>1
<1>6. CASE Cand(n) /\ Better(active[n], scan.best, scan.load)
  <2>1. SearchState'
    BY <1>1, <1>2, <1>3, <1>4, <1>6 DEF SearchState
  <2>2. ASSUME NEW i \in Instances, i < n + 1, Cand(i) PROVE active[n] <= scan.start[i]
    <3>1. active[n] \in Nat /\ scan.start[i] \in Nat /\ active[n] <= scan.start[n]
      BY <1>1 DEF ScanWithinStart
    <3>2. CASE i = n
      BY <3>1, <3>2
    <3>3. CASE i < n
      BY <1>1, <1>6, <2>2, <3>1, <3>3 DEF Better, SearchState, ScanWithinStart
    <3> QED
      BY <1>5, <2>2, <3>2, <3>3
  <2>3. active[n] <= active[n]
    <3>1. active[n] \in Nat
      BY <1>1 DEF ScanInv, PoolTypeOK
    <3> QED
      BY <3>1
  <2> QED
    BY <1>1, <1>2, <1>3, <1>6, <2>1, <2>2, <2>3 DEF ScanWithinStart
<1>7. CASE ~(Cand(n) /\ Better(active[n], scan.best, scan.load))
  <2>1. scan.best = NONE => ~Cand(n)
    BY <1>7 DEF Better
  <2>2. SearchState'
    <3>1. scan.best = NONE => \A i \in Instances : i < n + 1 => ~Cand(i)
      BY <1>1, <1>5, <2>1 DEF SearchState
    <3>2. scan.best # NONE => Cand(scan.best) /\ scan.best \in Instances
      BY <1>1, ScanType DEF SearchState, ScanInv
    <3> QED
      BY <1>1, <1>2, <1>3, <1>4, <1>7, <3>1, <3>2 DEF SearchState
  <2>3. ASSUME scan.best # NONE, NEW i \in Instances, i < n + 1, Cand(i)
        PROVE  scan.load <= scan.start[i]
    <3>1. active[n] \in Nat /\ scan.start[i] \in Nat /\ active[n] <= scan.start[n]
      BY <1>1 DEF ScanWithinStart
    <3>2. CASE i = n
      BY <1>1, <1>7, <2>3, <3>1, <3>2 DEF Better
    <3>3. CASE i < n
      BY <1>1, <2>3, <3>3 DEF ScanWithinStart
    <3> QED
      BY <1>5, <2>3, <3>2, <3>3
  <2> QED
    BY <1>1, <1>2, <1>3, <1>7, <2>2, <2>3 DEF ScanWithinStart
<1> QED
  BY <1>6, <1>7

LEMMA StandbySearched ==
  ASSUME ScanInv, SearchStandby
  PROVE  SearchState' /\ ScanWithinStart'
<1>1. /\ Instances = 1..Len(pool.rows) /\ Instances' = Instances
      /\ UNCHANGED <<buildVars, active, lock>>
      /\ scan'.route = scan.route /\ scan'.start = scan.start /\ scan'.best = NONE
      /\ scan'.next = 1 /\ scan'.tier = {"Standby"}
      /\ SearchState /\ ScanWithinStart /\ lock # NoHolder
      /\ scan.next \in 1..(Len(pool.rows) + 1) /\ scan.next \notin Instances
      /\ Len(pool.rows) \in Nat
  <2>1. PoolTypeOK /\ SearchState /\ ScanWithinStart
    BY DEF ScanInv
  <2>2. /\ Instances = 1..Len(pool.rows) /\ Len(pool.rows) \in Nat
        /\ scan.next \in 1..(Len(pool.rows) + 1)
    BY <2>1, ScanType, PoolShape DEF PoolTypeOK
  <2>3. /\ lock # NoHolder /\ scan.next \notin Instances
        /\ UNCHANGED <<buildVars, active, lock>>
    BY DEF SearchStandby, SearchEnded
  <2>4. Instances' = Instances
    BY <2>3 DEF buildVars, Instances
  <2>5. /\ scan'.route = scan.route /\ scan'.start = scan.start /\ scan'.best = NONE
        /\ scan'.next = 1 /\ scan'.tier = {"Standby"}
    BY <2>1, ScanType DEF SearchStandby
  <2> QED
    BY <2>1, <2>2, <2>3, <2>4, <2>5
<1>2. \A i \in Instances : i < scan.next /\ ~(i < 1)
  BY <1>1
<1>3. InGroup(scan.route.value, "Serving") = {}
  <2>1. \A i \in Instances : ~Candidate(scan.route, {"Serving"}, i)
    BY <1>1, <1>2 DEF SearchState, SearchStandby, MayFallBack
  <2> QED
    BY <2>1 DEF Candidate, Matches, SearchStandby, MayFallBack, InGroup
<1>4. TierFits' /\ Built'
  BY <1>1, <1>3 DEF TierFits, SearchStandby, MayFallBack, SearchState, Built, InGroup, buildVars
<1>5. SearchState'
  BY <1>1, <1>2, <1>4 DEF SearchState
<1> QED
  BY <1>1, <1>5 DEF ScanWithinStart

LEMMA LoadFalls ==
  ASSUME ScanInv, NEW h \in Holders, DropLease(h)
  PROVE  SearchState' /\ ScanWithinStart'
<1>1. /\ UNCHANGED <<buildVars, lock, scan>> /\ Instances' = Instances
      /\ active \in [Instances -> Nat] /\ active' \in [Instances -> Nat]
      /\ \A i \in Instances : active'[i] <= active[i]
      /\ NONE \notin Instances /\ scan.load \in Nat
      /\ scan.best \in Instances \cup {NONE}
  BY PoolShape, ScanType
     DEF ScanInv, PoolTypeOK, DropLease, Released, buildVars, Instances
<1>2. SearchState'
  BY <1>1 DEF ScanInv, SearchState, TierFits, Built, InGroup, FirstTier, Candidate, Matches,
              buildVars
<1>3. ASSUME lock # NoHolder, NEW i \in Instances PROVE active'[i] <= scan.start[i]
  BY <1>1, <1>3 DEF ScanInv, ScanWithinStart, SearchState
<1>4. ASSUME lock # NoHolder, scan.best # NONE PROVE active'[scan.best] <= scan.load
  BY <1>1, <1>4 DEF ScanInv, ScanWithinStart
<1> QED
  BY <1>1, <1>2, <1>3, <1>4
     DEF ScanInv, ScanWithinStart, Candidate, Matches, buildVars

LEMMA ScanStep == ScanInv /\ [PoolNext]_poolVars => ScanInv'
<1> SUFFICES ASSUME ScanInv, [PoolNext]_poolVars
             PROVE  SearchState' /\ ScanWithinStart'
  BY PoolTypeStep DEF ScanInv
<1>1. CASE ClassifyRow
  <2>1. lock' = NoHolder
    BY <1>1 DEF ClassifyRow, Classify, ScanInv, SearchState, Built
  <2> QED
    BY <2>1 DEF SearchState, ScanWithinStart
<1>2. CASE GrantLease \/ RefuseSelection
  BY <1>2 DEF GrantLease, RefuseSelection, SearchState, ScanWithinStart
<1>3. CASE UNCHANGED poolVars
  BY <1>3 DEF poolVars, buildVars, ScanInv, SearchState, ScanWithinStart, TierFits, Built,
              InGroup, FirstTier, Candidate, Matches, Instances
<1> QED
  BY <1>1, <1>2, <1>3, SelectionBegins, InstanceRead, StandbySearched, LoadFalls DEF PoolNext

LEMMA ScanInit == PoolInit => ScanInv
  BY PoolTypeInit DEF PoolInit, ScanInv, SearchState, ScanWithinStart

LEMMA ScanInvariant == PoolSpec => []ScanInv
  BY ScanInit, ScanStep, PTL DEF PoolSpec

(* During a selection the loads only fall and the candidate is the least   *)
(* loaded of what was read (best_candidate under the mutex of the pool).   *)
THEOREM ScanStaysWithinStart == PoolSpec => []ScanWithinStart
<1>1. ScanInv => ScanWithinStart
  BY DEF ScanInv
<1> QED
  BY <1>1, ScanInvariant, PTL

(* Only a grant or a refusal ends a selection.                             *)
LEMMA HowSelectionsEnd ==
  ASSUME PoolTypeOK, [PoolNext]_poolVars, SelectionEnds
  PROVE  GrantLease \/ RefuseSelection
  BY PoolAssumption
     DEF SelectionEnds, PoolNext, poolVars, ClassifyRow, Classify, BeginSelection,
         ReadInstance, SearchStandby, DropLease

(* When a search has ended every instance was passed.                      *)
LEMMA AllPassed ==
  ASSUME PoolTypeOK, SearchEnded
  PROVE  \A i \in Instances : i < scan.next
  BY PoolShape, ScanType DEF PoolTypeOK, SearchEnded

(* An automatic, id, exit or group selection that grants an instance       *)
(* grants one that was no busier than any other candidate was when the     *)
(* selection took the mutex of the pool.                                   *)
THEOREM GrantsAreLeastLoaded == PoolSpec => GrantIsLeastLoaded
<1> DEFINE LeastLoaded ==
      SelectionEnds /\ lease'[lock] # NONE =>
        \A i \in Instances :
          Candidate(scan.route, scan.tier, i) => active[lease'[lock]] <= scan.start[i]
<1>1. LeaseInv /\ ScanInv /\ [PoolNext]_poolVars => LeastLoaded
  <2> SUFFICES ASSUME LeaseInv, ScanInv, [PoolNext]_poolVars, SelectionEnds,
                      lease'[lock] # NONE,
                      NEW i \in Instances, Candidate(scan.route, scan.tier, i)
               PROVE  active[lease'[lock]] <= scan.start[i]
    OBVIOUS
  <2>1. /\ lock \in Holders /\ lock # NoHolder /\ lease[lock] = NONE
        /\ lease \in [Holders -> Instances \cup {NONE}]
        /\ active \in [Instances -> Nat] /\ scan.start \in [Instances -> Nat]
        /\ scan.load \in Nat /\ scan.best \in Instances \cup {NONE}
    BY ScanType DEF LeaseInv, ScanInv, SearchState, SelectionEnds, SelectingHoldsNone, PoolTypeOK
  <2>2. GrantLease
    BY <2>1, HowSelectionsEnd DEF ScanInv, RefuseSelection
  <2>3. lease'[lock] = scan.best /\ scan.best \in Instances /\ i < scan.next
    BY <2>1, <2>2, AllPassed DEF GrantLease, ScanInv
  <2>4. active[scan.best] <= scan.load /\ scan.load <= scan.start[i]
    BY <2>1, <2>2, <2>3 DEF ScanInv, ScanWithinStart, GrantLease
  <2> QED
    BY <2>1, <2>3, <2>4
<1> QED
  BY <1>1, LeaseInit, LeaseStep, ScanInit, ScanStep, PTL DEF PoolSpec, GrantIsLeastLoaded

(* A candidate displaced all before it by a smaller load.                  *)
FirstOfEquals ==
  lock # NoHolder /\ scan.best # NONE =>
    \A i \in Instances :
      i < scan.best /\ Candidate(scan.route, scan.tier, i) => scan.load < scan.start[i]

LEMMA FirstOfEqualsRead ==
  ASSUME ScanInv, FirstOfEquals, ReadInstance
  PROVE  FirstOfEquals'
<1> DEFINE n == scan.next
           Cand(i) == Candidate(scan.route, scan.tier, i)
<1>1. /\ n \in Instances /\ lock # NoHolder /\ active \in [Instances -> Nat]
      /\ scan.load \in Nat /\ scan.start \in [Instances -> Nat]
      /\ UNCHANGED <<buildVars, active, lock>> /\ Instances' = Instances
      /\ SearchState /\ ScanWithinStart
  BY ScanType DEF ScanInv, PoolTypeOK, SearchState, ReadInstance, buildVars, Instances
<1>2. /\ scan'.route = scan.route /\ scan'.tier = scan.tier /\ scan'.start = scan.start
      /\ IF Cand(n) /\ Better(active[n], scan.best, scan.load)
         THEN scan'.best = n /\ scan'.load = active[n]
         ELSE scan'.best = scan.best /\ scan'.load = scan.load
  BY DEF ReadInstance, ScanInv, PoolTypeOK
<1>3. \A i \in Instances : Candidate(scan.route, scan.tier, i)' <=> Cand(i)
  BY <1>1, <1>2 DEF Candidate, Matches, buildVars
<1>4. CASE Cand(n) /\ Better(active[n], scan.best, scan.load)
  <2>1. ASSUME NEW i \in Instances, i < n, Cand(i) PROVE active[n] < scan.start[i]
    <3>1. scan.best # NONE /\ scan.load <= scan.start[i]
      BY <1>1, <2>1 DEF SearchState, ScanWithinStart
    <3>2. active[n] < scan.load
      BY <1>4, <3>1 DEF Better
    <3>3. active[n] \in Nat /\ scan.start[i] \in Nat
      BY <1>1
    <3> QED
      BY <1>1, <3>1, <3>2, <3>3
  <2> QED
    BY <1>1, <1>2, <1>3, <1>4, <2>1 DEF FirstOfEquals
<1>5. CASE ~(Cand(n) /\ Better(active[n], scan.best, scan.load))
  BY <1>1, <1>2, <1>3, <1>5 DEF FirstOfEquals
<1> QED
  BY <1>4, <1>5

LEMMA FirstOfEqualsStep ==
  ScanInv /\ FirstOfEquals /\ [PoolNext]_poolVars => FirstOfEquals'
<1> SUFFICES ASSUME ScanInv, FirstOfEquals, [PoolNext]_poolVars PROVE FirstOfEquals'
  OBVIOUS
<1>1. CASE ClassifyRow
  BY <1>1 DEF ClassifyRow, Classify, ScanInv, SearchState, Built, FirstOfEquals
<1>2. CASE \E h \in Holders, route \in Routes : BeginSelection(h, route)
  BY <1>2 DEF BeginSelection, FirstOfEquals
<1>3. CASE SearchStandby
  <2>1. scan'.best = NONE
    BY <1>3 DEF SearchStandby, ScanInv, PoolTypeOK
  <2> QED
    BY <2>1 DEF FirstOfEquals
<1>4. CASE GrantLease \/ RefuseSelection
  BY <1>4 DEF GrantLease, RefuseSelection, FirstOfEquals
<1>5. CASE (\E h \in Holders : DropLease(h)) \/ UNCHANGED poolVars
  BY <1>5 DEF DropLease, poolVars, buildVars, FirstOfEquals, Candidate, Matches, Instances
<1> QED
  BY <1>1, <1>2, <1>3, <1>4, <1>5, FirstOfEqualsRead DEF PoolNext

(* What RoundRobinBreaksTies is violated by: min_by_key over the pairs of  *)
(* active_connections and sequence grants an instance only when every      *)
(* candidate before it was busier, so ties always go to the first.         *)
THEOREM TiesAreBrokenByPosition == PoolSpec => TiesGoToTheFirst
<1>1. ASSUME LeaseInv, ScanInv, FirstOfEquals, [PoolNext]_poolVars, SelectionEnds,
             lease'[lock] # NONE,
             NEW i \in Instances, i < lease'[lock], Candidate(scan.route, scan.tier, i)
      PROVE  active[lease'[lock]] < scan.start[i]
  <2>1. /\ lock \in Holders /\ lock # NoHolder /\ lease[lock] = NONE
        /\ lease \in [Holders -> Instances \cup {NONE}]
        /\ active \in [Instances -> Nat] /\ scan.start \in [Instances -> Nat]
        /\ scan.load \in Nat /\ scan.best \in Instances \cup {NONE}
    BY <1>1, ScanType
       DEF LeaseInv, ScanInv, SearchState, SelectionEnds, SelectingHoldsNone, PoolTypeOK
  <2>2. GrantLease
    BY <1>1, <2>1, HowSelectionsEnd DEF ScanInv, RefuseSelection
  <2>3. lease'[lock] = scan.best /\ scan.best \in Instances
    BY <2>1, <2>2 DEF GrantLease
  <2>4. active[scan.best] <= scan.load /\ scan.load < scan.start[i]
    BY <1>1, <2>1, <2>2, <2>3 DEF ScanInv, ScanWithinStart, GrantLease, FirstOfEquals
  <2>5. active[scan.best] \in Nat /\ scan.start[i] \in Nat
    BY <2>1, <2>3
  <2> QED
    BY <2>1, <2>3, <2>4, <2>5
<1>2. LeaseInv /\ ScanInv /\ FirstOfEquals /\ [PoolNext]_poolVars =>
        [SelectionEnds /\ lease'[lock] # NONE =>
           \A i \in Instances :
             i < lease'[lock] /\ Candidate(scan.route, scan.tier, i) =>
               active[lease'[lock]] < scan.start[i]]_poolVars
  BY <1>1
<1>3. PoolInit => FirstOfEquals
  BY DEF PoolInit, FirstOfEquals
<1> QED
  BY <1>2, <1>3, FirstOfEqualsStep, LeaseInvariant, ScanInvariant, PTL
     DEF PoolSpec, TiesGoToTheFirst

(* What a finished search may grant and what it may refuse.                *)
LEMMA SearchEntitled ==
  ASSUME ScanInv, SearchEnded
  PROVE  /\ scan.best # NONE => scan.best \in Entitled(scan.route)
         /\ scan.best = NONE /\ ~MayFallBack => Entitled(scan.route) = {}
<1>1. /\ SearchState /\ lock # NoHolder /\ PoolTypeOK /\ scan.route \in Route
      /\ scan.best \in Instances \cup {NONE}
  BY ScanType, PoolAssumption DEF ScanInv, SearchEnded, SearchState
<1>2. scan.best = NONE => \A i \in Instances : ~Candidate(scan.route, scan.tier, i)
  BY <1>1, AllPassed DEF SearchState
<1>3. scan.best # NONE => Candidate(scan.route, scan.tier, scan.best)
  BY <1>1 DEF SearchState
<1>4. TierFits
  BY <1>1 DEF SearchState
<1>5. scan.route.kind \in {"auto", "id", "exit", "group"}
  BY <1>1 DEF Route
<1> USE DEF Candidate, Matches, Entitled, ServingPool, InGroup, TierFits, FirstTier, Usable
<1>6. CASE scan.route.kind = "auto"
  BY <1>1, <1>2, <1>3, <1>4, <1>6 DEF MayFallBack
<1>7. CASE scan.route.kind = "id"
  BY <1>1, <1>2, <1>3, <1>4, <1>7 DEF MayFallBack
<1>8. CASE scan.route.kind = "exit"
  BY <1>1, <1>2, <1>3, <1>4, <1>8 DEF MayFallBack
<1>9. CASE scan.route.kind = "group"
  BY <1>1, <1>2, <1>3, <1>4, <1>9 DEF MayFallBack
<1> QED
  BY <1>5, <1>6, <1>7, <1>8, <1>9

(* A selection ends with an instance of its route, or there is none.       *)
LEMMA SelectionHonoured ==
  ASSUME LeaseInv, ScanInv, [PoolNext]_poolVars, SelectionEnds
  PROVE  IF lease'[lock] # NONE
         THEN lease'[lock] \in Entitled(scan.route)
         ELSE Entitled(scan.route) = {}
<1>1. /\ lock \in Holders /\ lease[lock] = NONE /\ lease \in [Holders -> Instances \cup {NONE}]
  BY DEF LeaseInv, SelectionEnds, SelectingHoldsNone, PoolTypeOK
<1>2. CASE GrantLease
  <2>1. lease'[lock] = scan.best /\ scan.best # NONE /\ SearchEnded
    BY <1>1, <1>2 DEF GrantLease
  <2> QED
    BY <2>1, SearchEntitled
<1>3. CASE RefuseSelection
  <2>1. lease'[lock] = NONE /\ scan.best = NONE /\ SearchEnded /\ ~MayFallBack
    BY <1>1, <1>3 DEF RefuseSelection
  <2> QED
    BY <2>1, SearchEntitled
<1> QED
  BY <1>2, <1>3, HowSelectionsEnd DEF ScanInv

(* A selection is honoured or refused, never diverted: schedule_auto and   *)
(* select_instance for any pool, route and interleaving with drops.        *)
THEOREM SelectionsHonourRoutes == PoolSpec => SelectionHonoursRoute
<1>1. LeaseInv /\ ScanInv /\ [PoolNext]_poolVars =>
        (SelectionEnds => IF lease'[lock] # NONE
                          THEN lease'[lock] \in Entitled(scan.route)
                          ELSE Entitled(scan.route) = {})
  BY SelectionHonoured
<1> QED
  BY <1>1, LeaseInit, LeaseStep, ScanInit, ScanStep, PTL DEF PoolSpec, SelectionHonoursRoute

(* schedule_auto refuses a client exactly when ProxyPool::status reports   *)
(* the pool Unavailable, whatever the target and the rows.                 *)
THEOREM RefusalsMeanUnavailable == PoolSpec => RefusedOnlyWhenUnavailable
<1>1. ASSUME LeaseInv, ScanInv, [PoolNext]_poolVars, SelectionEnds, scan.route.kind = "auto"
      PROVE  lease'[lock] = NONE <=> readiness = "Unavailable"
  <2>1. IsFiniteSet(ServingPool) /\ Cardinality(ServingPool) \in Nat
    BY <1>1, ServingPoolIsFinite DEF ScanInv
  <2>2. readiness = "Unavailable" <=> Cardinality(ServingPool) = 0
    BY <2>1 DEF readiness
  <2>3. Cardinality(ServingPool) = 0 <=> ServingPool = {}
    BY <2>1, FS_EmptySet
  <2>4. Entitled(scan.route) = ServingPool
    BY <1>1 DEF Entitled
  <2>5. IF lease'[lock] # NONE THEN lease'[lock] \in ServingPool ELSE ServingPool = {}
    BY <1>1, <2>4, SelectionHonoured
  <2> QED
    BY <2>2, <2>3, <2>5
<1>2. LeaseInv /\ ScanInv /\ [PoolNext]_poolVars =>
        (SelectionEnds /\ scan.route.kind = "auto" =>
           (lease'[lock] = NONE <=> readiness = "Unavailable"))
  BY <1>1
<1> QED
  BY <1>2, LeaseInit, LeaseStep, ScanInit, ScanStep, PTL DEF PoolSpec, RefusedOnlyWhenUnavailable

-----------------------------------------------------------------------------
(* A selection is over after finitely many reads.                          *)

Left(rows, next, again) == (rows + 1 - next) + (IF again THEN rows + 1 ELSE 0)

LEMMA ReadingLeavesLess ==
  ASSUME NEW rows \in Nat, NEW next \in 1..rows, NEW again \in BOOLEAN
  PROVE  Left(rows, next + 1, again) < Left(rows, next, again)
  BY DEF Left

LEMMA SearchingAgainLeavesLess ==
  ASSUME NEW rows \in Nat
  PROVE  Left(rows, 1, FALSE) < Left(rows, rows + 1, TRUE)
  BY DEF Left

LEMMA LeftIsLeft ==
  /\ AccessesLeft = Left(Len(pool.rows), scan.next, MayFallBack)
  /\ AccessesLeft' = Left(Len(pool.rows)', scan'.next, MayFallBack')
  BY DEF AccessesLeft, Left

(* Under the mutex of the pool a selection reads every instance once, and  *)
(* once more in the second search of a group: it is over after finitely    *)
(* many steps of its own, for any rows, whatever leases are dropped        *)
(* meanwhile (select_instance and best_candidate; nobody waits under it).  *)
THEOREM SelectionsRunOut == PoolSpec => SelectionRunsOut
<1>1. ASSUME ScanInv, [PoolNext]_poolVars, poolVars' # poolVars, lock # NoHolder,
             ~(\E h \in Holders : DropLease(h))
      PROVE  lock' = NoHolder \/ (lock' = lock /\ AccessesLeft' < AccessesLeft)
  <2> DEFINE n == Len(pool.rows)
  <2>1. /\ n \in Nat /\ Instances = 1..n /\ scan.next \in 1..(n + 1) /\ Built
        /\ scan.best \in Instances \cup {NONE} /\ MayFallBack \in BOOLEAN
    BY <1>1, PoolShape, ScanType DEF ScanInv, PoolTypeOK, SearchState, MayFallBack
  <2>2. /\ scan = [route |-> scan.route, tier |-> scan.tier, next |-> scan.next,
                   best |-> scan.best, load |-> scan.load, start |-> scan.start]
    BY <1>1 DEF ScanInv, PoolTypeOK
  <2>3. CASE ReadInstance
    <3>1. lock' = lock /\ pool' = pool /\ scan.next \in 1..n
      BY <2>1, <2>3 DEF ReadInstance, buildVars
    <3>2. /\ scan'.next = scan.next + 1
          /\ scan'.route = scan.route /\ scan'.tier = scan.tier
      BY <2>2, <2>3 DEF ReadInstance
    <3>3. MayFallBack' = MayFallBack
      BY <3>1, <3>2 DEF MayFallBack
    <3>4. AccessesLeft' = Left(n, scan.next + 1, MayFallBack)
      BY <3>1, <3>2, <3>3, LeftIsLeft
    <3> QED
      BY <2>1, <3>1, <3>4, ReadingLeavesLess, LeftIsLeft
  <2>4. CASE SearchStandby
    <3>1. /\ lock' = lock /\ pool' = pool /\ MayFallBack = TRUE
          /\ scan.next = n + 1
      BY <2>1, <2>4 DEF SearchStandby, SearchEnded, buildVars, MayFallBack
    <3>2. scan'.next = 1 /\ scan'.tier = {"Standby"}
      BY <2>2, <2>4 DEF SearchStandby
    <3>3. MayFallBack' = FALSE
      <4>1. "Serving" \notin scan'.tier
        BY <3>2
      <4> QED
        BY <4>1 DEF MayFallBack
    <3>4. AccessesLeft' = Left(n, 1, FALSE) /\ AccessesLeft = Left(n, n + 1, TRUE)
      BY <3>1, <3>2, <3>3, LeftIsLeft
    <3> QED
      BY <2>1, <3>1, <3>4, SearchingAgainLeavesLess
  <2>5. CASE GrantLease \/ RefuseSelection
    BY <2>5 DEF GrantLease, RefuseSelection
  <2>6. ~ClassifyRow /\ ~(\E h \in Holders, route \in Routes : BeginSelection(h, route))
    BY <1>1, <2>1 DEF ClassifyRow, BeginSelection, Built
  <2> QED
    BY <1>1, <2>3, <2>4, <2>5, <2>6 DEF PoolNext
<1>2. ScanInv /\ [PoolNext]_poolVars =>
        [lock # NoHolder /\ ~(\E h \in Holders : DropLease(h)) =>
           \/ lock' = NoHolder
           \/ lock' = lock /\ AccessesLeft' < AccessesLeft]_poolVars
  BY <1>1
<1> QED
  BY <1>2, ScanInit, ScanStep, PTL DEF PoolSpec, SelectionRunsOut

=============================================================================
