----------------------------- MODULE ProxyPool -----------------------------
(***************************************************************************)
(* The Proxy Pool of src/pool.rs: how the stored WARP Instances are put in *)
(* the Serving and the Standby Pool, how an instance is selected for a     *)
(* connection, and the connection leases that count the connections of an  *)
(* instance.                                                               *)
(*                                                                         *)
(* A selection runs under the mutex of the whole pool (`lock'), a lease is *)
(* dropped under the mutex of its instance only: drops happen between two  *)
(* reads of a selection, so a selection is modelled read by read.          *)
(*                                                                         *)
(* An instance is its position in the list the pool was built from, which  *)
(* is the field `sequence' of the code; 0 stands for "no instance".  The   *)
(* Exit IP of a row that was never probed (None) is NoExit.                *)
(***************************************************************************)
EXTENDS Classification, Sequences

CONSTANTS
  Holders,    \* what holds leases: the connection handlers
  NoHolder,   \* the value of the pool mutex that nobody holds
  Pools,      \* the pools to consider: [rows, target, standby_fallback]
  Exits,      \* the Exit IPs
  Groups,     \* the instance groups
  Routes      \* the routes a holder may ask for

NONE == 0

Row  == [enabled : BOOLEAN, exit : Exits \cup {NoExit}, group : Groups]
Pool == [rows : Seq(Row), target : Nat, standby_fallback : BOOLEAN]

(* ProxyRoute and InstanceSelector.  An instance identity is a position:   *)
(* identities are the primary key of the store.                            *)
Route ==      [kind : {"auto"}]
         \cup [kind : {"id"}, value : Nat]
         \cup [kind : {"exit"}, value : Exits]
         \cup [kind : {"group"}, value : Groups]

ASSUME PoolAssumption ==
  /\ IsFiniteSet(Holders)
  /\ NoHolder \notin Holders
  /\ NoExit \notin Exits
  /\ Pools \subseteq Pool
  /\ Routes \subseteq Route

VARIABLES
  pool,           \* configuration and rows, never changed
  next_row,       \* the row from_instances classifies next
  seen_exit_ips,  \* its local: the Exit IPs that serve already
  serving_count,  \* its local: how many rows serve already
  membership,     \* pool_membership of every instance
  active,         \* active_connections of every instance
  lease,          \* the instance a holder has a ConnectionLease on, or NONE
  lock,           \* who holds the mutex of the pool
  scan            \* the locals of the selection that runs under the mutex

buildVars == <<pool, next_row, seen_exit_ips, serving_count, membership>>
poolVars  == <<buildVars, active, lease, lock, scan>>

Instances == DOMAIN pool.rows
Usable    == {"Serving", "Standby"}

-----------------------------------------------------------------------------
(* from_instances: its loop, one row a step.  The pool is shared with the  *)
(* handlers when the loop is done and is never built again.                *)

(* `serving_count < target && seen_exit_ips.insert(exit)', and a mutant    *)
(* that forgets the Exit IPs already seen.                                 *)
EntersServingUnseen(row) == serving_count < pool.target

EntersServing(row) ==
  /\ serving_count < pool.target
  /\ row.exit \notin seen_exit_ips

Healthy(row) == row.enabled /\ row.exit # NoExit

Classify(i, as) ==
  /\ membership' = [membership EXCEPT ![i] = as]
  /\ next_row' = i + 1
  /\ UNCHANGED <<pool, active, lease, lock, scan>>

ClassifyRow ==
  /\ next_row \in Instances
  /\ LET row == pool.rows[next_row] IN
     \/ /\ ~Healthy(row)
        /\ Classify(next_row, "Failed")
        /\ UNCHANGED <<seen_exit_ips, serving_count>>
     \/ /\ Healthy(row) /\ EntersServing(row)
        /\ Classify(next_row, "Serving")
        /\ seen_exit_ips' = seen_exit_ips \cup {row.exit}
        /\ serving_count' = serving_count + 1
     \/ /\ Healthy(row) /\ ~EntersServing(row)
        /\ Classify(next_row, "Standby")
        /\ UNCHANGED <<seen_exit_ips, serving_count>>

Built == next_row \notin Instances

(* status: the size of the Serving Pool and the readiness it gives; the    *)
(* mutant is ready, or it is not.                                          *)
ServingPool == {i \in Instances : membership[i] = "Serving"}

readinessOrNot == IF Cardinality(ServingPool) < pool.target THEN "Unavailable" ELSE "Ready"

readiness ==
  CASE Cardinality(ServingPool) = 0 -> "Unavailable"
    [] Cardinality(ServingPool) \in 1..(pool.target - 1) -> "Degraded"
    [] OTHER -> "Ready"

-----------------------------------------------------------------------------
(* Selection: schedule_auto, select_instance and best_candidate.           *)

(* The memberships the first search of a route looks at; the mutant lets   *)
(* every route look at the Standby Pool.                                   *)
FirstTierWide(route) == Usable

FirstTier(route) == IF route.kind \in {"auto", "group"} THEN {"Serving"} ELSE Usable

(* The predicates handed to `find' and to `best_candidate'.                *)
Matches(route, i) ==
  CASE route.kind = "auto"  -> TRUE
    [] route.kind = "id"    -> i = route.value
    [] route.kind = "exit"  -> pool.rows[i].exit = route.value
    [] route.kind = "group" -> pool.rows[i].group = route.value

Candidate(route, tier, i) == membership[i] \in tier /\ Matches(route, i)

(* min_by_key over (active_connections, sequence), read in the order of    *)
(* `sequence': a later instance wins only when it is strictly less loaded. *)
(* The mutant prefers the busier one.                                      *)
BetterBusier(load, best, bestLoad) == best = NONE \/ load > bestLoad

Better(load, best, bestLoad) == best = NONE \/ load < bestLoad

NoScan == [route |-> [kind |-> "auto"], tier |-> {}, next |-> 1, best |-> NONE,
           load |-> 0, start |-> <<>>]

(* A holder takes the mutex of the pool and starts the search of a route.  *)
(* `start' is a history field: the loads when the mutex was taken.         *)
BeginSelection(h, route) ==
  /\ Built
  /\ lock = NoHolder
  /\ lease[h] = NONE
  /\ lock' = h
  /\ scan' = [route |-> route, tier |-> FirstTier(route), next |-> 1,
              best |-> NONE, load |-> 0, start |-> active]
  /\ UNCHANGED <<buildVars, active, lease>>

(* The search locks the next instance and reads its load.                  *)
ReadInstance ==
  /\ lock # NoHolder
  /\ scan.next \in Instances
  /\ scan' = IF /\ Candidate(scan.route, scan.tier, scan.next)
                /\ Better(active[scan.next], scan.best, scan.load)
             THEN [scan EXCEPT !.next = @ + 1, !.best = scan.next,
                               !.load = active[scan.next]]
             ELSE [scan EXCEPT !.next = @ + 1]
  /\ UNCHANGED <<buildVars, active, lease, lock>>

SearchEnded == lock # NoHolder /\ scan.next \notin Instances

(* ConnectionLease::new on what the search found, and the mutex is freed;  *)
(* the mutant forgets the mutex.                                           *)
GrantLeaseLocked ==
  /\ SearchEnded
  /\ scan.best # NONE
  /\ active' = [active EXCEPT ![scan.best] = @ + 1]
  /\ lease' = [lease EXCEPT ![lock] = scan.best]
  /\ UNCHANGED <<buildVars, lock, scan>>

GrantLease ==
  /\ SearchEnded
  /\ scan.best # NONE
  /\ active' = [active EXCEPT ![scan.best] = @ + 1]
  /\ lease' = [lease EXCEPT ![lock] = scan.best]
  /\ lock' = NoHolder
  /\ scan' = NoScan
  /\ UNCHANGED buildVars

(* The second search of a group selector, under standby_fallback only.     *)
MayFallBack ==
  scan.route.kind = "group" /\ scan.tier = {"Serving"} /\ pool.standby_fallback

SearchStandby ==
  /\ SearchEnded
  /\ scan.best = NONE
  /\ MayFallBack
  /\ scan' = [scan EXCEPT !.tier = {"Standby"}, !.next = 1]
  /\ UNCHANGED <<buildVars, active, lease, lock>>

(* The ScheduleError of the route: nothing was found.                      *)
RefuseSelection ==
  /\ SearchEnded
  /\ scan.best = NONE
  /\ ~MayFallBack
  /\ lock' = NoHolder
  /\ scan' = NoScan
  /\ UNCHANGED <<buildVars, active, lease>>

(* saturating_sub(1) in ConnectionLease::drop; the mutants forget it, and  *)
(* subtract twice without saturating.                                      *)
ReleasedNever(load) == load

ReleasedTwice(load) == load - 2

Released(load) == IF load > 0 THEN load - 1 ELSE 0

(* ConnectionLease::drop: under the mutex of the instance, whoever holds   *)
(* the mutex of the pool.                                                  *)
DropLease(h) ==
  /\ lease[h] # NONE
  /\ active' = [active EXCEPT ![lease[h]] = Released(@)]
  /\ lease' = [lease EXCEPT ![h] = NONE]
  /\ UNCHANGED <<buildVars, lock, scan>>

-----------------------------------------------------------------------------

PoolInit ==
  /\ pool \in Pools
  /\ next_row = 1
  /\ seen_exit_ips = {}
  /\ serving_count = 0
  /\ membership = [i \in Instances |-> "unclassified"]
  /\ active = [i \in Instances |-> 0]
  /\ lease = [h \in Holders |-> NONE]
  /\ lock = NoHolder
  /\ scan = NoScan

PoolNext ==
  \/ ClassifyRow
  \/ \E h \in Holders, route \in Routes : BeginSelection(h, route)
  \/ ReadInstance
  \/ GrantLease
  \/ SearchStandby
  \/ RefuseSelection
  \/ \E h \in Holders : DropLease(h)

PoolSpec == PoolInit /\ [][PoolNext]_poolVars

-----------------------------------------------------------------------------
(* Properties.                                                             *)

(* The type of the state: a lease is on an instance of the pool, and only  *)
(* a selection that runs has a position and a candidate.                   *)
PoolTypeOK ==
  /\ pool \in Pools
  /\ next_row \in 1..(Len(pool.rows) + 1)
  /\ seen_exit_ips \subseteq Exits
  /\ serving_count \in Nat
  /\ membership \in [Instances -> Usable \cup {"Failed", "unclassified"}]
  /\ active \in [Instances -> Nat]
  /\ lease \in [Holders -> Instances \cup {NONE}]
  /\ lock \in Holders \cup {NoHolder}
  /\ scan \in [route : Routes \cup {NoScan.route}, tier : SUBSET Usable,
               next : 1..(Len(pool.rows) + 1), best : Instances \cup {NONE},
               load : Nat, start : [Instances -> Nat] \cup {<<>>}]

HoldersOf(i) == {h \in Holders : lease[h] = i}

(* The active connection count of an instance is the number of leases that *)
(* are alive on it, at every step of every selection and drop: a lease is  *)
(* counted once, dropped once, and the saturating subtraction of drop      *)
(* never hides a second drop.                                              *)
LeasesCounted == \A i \in Instances : active[i] = Cardinality(HoldersOf(i))

(* What a route is entitled to, stated without the order of the search:    *)
(* automatic scheduling gets the Serving Pool, an identity or an Exit IP   *)
(* any healthy instance that has it, a group its Serving instances and,    *)
(* only under standby_fallback and only when it has none, its Standby ones.*)
InGroup(g, tier) == {i \in Instances : pool.rows[i].group = g /\ membership[i] = tier}

Entitled(route) ==
  CASE route.kind = "auto"  -> ServingPool
    [] route.kind = "id"    -> {i \in Instances : i = route.value /\ membership[i] \in Usable}
    [] route.kind = "exit"  -> {i \in Instances : /\ pool.rows[i].exit = route.value
                                                  /\ membership[i] \in Usable}
    [] route.kind = "group" -> IF InGroup(route.value, "Serving") = {} /\ pool.standby_fallback
                               THEN InGroup(route.value, "Standby")
                               ELSE InGroup(route.value, "Serving")

(* A selection ends with a lease on an instance its route is entitled to,  *)
(* never on another one; it is refused only when there is none.  A failed  *)
(* selector never falls back to automatic selection, and a refusal never   *)
(* misses an instance because leases moved while the search read them.     *)
SelectionEnds == lock # NoHolder /\ lock' = NoHolder

SelectionHonoursRoute ==
  [][SelectionEnds =>
       IF lease'[lock] # NONE
       THEN lease'[lock] \in Entitled(scan.route)
       ELSE Entitled(scan.route) = {}]_poolVars

(* The instance a selection grants has no more connections, when it is     *)
(* granted, than any instance of the same tier had when the selection      *)
(* started.  This is what "fewest active connections" means while leases   *)
(* are dropped between the reads: nothing raises a load while a selection  *)
(* holds the mutex of the pool.                                            *)
GrantIsLeastLoaded ==
  [][SelectionEnds /\ lease'[lock] # NONE =>
       \A i \in Instances :
         Candidate(scan.route, scan.tier, i) => active[lease'[lock]] <= scan.start[i]]_poolVars

(* What breaks a tie: of two instances that a selection finds equally      *)
(* loaded the one before the other is granted, so what comes before the    *)
(* granted one had strictly more connections when the selection started.   *)
TiesGoToTheFirst ==
  [][SelectionEnds /\ lease'[lock] # NONE =>
       \A i \in Instances :
         i < lease'[lock] /\ Candidate(scan.route, scan.tier, i) =>
           active[lease'[lock]] < scan.start[i]]_poolVars

(* The state that bound rests on: during a selection no load is above what *)
(* it was at the start, and the candidate was read no busier than any      *)
(* instance already passed had been at the start.                          *)
ScanWithinStart ==
  lock # NoHolder =>
    /\ \A i \in Instances : active[i] <= scan.start[i]
    /\ scan.best # NONE =>
         /\ active[scan.best] <= scan.load
         /\ \A i \in Instances :
              i < scan.next /\ Candidate(scan.route, scan.tier, i) => scan.load <= scan.start[i]

(* A selection ends: what it does under the mutex of the pool is to read   *)
(* one instance after the other, once more from the start under            *)
(* standby_fallback, and no selection runs beside it.  Only leases are     *)
(* dropped meanwhile, which gives it nothing more to read.                 *)
AccessesLeft ==
  (Len(pool.rows) + 1 - scan.next) + (IF MayFallBack THEN Len(pool.rows) + 1 ELSE 0)

SelectionRunsOut ==
  [][lock # NoHolder /\ ~(\E h \in Holders : DropLease(h)) =>
       \/ lock' = NoHolder
       \/ lock' = lock /\ AccessesLeft' < AccessesLeft]_poolVars

(* The Serving Pool holds at most one instance per Exit IP and at most     *)
(* `target' instances, and it is as large as the rows allow: a healthy     *)
(* instance is Standby only because its Exit IP already serves or because  *)
(* the target is reached.                                                  *)
ServingPoolIsDiverseAndFull ==
  /\ \A i, j \in ServingPool : pool.rows[i].exit = pool.rows[j].exit => i = j
  /\ Cardinality(ServingPool) <= pool.target
  /\ \A i \in Instances :
       /\ membership[i] = "Failed" => ~Healthy(pool.rows[i])
       /\ membership[i] \in Usable => Healthy(pool.rows[i])
       /\ membership[i] = "Standby" =>
            \/ \E j \in ServingPool : j < i /\ pool.rows[j].exit = pool.rows[i].exit
            \/ Cardinality({j \in ServingPool : j < i}) = pool.target

(* Once the pool is built, no other choice of Serving instances would have *)
(* been larger: first come, first served wastes no Exit IP.                *)
ServableExits ==
  [i \in Instances |-> IF Healthy(pool.rows[i]) THEN pool.rows[i].exit ELSE NoExit]

ServingPoolIsLargest ==
  Built => Largest(ServableExits, pool.target, ServingPool, Instances)

ServingPoolIsBest == ServingPoolIsDiverseAndFull /\ ServingPoolIsLargest

(* The readiness that is reported agrees with what clients meet: automatic *)
(* scheduling is refused exactly when the pool reports Unavailable.        *)
RefusedOnlyWhenUnavailable ==
  [][SelectionEnds /\ scan.route.kind = "auto" =>
       (lease'[lock] = NONE <=> readiness = "Unavailable")]_poolVars

=============================================================================
