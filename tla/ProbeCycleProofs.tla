------------------------- MODULE ProbeCycleProofs -------------------------
(***************************************************************************)
(* Proofs about ProbeCycle, for any number of instances, any target, any   *)
(* Exit IPs, and without the bound on the cycles that overlap.             *)
(*                                                                         *)
(* That pools are healthy needs only that a row without an Exit IP is      *)
(* passed over before it is looked at, and that cycles without a consensus *)
(* keep the pool needs only that the pool is a function of the Exit IPs    *)
(* that instances can serve with.  That earlier instances keep their       *)
(* places is about what that function computes (ClassificationProofs).     *)
(***************************************************************************)
EXTENDS ProbeCycle, ClassificationProofs

Errors == {"none", "healthFailed", "noAcceptedObservation", "uncertain"}
Rows   == [enabled : BOOLEAN, exit : Exits \cup {NoExit}, recent_error : Errors]

(* A row is disabled by the cycle whose Health Check failed.               *)
FailedIsDisabled ==
  \A i \in Instances : outcome[i] = "healthFailed" => ~row[i].enabled

(* Endpoints are asked once their cycle is healthy, and observe nothing    *)
(* before.                                                                 *)
HealthBeforeProbe ==
  \A i \in Instances :
    /\ phase[i] \in {"idle", "openSession", "sendProbe"} => observed[i] = {}
    /\ phase[i] \in {"openSession", "sendProbe"} => health[i] = "healthy"

ProbeInv == ProbeTypeOK /\ FailedIsDisabled /\ HealthBeforeProbe

-----------------------------------------------------------------------------
(* Facts about a cycle.                                                    *)

(* A consensus is one Exit IP, which the choice then is.                   *)
LEMMA ConsensusIsOneExit ==
  ASSUME ProbeTypeOK, NEW i \in Instances, Consensus(i)
  PROVE  /\ (CHOOSE exit \in observed_exit_ips(i) : TRUE) \in Exits
         /\ observed_exit_ips(i) = {CHOOSE exit \in observed_exit_ips(i) : TRUE}
<1> DEFINE seen == observed_exit_ips(i)
<1>1. seen \subseteq Exits
  BY DEF ProbeTypeOK, observed_exit_ips
<1>2. Cardinality(seen) = 1
  BY DEF Consensus
<1>3. IsFiniteSet(seen)
  BY <1>1, ProbeAssumption, FS_Subset
<1> HIDE DEF seen
<1>4. PICK exit : seen = {exit}
  BY <1>2, <1>3, FS_Singleton
<1>5. (CHOOSE e \in seen : TRUE) = exit
  BY <1>4
<1> QED
  BY <1>1, <1>4, <1>5 DEF seen

LEMMA AppliedType ==
  ASSUME ProbeTypeOK, NEW i \in Instances
  PROVE  Applied(i) \in Rows /\ (Applied(i).enabled <=> health[i] = "healthy")
<1>1. row[i] \in Rows
  BY DEF ProbeTypeOK, Rows, Errors
<1>2. RecentError(i) \in Errors
  BY DEF RecentError, Outcome, Errors
<1>3. Noted(i) \in Rows /\ (Noted(i).enabled <=> health[i] = "healthy")
  BY <1>1, <1>2 DEF Noted, Rows
<1>4. CASE Consensus(i)
  <2> DEFINE exit == CHOOSE e \in observed_exit_ips(i) : TRUE
  <2>1. exit \in Exits
    BY <1>4, ConsensusIsOneExit
  <2>2. Applied(i) = [Noted(i) EXCEPT !.exit = exit]
    BY <1>4 DEF Applied
  <2> HIDE DEF exit
  <2> QED
    BY <1>3, <2>1, <2>2 DEF Rows
<1>5. CASE ~Consensus(i)
  BY <1>3, <1>5 DEF Applied
<1> QED
  BY <1>4, <1>5

LEMMA OutcomeType ==
  ASSUME NEW i \in Instances
  PROVE  /\ Outcome(i) \in {"healthFailed", "noAcceptedObservation", "accepted", "uncertain"}
         /\ Outcome(i) = "healthFailed" => health[i] = "unhealthy"
  BY DEF Outcome, Consensus

-----------------------------------------------------------------------------
(* The invariant.                                                          *)

LEMMA InvInit == Init => ProbeInv
  BY DEF Init, ProbeInv, ProbeTypeOK, FailedIsDisabled, HealthBeforeProbe

(* The steps of a cycle before it is applied write no row.                 *)
LEMMA CycleStep ==
  ASSUME ProbeInv, NEW i \in Instances,
         CheckHealth(i) \/ OpenSession(i) \/ SendProbe(i) \/ ProbeFails(i)
  PROVE  ProbeInv' /\ UNCHANGED <<row, outcome>>
<1>1. UNCHANGED <<row, outcome>>
  BY DEF CheckHealth, OpenSession, SendProbe, ProbeFails
<1>2. FailedIsDisabled'
  BY <1>1 DEF ProbeInv, FailedIsDisabled
<1>3. ProbeTypeOK /\ HealthBeforeProbe
  BY DEF ProbeInv
<1>4. CASE CheckHealth(i)
  <2>1. ProbeTypeOK' /\ HealthBeforeProbe'
    BY <1>3, <1>4 DEF ProbeTypeOK, HealthBeforeProbe, CheckHealth
  <2> QED
    BY <1>1, <1>2, <2>1 DEF ProbeInv
<1>5. CASE OpenSession(i)
  <2>1. ProbeTypeOK' /\ HealthBeforeProbe'
    BY <1>3, <1>5 DEF ProbeTypeOK, HealthBeforeProbe, OpenSession
  <2> QED
    BY <1>1, <1>2, <2>1 DEF ProbeInv
<1>6. CASE SendProbe(i)
  <2>1. ProbeTypeOK' /\ HealthBeforeProbe'
    BY <1>3, <1>6 DEF ProbeTypeOK, HealthBeforeProbe, SendProbe
  <2> QED
    BY <1>1, <1>2, <2>1 DEF ProbeInv
<1>7. CASE ProbeFails(i)
  <2>1. ProbeTypeOK' /\ HealthBeforeProbe'
    BY <1>3, <1>7 DEF ProbeTypeOK, HealthBeforeProbe, ProbeFails
  <2> QED
    BY <1>1, <1>2, <2>1 DEF ProbeInv
<1> QED
  BY <1>4, <1>5, <1>6, <1>7

LEMMA ApplyStep ==
  ASSUME ProbeInv, NEW i \in Instances, ApplyCycle(i)
  PROVE  ProbeInv'
<1>1. ProbeTypeOK
  BY DEF ProbeInv
<1> DEFINE applied == Applied(i)
           told    == Outcome(i)
<1>2. /\ applied \in Rows
      /\ applied.enabled <=> health[i] = "healthy"
      /\ told \in {"healthFailed", "noAcceptedObservation", "accepted", "uncertain"}
      /\ told = "healthFailed" => health[i] = "unhealthy"
  BY <1>1, AppliedType, OutcomeType
<1>3. row' = [row EXCEPT ![i] = applied] /\ outcome' = [outcome EXCEPT ![i] = told]
  BY DEF ApplyCycle
<1> HIDE DEF applied, told
<1>4. ProbeTypeOK'
  BY <1>1, <1>2, <1>3 DEF ApplyCycle, ProbeTypeOK, Rows, Errors
<1>5. HealthBeforeProbe'
  BY <1>1 DEF ApplyCycle, ProbeTypeOK, ProbeInv, HealthBeforeProbe
<1>6. FailedIsDisabled'
  BY <1>1, <1>2, <1>3 DEF ProbeTypeOK, ProbeInv, FailedIsDisabled
<1> QED
  BY <1>4, <1>5, <1>6 DEF ProbeInv

LEMMA InvStep == ProbeInv /\ [Next]_vars => ProbeInv'
<1> SUFFICES ASSUME ProbeInv, [Next]_vars PROVE ProbeInv'
  OBVIOUS
<1>1. CASE UNCHANGED vars
  BY <1>1 DEF vars, cycleVars, ProbeInv, ProbeTypeOK, FailedIsDisabled, HealthBeforeProbe
<1> QED
  BY <1>1, CycleStep, ApplyStep DEF Next

LEMMA ProbeInvHolds == Spec => []ProbeInv
  BY InvInit, InvStep, PTL DEF Spec

(* Type correctness of ProbeCycle: only a cycle whose Health Check passed  *)
(* has observations (FakeRuntimeProbeTransport::run).                      *)
THEOREM ProbeTypeCorrect == Spec => []ProbeTypeOK
<1>1. ProbeInv => ProbeTypeOK
  BY DEF ProbeInv
<1> QED
  BY <1>1, ProbeInvHolds, PTL

(* An instance that failed its last Health Check, or was never probed, is  *)
(* in no pool that is built from the rows (apply_probe_cycle writes        *)
(* enabled, from_instances reads it before the Exit IP).                   *)
THEOREM PoolsAreHealthy == Spec => []ServingIsHealthy
<1>1. ProbeInv => ServingIsHealthy
  <2> SUFFICES ASSUME ProbeInv, NEW i \in Instances, from_instances(row)[i] # "failed"
               PROVE  outcome[i] # "healthFailed" /\ row[i].exit # NoExit
    BY DEF ServingIsHealthy
  <2>1. ExitOf(row)[i] # NoExit
    BY DEF from_instances
  <2>2. row[i].enabled /\ row[i].exit # NoExit
    BY <2>1 DEF ExitOf
  <2> QED
    BY <2>2 DEF ProbeInv, FailedIsDisabled
<1> QED
  BY <1>1, ProbeInvHolds, PTL

-----------------------------------------------------------------------------
(* What a cycle does to a row.                                             *)

LEMMA ExitStep ==
  ASSUME ProbeInv, [Next]_vars, NEW i \in Instances, row'[i].exit # row[i].exit
  PROVE  health[i] = "healthy" /\ observed_exit_ips(i) = {row'[i].exit}
<1>1. ProbeTypeOK /\ row \in [Instances -> Rows]
  BY DEF ProbeInv, ProbeTypeOK, Rows, Errors
<1>2. PICK j \in Instances : ApplyCycle(j)
  BY CycleStep DEF Next, vars
<1>3. j = i /\ row'[i] = Applied(i)
  BY <1>1, <1>2 DEF ApplyCycle
<1>4. Noted(i).exit = row[i].exit
  BY <1>1 DEF Noted, Rows
<1>5. Consensus(i)
  BY <1>3, <1>4 DEF Applied
<1> DEFINE exit == CHOOSE e \in observed_exit_ips(i) : TRUE
<1>6. Applied(i) = [Noted(i) EXCEPT !.exit = exit]
  BY <1>5 DEF Applied
<1>7. observed_exit_ips(i) = {exit}
  BY <1>1, <1>5, ConsensusIsOneExit
<1> HIDE DEF exit
<1>8. Applied(i).exit = exit
  BY <1>1, <1>6 DEF Noted, Rows
<1> QED
  BY <1>3, <1>5, <1>7, <1>8 DEF Consensus

(* Probe Consensus: a row takes an Exit IP only from a healthy cycle whose *)
(* endpoints all observed it (apply_probe_cycle).                          *)
THEOREM ExitsAreAgreed == Spec => ExitNeedsConsensus
<1>1. ProbeInv /\ [Next]_vars =>
        [\A i \in Instances : row'[i].exit # row[i].exit =>
           health[i] = "healthy" /\ observed_exit_ips(i) = {row'[i].exit}]_vars
  BY ExitStep
<1> QED
  BY <1>1, ProbeInvHolds, PTL DEF Spec, ExitNeedsConsensus

LEMMA KeepStep ==
  ASSUME ProbeInv, NEW i \in Instances, ApplyCycle(i),
         outcome'[i] # "accepted", row'[i].enabled = row[i].enabled
  PROVE  from_instances(row') = from_instances(row)
<1>1. ProbeTypeOK /\ row \in [Instances -> Rows] /\ ProbeTypeOK'
  BY ApplyStep DEF ProbeInv, ProbeTypeOK, Rows, Errors
<1>2. outcome'[i] = Outcome(i) /\ row' = [row EXCEPT ![i] = Applied(i)]
  BY <1>1 DEF ApplyCycle, ProbeTypeOK
<1>3. row'[i].exit = row[i].exit
  <2>1. CASE ~Consensus(i)
    BY <1>1, <1>2, <2>1 DEF Applied, Noted, Rows
  <2>2. CASE Consensus(i)
    <3>1. health[i] = "healthy" /\ observed_exit_ips(i) # {}
      BY <1>1, <2>2, ConsensusIsOneExit DEF Consensus
    <3> QED
      BY <1>2, <2>2, <3>1 DEF Outcome
  <2> QED
    BY <2>1, <2>2
<1>4. ExitOf(row') = ExitOf(row)
  BY <1>1, <1>2, <1>3 DEF ExitOf
<1> QED
  BY <1>4 DEF from_instances

(* A cycle without a consensus leaves every place of every pool as it was, *)
(* unless it changes the health of its instance (apply_probe_cycle keeps   *)
(* the Exit IP, from_instances depends on nothing else of a row).          *)
THEOREM NoConsensusNoChange == Spec => NoConsensusKeepsPool
<1>1. ProbeInv /\ [Next]_vars =>
        [\A i \in Instances :
           ApplyCycle(i) /\ outcome'[i] # "accepted" /\ row'[i].enabled = row[i].enabled =>
             from_instances(row') = from_instances(row)]_vars
  BY KeepStep
<1> QED
  BY <1>1, ProbeInvHolds, PTL DEF Spec, NoConsensusKeepsPool

-----------------------------------------------------------------------------
(* What a cycle does to the pool.                                          *)

LEMMA EarlierStep ==
  ASSUME ProbeInv, NEW i \in Instances, ApplyCycle(i), NEW j \in Instances, j < i
  PROVE  from_instances(row')[j] = from_instances(row)[j]
<1>1. row \in [Instances -> Rows] /\ row' = [row EXCEPT ![i] = Applied(i)]
  BY DEF ProbeInv, ProbeTypeOK, Rows, Errors, ApplyCycle
<1> DEFINE exits  == ExitOf(row)
           others == ExitOf(row')
<1>2. \A k \in 1..j : exits[k] = others[k]
  <2>1. \A k \in 1..j : k \in Instances /\ row'[k] = row[k]
    BY <1>1, ProbeAssumption DEF Instances
  <2> QED
    BY <2>1 DEF ExitOf
<1>3. Size \in Nat /\ Target \in Nat /\ j \in 1..Size /\ j \in 0..Size
  BY ProbeAssumption DEF Instances
<1> DEFINE S == ServingUpTo(exits, Size, Target)
           O == ServingUpTo(others, Size, Target)
<1>4. S[j] = O[j]
  BY <1>2, <1>3, FirstRowsDecide
<1>5. /\ j \in S[Size] <=> j \in S[j]
      /\ j \in O[Size] <=> j \in O[j]
  BY <1>3, PlacesAreKept
<1>6. exits[j] = others[j]
  BY <1>2, <1>3
<1>7. j \in Serving(exits) <=> j \in Serving(others)
  BY <1>4, <1>5 DEF Serving
<1> HIDE DEF exits, others
<1>8. /\ from_instances(row)[j] = IF exits[j] = NoExit THEN "failed"
                                  ELSE IF j \in Serving(exits) THEN "serving" ELSE "standby"
      /\ from_instances(row')[j] = IF others[j] = NoExit THEN "failed"
                                   ELSE IF j \in Serving(others) THEN "serving" ELSE "standby"
  BY DEF from_instances, exits, others
<1> QED
  BY <1>6, <1>7, <1>8

LEMMA OutageStep ==
  ASSUME ProbeInv, NEW i \in Instances, ApplyCycle(i), ~row'[i].enabled,
         NEW j \in Instances, j # i, from_instances(row)[j] = "serving"
  PROVE  from_instances(row')[j] = "serving"
<1>1. row \in [Instances -> Rows] /\ row' = [row EXCEPT ![i] = Applied(i)]
  BY DEF ProbeInv, ProbeTypeOK, Rows, Errors, ApplyCycle
<1> DEFINE exits  == ExitOf(row)
           others == ExitOf(row')
<1>2. others[i] = NoExit /\ \A k \in Instances : k # i => others[k] = exits[k]
  BY <1>1 DEF ExitOf
<1>3. exits[j] # NoExit /\ j \in Serving(exits)
  BY DEF from_instances
<1>4. Serving(exits) \ {i} \subseteq Serving(others)
  <2>1. Size \in Nat /\ Target \in Nat
    BY ProbeAssumption
  <2> HIDE DEF exits, others
  <2> QED
    BY <1>2, <2>1, OthersGoOnServing DEF Serving, Instances
<1> QED
  BY <1>2, <1>3, <1>4 DEF from_instances

(* A cycle changes no place before its own row, and one that takes its     *)
(* instance out costs no other instance its place (apply_probe_cycle       *)
(* writes one row, from_instances decides a place at its row, and the pass *)
(* without a row lets everybody else enter that entered with it).          *)
THEOREM PlacesStayStable == Spec => PlacesAreStable
<1>1. ProbeInv /\ [Next]_vars =>
        [\A i \in Instances : ApplyCycle(i) => \A j \in Instances \ {i} :
           /\ j < i => from_instances(row')[j] = from_instances(row)[j]
           /\ ~row'[i].enabled /\ from_instances(row)[j] = "serving" =>
                from_instances(row')[j] = "serving"]_vars
  BY EarlierStep, OutageStep
<1> QED
  BY <1>1, ProbeInvHolds, PTL DEF Spec, PlacesAreStable

=============================================================================
