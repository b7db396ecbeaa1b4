---------------------------- MODULE ProbeCycle ----------------------------
(***************************************************************************)
(* Exit Probes and Health Checks (src/probe.rs) and the pool that is built *)
(* from what they leave in the rows (from_instances of src/pool.rs).       *)
(*                                                                         *)
(* A cycle probes one instance through its own data plane, step by step,   *)
(* and is applied to its row at the end; cycles of different instances     *)
(* overlap.  The pool is built from the rows of any state: from_instances  *)
(* reads them all at once, so the pool is an operator and no variable.     *)
(***************************************************************************)
EXTENDS Classification

CONSTANTS
  Size,    \* how many instances there are
  Target,  \* target_serving_size
  Exits,   \* the Exit IPs
  EndpointFailed,  \* the observation of an endpoint that saw no Exit IP
  MaxCycles        \* bound: how many cycles overlap

ASSUME ProbeAssumption ==
  /\ Size \in Nat
  /\ Target \in Nat \ {0}
  /\ IsFiniteSet(Exits)
  /\ NoExit \notin Exits
  /\ EndpointFailed \notin Exits
  /\ MaxCycles \in Nat

Instances == 1..Size

VARIABLES
  row,         \* of each instance: the fields a cycle writes
  phase,       \* where the cycle of each instance is
  health,      \* what its Health Check said, while it lasts
  observed,    \* what its endpoints observed: Exit IPs, EndpointFailed
  outcome      \* the ProbeOutcome of its last cycle

cycleVars == <<phase, health, observed>>
vars      == <<row, cycleVars, outcome>>

-----------------------------------------------------------------------------
(* from_instances.                                                         *)

(* The Exit IP an instance can serve with; NoExit is also what an instance *)
(* that was never probed has (last_observed_exit_ip is None).              *)
ExitOf(rows) == [i \in Instances |-> IF rows[i].enabled THEN rows[i].exit ELSE NoExit]

(* Who serves, in the order of the rows; in the mutant's, from the last.   *)
ServingFromLast(exits) ==
  LET serving[n \in 1..(Size + 1)] ==
        IF n = Size + 1 THEN {}
        ELSE LET before == serving[n + 1] IN
             IF Enters(exits, Target, before, n) THEN before \cup {n} ELSE before
  IN  serving[1]

Serving(exits) == ServingUpTo(exits, Size, Target)[Size]

from_instances(rows) ==
  LET exits   == ExitOf(rows)
      serving == Serving(exits)
  IN  [i \in Instances |-> IF exits[i] = NoExit THEN "failed"
                       ELSE IF i \in serving THEN "serving"
                       ELSE "standby"]

-----------------------------------------------------------------------------
(* FakeRuntimeProbeTransport::run.                                         *)

(* connect_tcp to the health endpoint; what the endpoint says counts only  *)
(* when it could be reached.                                               *)
CheckHealth(i) ==
  /\ phase[i] = "idle"
  /\ Cardinality({j \in Instances : phase[j] # "idle"}) < MaxCycles
  /\ \E verdict \in {"healthy", "unhealthy"} :
       /\ health' = [health EXCEPT ![i] = verdict]
       /\ phase' = [phase EXCEPT ![i] = IF verdict = "healthy" THEN "openSession" ELSE "apply"]
  /\ UNCHANGED <<row, observed, outcome>>

OpenSession(i) ==
  /\ phase[i] = "openSession"
  /\ phase' = [phase EXCEPT ![i] = "sendProbe"]
  /\ UNCHANGED <<row, health, observed, outcome>>

(* The endpoints answer, each with an Exit IP or with a failure.           *)
SendProbe(i) ==
  /\ phase[i] = "sendProbe"
  /\ \E observations \in SUBSET (Exits \cup {EndpointFailed}) :
       observed' = [observed EXCEPT ![i] = observations]
  /\ phase' = [phase EXCEPT ![i] = "apply"]
  /\ UNCHANGED <<row, health, outcome>>

(* The session or the datagram failed.                                     *)
ProbeFails(i) ==
  /\ phase[i] \in {"openSession", "sendProbe"}
  /\ phase' = [phase EXCEPT ![i] = "apply"]
  /\ observed' = [observed EXCEPT ![i] = {EndpointFailed}]
  /\ UNCHANGED <<row, health, outcome>>

-----------------------------------------------------------------------------
(* apply_probe_cycle.                                                      *)

observed_exit_ips(i) == observed[i] \ {EndpointFailed}

Consensus(i) == health[i] = "healthy" /\ Cardinality(observed_exit_ips(i)) = 1

Outcome(i) ==
  CASE health[i] = "unhealthy"                               -> "healthFailed"
    [] health[i] = "healthy" /\ observed_exit_ips(i) = {}    -> "noAcceptedObservation"
    [] Consensus(i)                                          -> "accepted"
    [] OTHER                                                 -> "uncertain"

(* recent_error, by the outcome it tells of; a cycle that nobody observed  *)
(* anything in clears it.                                                  *)
RecentError(i) ==
  IF Outcome(i) = "accepted" \/ (health[i] = "healthy" /\ observed[i] = {})
  THEN "none" ELSE Outcome(i)

Noted(i) == [row[i] EXCEPT !.enabled = (health[i] = "healthy"), !.recent_error = RecentError(i)]

(* The row after the cycle.  The mutants take any of the observed Exit     *)
(* IPs, and forget the verdict.                                            *)
AppliedAny(i) ==
  IF health[i] = "healthy" /\ observed_exit_ips(i) # {}
  THEN [Noted(i) EXCEPT !.exit = CHOOSE exit \in observed_exit_ips(i) : TRUE]
  ELSE Noted(i)

AppliedEnabled(i) ==
  IF Consensus(i)
  THEN [Noted(i) EXCEPT !.exit = CHOOSE exit \in observed_exit_ips(i) : TRUE, !.enabled = TRUE]
  ELSE [Noted(i) EXCEPT !.enabled = TRUE]

Applied(i) ==
  IF Consensus(i)
  THEN [Noted(i) EXCEPT !.exit = CHOOSE exit \in observed_exit_ips(i) : TRUE]
  ELSE Noted(i)

(* The cycle is over, and what it saw is dropped.  The mutant keeps the    *)
(* observations for the next one.                                          *)
ApplyCycleKeeps(i) ==
  /\ phase[i] = "apply"
  /\ row' = [row EXCEPT ![i] = Applied(i)]
  /\ outcome' = [outcome EXCEPT ![i] = Outcome(i)]
  /\ phase' = [phase EXCEPT ![i] = "idle"]
  /\ health' = [health EXCEPT ![i] = "none"]
  /\ UNCHANGED observed

ApplyCycle(i) ==
  /\ phase[i] = "apply"
  /\ row' = [row EXCEPT ![i] = Applied(i)]
  /\ outcome' = [outcome EXCEPT ![i] = Outcome(i)]
  /\ phase' = [phase EXCEPT ![i] = "idle"]
  /\ health' = [health EXCEPT ![i] = "none"]
  /\ observed' = [observed EXCEPT ![i] = {}]

-----------------------------------------------------------------------------

(* Freshly registered or imported rows: enabled, never probed.             *)
Init ==
  /\ row = [i \in Instances |-> [enabled |-> TRUE, exit |-> NoExit, recent_error |-> "none"]]
  /\ phase = [i \in Instances |-> "idle"]
  /\ health = [i \in Instances |-> "none"]
  /\ observed = [i \in Instances |-> {}]
  /\ outcome = [i \in Instances |-> "none"]

Next ==
  \E i \in Instances :
    \/ CheckHealth(i)
    \/ OpenSession(i)
    \/ SendProbe(i)
    \/ ProbeFails(i)
    \/ ApplyCycle(i)

Spec == Init /\ [][Next]_vars

-----------------------------------------------------------------------------
(* Properties.                                                             *)

(* The type of the state; only a cycle whose Health Check passed has       *)
(* observations.                                                           *)
ProbeTypeOK ==
  /\ row \in [Instances -> [enabled : BOOLEAN, exit : Exits \cup {NoExit},
                            recent_error : {"none", "healthFailed", "noAcceptedObservation",
                                            "uncertain"}]]
  /\ phase \in [Instances -> {"idle", "openSession", "sendProbe", "apply"}]
  /\ health \in [Instances -> {"none", "healthy", "unhealthy"}]
  /\ observed \in [Instances -> SUBSET (Exits \cup {EndpointFailed})]
  /\ outcome \in [Instances -> {"none", "healthFailed", "noAcceptedObservation", "accepted",
                                "uncertain"}]
  /\ \A i \in Instances : observed[i] # {} => health[i] = "healthy"

(* Probe Consensus: the Exit IP of a row changes only to the one that all  *)
(* endpoints of a healthy cycle agree on.                                  *)
ExitNeedsConsensus ==
  [][\A i \in Instances :
       row'[i].exit # row[i].exit =>
         health[i] = "healthy" /\ observed_exit_ips(i) = {row'[i].exit}]_vars

(* A pool never lets an instance serve that failed its last Health Check,  *)
(* nor one that was never probed: whenever it is built, and whatever the   *)
(* cycles of the other instances did meanwhile.                            *)
ServingIsHealthy ==
  LET pool == from_instances(row) IN
  \A i \in Instances : pool[i] # "failed" =>
    outcome[i] # "healthFailed" /\ row[i].exit # NoExit

(* Observations that disagree, or that nobody made, do not change the pool *)
(* of instances that keep their health: the next pool is the one that      *)
(* would have been built without them.                                     *)
NoConsensusKeepsPool ==
  [][\A i \in Instances :
       ApplyCycle(i) /\ outcome'[i] # "accepted" /\ row'[i].enabled = row[i].enabled =>
         from_instances(row') = from_instances(row)]_vars

(* A cycle changes no place before its own row, whatever Exit IP it found  *)
(* and whoever it made room for; and one that takes its instance out costs *)
(* no other instance its place: whoever served goes on serving, so that    *)
(* one failed Health Check moves no connection but its own (the one pass   *)
(* of from_instances over the rows).                                       *)
PlacesAreStable ==
  [][\A i \in Instances : ApplyCycle(i) =>
       LET before == from_instances(row)
           after  == from_instances(row')
       IN  \A j \in Instances \ {i} :
             /\ j < i => after[j] = before[j]
             /\ ~row'[i].enabled /\ before[j] = "serving" => after[j] = "serving"]_vars

=============================================================================
