--------------------------- MODULE MCRoundRobin ---------------------------
(***************************************************************************)
(* ProxyPool with a memory of the automatic grants, to ask what breaks a   *)
(* tie between equally loaded instances.  The memory is a history          *)
(* variable: it never enables or disables a step.                          *)
(***************************************************************************)
EXTENDS MCProxyPool

VARIABLES
  previous,  \* the instance of the last automatic grant but one, or NONE
  latest     \* the last one: what it got, and what was tied with it

memory == <<previous, latest>>

NoGrant == [got |-> NONE, tied |-> {}]

(* The instances that were as loaded as the granted one from the start of  *)
(* the selection to its end, itself among them when its load stood still.  *)
TiedWith(got) == {i \in ServingPool : scan.start[i] = active[got] /\ active[i] = active[got]}

Remember ==
  IF SelectionEnds /\ scan.route.kind = "auto" /\ lease'[lock] # NONE
  THEN /\ previous' = latest.got
       /\ latest' = [got |-> lease'[lock], tied |-> TiedWith(lease'[lock])]
  ELSE UNCHANGED memory

MemoryInit == PoolInit /\ previous = NONE /\ latest = NoGrant
MemoryNext == PoolNext /\ Remember
MemorySpec == MemoryInit /\ [][MemoryNext]_<<poolVars, memory>>

(* Pool Scheduling (CONTEXT.md:116): the round robin breaks ties, so an    *)
(* instance is not granted twice in a row while another one is tied with   *)
(* it.  best_candidate breaks ties by position.                            *)
RoundRobinBreaksTies ==
  latest.got = previous /\ latest.got \in latest.tied => latest.tied = {latest.got}

=============================================================================
