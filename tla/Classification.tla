--------------------------- MODULE Classification ---------------------------
(***************************************************************************)
(* Which instances serve, as a function of what from_instances of          *)
(* src/pool.rs reads of their rows: the Exit IPs they can serve with.      *)
(* There is no state in this module.  ProxyPool models the same loop step  *)
(* by step, ProbeCycle builds a pool in the middle of its cycles.          *)
(***************************************************************************)
EXTENDS Integers, FiniteSets

CONSTANT NoExit  \* instead of an Exit IP: the row is disabled or has none

(* `serving_count < target && seen_exit_ips.insert(exit)': row n, when the *)
(* rows in `before' serve already.                                         *)
Enters(exits, target, before, n) ==
  /\ exits[n] # NoExit
  /\ Cardinality(before) < target
  /\ \A i \in before : exits[i] # exits[n]

(* Who serves of the first n rows, for every n: the one pass over them.    *)
ServingUpTo(exits, size, target) ==
  LET serving[n \in 0..size] ==
        IF n = 0 THEN {}
        ELSE IF Enters(exits, target, serving[n - 1], n)
             THEN serving[n - 1] \cup {n}
             ELSE serving[n - 1]
  IN  serving

(* What a Serving Pool should be: one instance per Exit IP, and no other   *)
(* choice of healthy instances with an Exit IP each, within the target, is *)
(* larger.                                                                 *)
Diverse(exits, instances) ==
  \A i, j \in instances : exits[i] = exits[j] => i = j

Largest(exits, target, serving, instances) ==
  \A other \in SUBSET instances :
    /\ \A i \in other : exits[i] # NoExit
    /\ Diverse(exits, other)
    /\ Cardinality(other) <= target
    => Cardinality(other) <= Cardinality(serving)

=============================================================================
