---------------------------- MODULE LeaseLedger ----------------------------
(***************************************************************************)
(* What the proxy promises about connections and WARP Instances, with no   *)
(* handler, mutex or counter in it: Connection Binding of CONTEXT.md.      *)
(*                                                                         *)
(* A connection holds no instance or one; traffic of a connection is       *)
(* carried by the instance it holds and by no other, and never by one it   *)
(* did not hold before; and the load that is reported of an instance IS    *)
(* the number of connections that hold it.  A relay that is being          *)
(* cancelled may go on carrying for a while after its connection let go,   *)
(* over that same instance.                                                *)
(***************************************************************************)
EXTENDS Integers, FiniteSets

CONSTANTS Connections, NONE

VARIABLES
  held,      \* the instance each connection holds, or NONE
  carrying,  \* the instance that carries traffic of each connection, or NONE
  load       \* the reported number of connections of each instance

vars == <<held, carrying, load>>

Count(h) == [i \in DOMAIN load |-> Cardinality({c \in Connections : h[c] = i})]

Init ==
  /\ held = [c \in Connections |-> NONE]
  /\ carrying = [c \in Connections |-> NONE]
  /\ load = [i \in DOMAIN load |-> 0]

(* A connection is assigned an instance, once, when nothing carries for it.*)
Assign(c) ==
  /\ held[c] = NONE /\ carrying[c] = NONE
  /\ \E i \in DOMAIN load : held' = [held EXCEPT ![c] = i]
  /\ load' = Count(held')
  /\ UNCHANGED carrying

(* The data plane is opened on the instance the connection holds.          *)
Open(c) ==
  /\ held[c] # NONE /\ carrying[c] = NONE
  /\ carrying' = [carrying EXCEPT ![c] = held[c]]
  /\ UNCHANGED <<held, load>>

(* The data plane of a connection is closed.                               *)
Close(c) ==
  /\ carrying' = [carrying EXCEPT ![c] = NONE]
  /\ UNCHANGED <<held, load>>

(* A connection lets its instance go, and its count with it.               *)
Release(c) ==
  /\ held[c] # NONE
  /\ held' = [held EXCEPT ![c] = NONE]
  /\ load' = Count(held')
  /\ carrying' \in {carrying, [carrying EXCEPT ![c] = NONE]}

Next == \E c \in Connections : Assign(c) \/ Open(c) \/ Close(c) \/ Release(c)

Spec == Init /\ [][Next]_vars

=============================================================================
