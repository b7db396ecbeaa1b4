---------------------------- MODULE MCProxyPool ----------------------------
(* Instances of ProxyPool for TLC.                                          *)
EXTENDS ProxyPool, TLC

CONSTANTS h1, h2, h3, h4, nobody, e1, e2, e3, g1, g2, unprobed

MCGroups == {g1, g2}

(* Every kind of row that the code tells apart, in every order.            *)
ShapeExits == {e1, e2}
ShapeRows  == [enabled : {TRUE}, exit : ShapeExits, group : MCGroups]
         \cup {[enabled |-> FALSE, exit |-> e1, group |-> g1],
               [enabled |-> TRUE, exit |-> unprobed, group |-> g1]}
ShapePools == [rows : UNION {[1..n -> ShapeRows] : n \in {0, 1, 3}},
               target : 1..2, standby_fallback : BOOLEAN]

(* One pool of three Serving instances, two of them of one group, and a    *)
(* Standby duplicate: the one with the most ways to share the load.        *)
LoadExits == {e1, e2, e3}
LoadPools ==
  {[rows |-> <<[enabled |-> TRUE, exit |-> e1, group |-> g1],
               [enabled |-> TRUE, exit |-> e2, group |-> g1],
               [enabled |-> TRUE, exit |-> e1, group |-> g2],
               [enabled |-> TRUE, exit |-> e3, group |-> g2]>>,
    target |-> 3, standby_fallback |-> TRUE]}

MCPools  == ShapePools \cup LoadPools
MCRoutes == {[kind |-> "auto"], [kind |-> "exit", value |-> e1]}
       \cup [kind : {"id"}, value : {1, 3}]
       \cup [kind : {"group"}, value : MCGroups]

TwoHolders == {h1, h2}
MCHolders  == {h1, h2, h3, h4}

Symmetry == Permutations(MCHolders)

=============================================================================
