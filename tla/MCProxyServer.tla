--------------------------- MODULE MCProxyServer ---------------------------
(* Instances of ProxyServer for TLC.                                        *)
EXTENDS ProxyServer, TLC

CONSTANTS c1, c2, c3, nobody, e1, e2, g1, unprobed

MCConnections == {c1, c2}
MCExits  == {e1, e2}
MCGroups == {g1}

(* One Serving instance per Exit IP, a Standby duplicate, a failed one.    *)
MCPools ==
  {[rows |-> <<[enabled |-> TRUE, exit |-> e1, group |-> g1],
               [enabled |-> TRUE, exit |-> e1, group |-> g1],
               [enabled |-> TRUE, exit |-> e2, group |-> g1],
               [enabled |-> FALSE, exit |-> e2, group |-> g1]>>,
    target |-> 2, standby_fallback |-> FALSE]}

Auto    == [kind |-> "auto"]
Second  == [kind |-> "id", value |-> 2]
Fourth  == [kind |-> "id", value |-> 4]
MCRoutes == {Auto, Second, Fourth}

Socks(username, password, command) ==
  [endpoint |-> "socks5", methods |-> {"none", "password"}, username |-> username,
   password |-> password, command |-> command]
Http(username, password, command) ==
  [endpoint |-> "http", methods |-> {}, username |-> username,
   password |-> password, command |-> command]

(* Every way a request can go: each command, each kind of refusal.         *)
MCRequests ==
  {Socks(Second, "right", "connect"), Socks(Second, "right", "udp"),
   Socks(Auto, "right", "other"), Socks(Invalid, "right", "udp"),
   [Socks(Auto, "right", "connect") EXCEPT !.methods = {"none"}],
   Http(Auto, "right", "plain"), Http(Fourth, "right", "connect"),
   Http(Auto, "wrong", "plain")}

(* Clients that name an instance, over both endpoints, and one that does   *)
(* not: what they get of a proxy that has no shared secret.                *)
SelectorRequests ==
  {Socks(Second, "right", "connect"), Http(Second, "right", "connect"),
   Socks(Auto, "right", "udp")}

Symmetry == Permutations(MCConnections)
=============================================================================
