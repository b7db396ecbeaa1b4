--------------------------- MODULE MCProbeCycle ---------------------------
(* An instance of ProbeCycle for TLC: three instances for two places, and  *)
(* three Exit IPs, so that an instance is left out as a duplicate or, with *)
(* an Exit IP of its own, because the places are taken, and endpoints      *)
(* agree and disagree.                                                     *)
EXTENDS ProbeCycle, TLC

CONSTANTS e1, e2, e3, unprobed, endpointFailed

ThreeExits == {e1, e2, e3}

Symmetry == Permutations(ThreeExits)

=============================================================================
