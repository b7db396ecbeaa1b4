---------------------------- MODULE MCDataPlane ----------------------------
(* Instances of DataPlane for TLC.                                          *)
EXTENDS DataPlane

CONSTANTS i1, i2, h1, nobody

MCInstances == {i1, i2}
MCHandles   == {h1}

AllGood == [field \in Fields |-> "good"]

(* Material that prepares, that does not, that has no runtime config, and  *)
(* of an adapter this version does not know.                               *)
MCConfigs ==
  {Observed(AllGood), Observed([AllGood EXCEPT !["peer_endpoint"] = "bad"]), MockConfig,
   [Observed(AllGood) EXCEPT !.version = 2]}

=============================================================================
