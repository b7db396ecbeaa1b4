-------------------------- MODULE MCRegistration --------------------------
(* Instances of Registration for TLC.                                       *)
EXTENDS Registration, TLC

CONSTANTS w1, w2

TwoWorkers == {w1, w2}
OneWorker  == {w1}
AllJobs    == {"harness", "fullPath", "import"}

GoodBody == [field \in BodyFields |-> "good"]

Arrived(status, body) == [status |-> status, arrived |-> "json", body |-> body]

(* The answers of a service that works.                                    *)
GoodResponses == {Arrived(200, GoodBody)}

(* An endpoint that the data plane cannot parse.                           *)
OddEndpoint == {Arrived(200, [GoodBody EXCEPT !["endpoint"] = "bad"])}

(* One response per class and per way of missing it.                       *)
AllResponses ==
  GoodResponses \cup OddEndpoint \cup
  {Arrived(200, [GoodBody EXCEPT !["id"] = "missing"]),
   [status |-> 200, arrived |-> "lost", body |-> GoodBody],
   Arrived(403, GoodBody),
   [status |-> 403, arrived |-> "notJson", body |-> GoodBody],
   Arrived(404, GoodBody), Arrived(429, GoodBody)}

GoodFields == [field \in Fields |-> "good"]

(* Documents that are refused, stored in vain, and good.                   *)
AllMaterials ==
  {[json |-> FALSE, fields |-> GoodFields],
   [json |-> TRUE, fields |-> [GoodFields EXCEPT !["dns_servers"] = "blank"]],
   [json |-> TRUE, fields |-> [GoodFields EXCEPT !["private_key"] = "bad"]],
   [json |-> TRUE, fields |-> GoodFields]}

SomeOddResponses == GoodResponses \cup OddEndpoint

Symmetry == Permutations(TwoWorkers)

=============================================================================
