------------------------ MODULE RegistrationClient ------------------------
(***************************************************************************)
(* The direct Public WARP Registration client of                           *)
(* src/direct_public_warp_registration.rs as a function: what a caller is  *)
(* told of what came back from the remote service, and what the material   *)
(* is worth that the caller is given.                                      *)
(*                                                                         *)
(* A response is its HTTP status, how it arrived, and its body.  "lost"    *)
(* stands for a request that got no response at all, whose status is what  *)
(* the service did nevertheless; a body that is "notJson" does not parse.  *)
(* A failure to make a key is answered as a transient failure that did     *)
(* nothing.                                                                *)
(***************************************************************************)
EXTENDS AdapterMaterial

Response == [status : 100..599, arrived : {"json", "notJson", "lost"}, body : Body]

classify_status(status) ==
  CASE status \in 200..299                    -> "ok"
    [] status \in {401, 403, 409, 451}        -> "blocked"
    [] status \in {400, 404, 422}             -> "unsupported"
    [] OTHER                                  -> "transient"

(* create_public_registration: the body is parsed before the status is     *)
(* looked at, so a body that is not JSON hides the status.                 *)
create_public_registration(response) ==
  IF response.arrived # "json" THEN "transient"
  ELSE IF classify_status(response.status) # "ok" THEN classify_status(response.status)
  ELSE IF Normalizes(response.body) THEN "ok"
  ELSE "unsupported"

(* What the service did: a registration exists at the remote end.          *)
CreatedRemotely(response) == response.status \in 200..299

=============================================================================
