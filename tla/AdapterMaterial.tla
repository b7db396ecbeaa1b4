-------------------------- MODULE AdapterMaterial --------------------------
(***************************************************************************)
(* What the material of a WARP Instance has to pass on its way from a      *)
(* registration or an import to the data plane: the normalisation of       *)
(* src/direct_public_warp_registration.rs, the validation of               *)
(* src/observed_warp_material.rs, the adapter contract of                  *)
(* src/public_warp_adapter.rs, and the parsers of src/data_plane.rs.       *)
(*                                                                         *)
(* A field is what these tell apart: "missing" (absent, or of another JSON *)
(* type), "blank" (empty after trim; of a list: no items, or a blank one), *)
(* "bad" (text that its parser refuses: no base64 of 32 bytes, no CIDR, an *)
(* endpoint without a port), or "good".                                    *)
(***************************************************************************)
EXTENDS Integers, Sequences

Text == {"good", "bad", "blank", "missing"}

(* The fields of a normalized config, in the order they are parsed in.     *)
FieldOrder == <<"private_key", "interface_addresses", "peer_public_key", "peer_endpoint",
                "allowed_ips", "dns_servers">>

Fields == {FieldOrder[i] : i \in 1..6}

(* PublicWarpAdapterConfig: config_json is JSON whatever was stored, its   *)
(* fields may be anything.                                                 *)
Kinds  == {"mock", "public_warp_wireguard_observed_v1", "other"}
Config == [kind : Kinds, version : {1, 2}, fields : [Fields -> Text]]

Observed(fields) ==
  [kind |-> "public_warp_wireguard_observed_v1", version |-> 1, fields |-> fields]

MockConfig ==
  [kind |-> "mock", version |-> 1, fields |-> [field \in Fields |-> "missing"]]

ensure_supported(config) ==
  config.kind \in {"mock", "public_warp_wireguard_observed_v1"} /\ config.version = 1

(* BoringTunRuntimeConfig::from_adapter_config: "ok", or what was wrong,   *)
(* which is the first field of the order that does not parse.  A config of *)
(* the mock adapter is supported and has no runtime config.                *)
from_adapter_config(config) ==
  LET wrong == {i \in 1..6 : config.fields[FieldOrder[i]] # "good"}
  IN  IF ~ensure_supported(config) \/ config.kind = "mock" THEN "unsupportedAdapter"
      ELSE IF \E field \in Fields : config.fields[field] = "missing" THEN "malformed"
      ELSE IF wrong = {} THEN "ok"
      ELSE FieldOrder[CHOOSE i \in wrong : \A j \in wrong : i <= j]

Prepares(config) == from_adapter_config(config) = "ok"

-----------------------------------------------------------------------------
(* Where configs come from: only what is missing or blank is refused.      *)

Present(text) == text \notin {"missing", "blank"}

(* ObservedWarpMaterial::from_json of a document that is JSON or not, and  *)
(* has a wireguard object with these fields.                               *)
Material == [json : BOOLEAN, fields : [Fields -> Text]]

Importable(material) ==
  /\ material.json
  /\ \A field \in Fields : Present(material.fields[field])

(* The body of a response: "id", the two addresses, the first peer's key   *)
(* and endpoint.  An address is bad when a prefix length cannot follow it. *)
BodyFields == {"id", "v4", "v6", "public_key", "endpoint"}
Body       == [BodyFields -> Text]

Normalizes(body) == \A field \in BodyFields : Present(body[field])

(* normalize_registration_response of a body that normalizes; the key is   *)
(* the client's own, routes and DNS servers are constants.                 *)
normalize_registration_response(body) ==
  Observed([field \in Fields |->
    CASE field = "interface_addresses" ->
           IF body["v4"] = "good" /\ body["v6"] = "good" THEN "good" ELSE "bad"
      [] field = "peer_public_key" -> body["public_key"]
      [] field = "peer_endpoint"   -> body["endpoint"]
      [] OTHER                     -> "good"])

=============================================================================
