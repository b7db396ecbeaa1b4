----------------------------- MODULE DataPlane -----------------------------
(***************************************************************************)
(* The User-Space Data Plane of src/data_plane.rs: BoringTunDataPlane over *)
(* the adapter configs of the instances, the streams and sessions that it  *)
(* opens, each with a packet pump of its own, and the pumps that are used  *)
(* directly.                                                               *)
(*                                                                         *)
(* Every call is one step: a pump is behind a &mut, and no method of a     *)
(* stream, a session or a pump awaits anything.                            *)
(***************************************************************************)
EXTENDS RuntimePump, AdapterMaterial

CONSTANTS
  Instances,   \* the instances that are asked for, known or not
  Handles,     \* streams, sessions and pumps that can be opened
  NoInstance,
  Configs,     \* the adapter configs that instances have
  MaxPackets   \* bound: how many packets are queued

ASSUME DataPlaneAssumption ==
  /\ NoInstance \notin Instances
  /\ Configs \subseteq Config
  /\ MaxPackets \in Nat

Packets == 1..MaxPackets

VARIABLES
  config,    \* the adapter config of each instance
  plane,     \* "none", or how the data plane was built
  known,     \* the instances it was built with
  kind,      \* what each handle is: "free", "stream", "session" or "pump"
  instance,  \* its instance
  pump,      \* its pump
  answer,    \* what the last call with it returned
  packets,   \* how many packets were queued; the number of the last one
  offered,   \* history: how many of them were queued in the pump of a handle
  failures   \* history: how many of its packets a call answered an error for

planeVars  == <<config, plane, known>>
handleVars == <<kind, instance>>
counters   == <<packets, offered, failures>>
vars       == <<planeVars, handleVars, pump, answer, counters>>

-----------------------------------------------------------------------------
(* with_instances takes any config; try_with_instances prepares all of     *)
(* them or none.  The mutant keeps the configs without preparing any.      *)
with_instances(ids) ==
  /\ plane = "none"
  /\ plane' = "lazy"
  /\ known' = ids
  /\ UNCHANGED <<config, handleVars, pump, answer, counters>>

try_with_instancesSkips(ids) ==
  /\ plane = "none"
  /\ plane' = "prepared"
  /\ known' = ids
  /\ UNCHANGED <<config, handleVars, pump, answer, counters>>

try_with_instances(ids) ==
  /\ plane = "none"
  /\ \A i \in ids : Prepares(config[i])
  /\ plane' = "prepared"
  /\ known' = ids
  /\ UNCHANGED <<config, handleVars, pump, answer, counters>>

(* What opening something of an instance answers.  The mutant opens        *)
(* whatever is asked of a prepared data plane.                             *)
OpensUnknown(i) ==
  IF plane = "prepared" THEN "ok"
  ELSE IF i \notin known THEN "unknown"
  ELSE IF ensure_supported(config[i]) THEN "notImplemented"
  ELSE "unsupportedAdapter"

Opens(i) ==
  IF i \notin known THEN "unknown"
  ELSE IF plane = "prepared" THEN "ok"
  ELSE IF ensure_supported(config[i]) THEN "notImplemented"
  ELSE "unsupportedAdapter"

(* A handle is opened with a pump, or stays free and tells why not.        *)
Open(h, i, as, opened) ==
  /\ kind[h] = "free"
  /\ plane # "none"
  /\ answer' = [answer EXCEPT ![h] = Opens(i)]
  /\ IF Opens(i) = "ok"
     THEN /\ kind' = [kind EXCEPT ![h] = as]
          /\ instance' = [instance EXCEPT ![h] = i]
          /\ pump' = [pump EXCEPT ![h] = opened]
     ELSE UNCHANGED <<handleVars, pump>>
  /\ UNCHANGED <<planeVars, counters>>

connect_tcp(h, i) == Open(h, i, "stream", start(NewPump("fake")))

open_udp_session(h, i) == Open(h, i, "session", start(NewPump("fake")))

(* runtime_packet_pump, and RuntimePacketPump::test over runtime_config,   *)
(* which answers another error of a data plane that is not prepared.       *)
runtime_packet_pump(h, i, engine) ==
  /\ kind[h] = "free"
  /\ plane # "none"
  /\ answer' = [answer EXCEPT ![h] =
       IF i \in known /\ plane = "lazy" THEN "notPrepared" ELSE Opens(i)]
  /\ IF Opens(i) = "ok"
     THEN /\ kind' = [kind EXCEPT ![h] = "pump"]
          /\ instance' = [instance EXCEPT ![h] = i]
          /\ pump' = [pump EXCEPT ![h] = NewPump(engine)]
     ELSE UNCHANGED <<handleVars, pump>>
  /\ UNCHANGED <<planeVars, counters>>

-----------------------------------------------------------------------------
(* The calls of a pump that is held directly.                              *)

Calls(h, after) ==
  /\ pump' = [pump EXCEPT ![h] = after]
  /\ answer' = [answer EXCEPT ![h] = Answer(after)]

Start(h) ==
  /\ kind[h] = "pump"
  /\ Calls(h, start(pump[h]))
  /\ UNCHANGED <<planeVars, handleVars, counters>>

Stop(h) ==
  /\ kind[h] = "pump"
  /\ Calls(h, stop(pump[h]))
  /\ UNCHANGED <<planeVars, handleVars, counters>>

(* Queueing and the order to fail return nothing.                          *)
FailNextSend(h) ==
  /\ kind[h] = "pump"
  /\ pump' = [pump EXCEPT ![h] = fail_next_transport_send(@)]
  /\ UNCHANGED <<planeVars, handleVars, answer, counters>>

Numbered(h) ==
  /\ packets < MaxPackets
  /\ packets' = packets + 1
  /\ offered' = [offered EXCEPT ![h] = @ + 1]

QueueOutbound(h) ==
  /\ kind[h] = "pump"
  /\ Numbered(h)
  /\ pump' = [pump EXCEPT ![h] = queue_outbound_ip_packet(@, packets')]
  /\ UNCHANGED <<planeVars, handleVars, answer, failures>>

QueueInbound(h) ==
  /\ kind[h] = "pump"
  /\ Numbered(h)
  /\ pump' = [pump EXCEPT ![h] = queue_inbound_wireguard_packet(@, packets')]
  /\ UNCHANGED <<planeVars, handleVars, answer, failures>>

(* A failure of a packet, which the call tells of.                         *)
LostBy(after) == IF Answer(after) \in {"TransportFailed", "PacketEngineFailed"} THEN 1 ELSE 0

PumpOnce(h) ==
  /\ kind[h] = "pump"
  /\ \E out \in OutboundEnds(pump[h]), in \in InboundEnds(pump[h]) :
       LET after == pump_once(pump[h], out, in) IN
       /\ Calls(h, after)
       /\ failures' = [failures EXCEPT ![h] = @ + LostBy(after)]
  /\ UNCHANGED <<planeVars, handleVars, packets, offered>>

-----------------------------------------------------------------------------
(* The calls of streams and sessions.                                      *)

(* RuntimeTcpStream::write_all.  The mutant starts the pump of the stream  *)
(* before every write.                                                     *)
write_allStarts(h) ==
  /\ kind[h] = "stream"
  /\ Numbered(h)
  /\ LET queued == queue_outbound_ip_packet(start(pump[h]), packets') IN
     \E out \in OutboundEnds(queued), in \in InboundEnds(queued) :
       LET after == pump_once(queued, out, in) IN
       /\ Calls(h, after)
       /\ failures' = [failures EXCEPT ![h] = @ + LostBy(after)]
  /\ UNCHANGED <<planeVars, handleVars>>

write_all(h) ==
  /\ kind[h] = "stream"
  /\ Numbered(h)
  /\ LET queued == queue_outbound_ip_packet(pump[h], packets') IN
     \E out \in OutboundEnds(queued), in \in InboundEnds(queued) :
       LET after == pump_once(queued, out, in) IN
       /\ Calls(h, after)
       /\ failures' = [failures EXCEPT ![h] = @ + LostBy(after)]
  /\ UNCHANGED <<planeVars, handleVars>>

(* One packet through a pump that is made for it and dropped after it.     *)
Through(h, fresh) ==
  /\ packets < MaxPackets
  /\ packets' = packets + 1
  /\ LET queued == queue_outbound_ip_packet(fresh, packets') IN
     \E out \in OutboundEnds(queued), in \in InboundEnds(queued) :
       answer' = [answer EXCEPT ![h] = Answer(pump_once(queued, out, in))]

(* RuntimeUdpSession::send_datagram.                                       *)
send_datagram(h) ==
  /\ kind[h] = "session"
  /\ Through(h, clone_for_session(pump[h]))
  /\ UNCHANGED <<planeVars, handleVars, pump, offered, failures>>

(* default_send opens a stream or a session, uses it once and drops it.    *)
default_send(h, i, protocol) ==
  /\ kind[h] = "free"
  /\ plane # "none"
  /\ LET fresh == start(NewPump("fake")) IN
     IF Opens(i) = "ok"
     THEN Through(h, IF protocol = "tcp" THEN fresh ELSE clone_for_session(fresh))
     ELSE answer' = [answer EXCEPT ![h] = Opens(i)] /\ UNCHANGED packets
  /\ UNCHANGED <<planeVars, handleVars, pump, offered, failures>>

(* Whoever holds a stream, a session or a pump drops it, running or not.   *)
Drop(h) ==
  /\ kind[h] # "free"
  /\ kind' = [kind EXCEPT ![h] = "free"]
  /\ instance' = [instance EXCEPT ![h] = NoInstance]
  /\ pump' = [pump EXCEPT ![h] = NewPump("fake")]
  /\ answer' = [answer EXCEPT ![h] = "ok"]
  /\ offered' = [offered EXCEPT ![h] = 0]
  /\ failures' = [failures EXCEPT ![h] = 0]
  /\ UNCHANGED <<planeVars, packets>>

-----------------------------------------------------------------------------

Init ==
  /\ config \in [Instances -> Configs]
  /\ plane = "none"
  /\ known = {}
  /\ kind = [h \in Handles |-> "free"]
  /\ instance = [h \in Handles |-> NoInstance]
  /\ pump = [h \in Handles |-> NewPump("fake")]
  /\ answer = [h \in Handles |-> "ok"]
  /\ packets = 0
  /\ offered = [h \in Handles |-> 0]
  /\ failures = [h \in Handles |-> 0]

Build(ids) == with_instances(ids) \/ try_with_instances(ids)

OpenSomething(h, i) ==
  \/ connect_tcp(h, i)
  \/ open_udp_session(h, i)
  \/ \E engine \in Engines : runtime_packet_pump(h, i, engine)
  \/ \E protocol \in {"tcp", "udp"} : default_send(h, i, protocol)

Use(h) ==
  \/ Start(h)
  \/ Stop(h)
  \/ FailNextSend(h)
  \/ QueueOutbound(h)
  \/ QueueInbound(h)
  \/ PumpOnce(h)
  \/ write_all(h)
  \/ send_datagram(h)
  \/ Drop(h)

Next ==
  \/ \E ids \in SUBSET Instances : Build(ids)
  \/ \E h \in Handles :
       \/ \E i \in Instances : OpenSomething(h, i)
       \/ Use(h)

Spec == Init /\ [][Next]_vars

-----------------------------------------------------------------------------
(* Properties.                                                             *)

Given == {"ok", "unknown", "unsupportedAdapter", "notImplemented", "notPrepared"}

(* Every variable has its type: a plane has instances only once it is      *)
(* built, and only a handle that is in use has an instance.                *)
DataPlaneTypeOK ==
  /\ config \in [Instances -> Configs]
  /\ plane \in {"none", "lazy", "prepared"}
  /\ known \in SUBSET Instances
  /\ kind \in [Handles -> {"free", "stream", "session", "pump"}]
  /\ instance \in [Handles -> Instances \cup {NoInstance}]
  /\ pump \in [Handles -> Pump(Packets)]
  /\ answer \in [Handles -> Given \cup PumpErrors]
  /\ packets \in 0..MaxPackets
  /\ offered \in [Handles -> Nat]
  /\ failures \in [Handles -> Nat]
  /\ \A h \in Handles :
       /\ kind[h] = "free" => instance[h] = NoInstance /\ pump[h] = NewPump("fake")
       /\ kind[h] # "free" => instance[h] \in known

(* An instance that anything is open for has material the data plane can   *)
(* use, and so has every other instance of that data plane: a data plane   *)
(* is prepared for all of its instances or it is not built                 *)
(* (try_with_instances collects into one Result).                          *)
OpenMeansPrepared ==
  (\E h \in Handles : kind[h] # "free") => \A i \in known : Prepares(config[i])

Increasing(s) == \A i, j \in 1..Len(s) : i < j => s[i] < s[j]

(* No packet overtakes another: what a pump has sent and what still waits  *)
(* to be sent, in that order, are in the order they were queued in, and so *)
(* are the packets that arrived, whatever failed, stopped or was started   *)
(* again in between (pump_once pops from the front, and a failure leaves   *)
(* the rest of a queue where it is).                                       *)
LeaveInOrder ==
  \A h \in Handles :
    /\ Increasing(pump[h].sent \o pump[h].device)
    /\ Increasing(pump[h].delivered \o pump[h].inbound)

(* Every packet that was queued is sent, delivered or still waiting, or    *)
(* there is one error of an engine or of the transport that its call       *)
(* answered for it: no error costs two packets, none is lost in silence    *)
(* and none is doubled (the early returns of pump_once, with a packet in   *)
(* hand that is in no queue any more).                                     *)
OneLossPerFailure ==
  \A h \in Handles :
    offered[h] = failures[h] + Len(pump[h].sent) + Len(pump[h].device)
                   + Len(pump[h].delivered) + Len(pump[h].inbound)

(* What the stack received is what the tunnel delivered, although arrivals *)
(* share one loopback queue with the packets that wait to leave: no packet *)
(* that waits to leave is handed to the stack as one that arrived          *)
(* (deliver_from_wireguard, after the loop that empties the queue).        *)
DeliveredAreReceived == \A h \in Handles : pump[h].stack = pump[h].delivered

(* What a pump does with its packets: in order, one loss for one error,    *)
(* and the two directions apart.                                           *)
PacketsAccounted == LeaveInOrder /\ OneLossPerFailure /\ DeliveredAreReceived

(* Whoever uses streams and sessions never meets an error of their pumps,  *)
(* and leaves nothing waiting in them: they are started once, with the     *)
(* fake engine, and nobody can stop them or make their transport fail      *)
(* (RuntimeTcpStream, RuntimeUdpSession).                                  *)
StreamsNeverFail ==
  \A h \in Handles : kind[h] \in {"stream", "session"} =>
    /\ answer[h] = "ok"
    /\ pump[h].lifecycle = "running"
    /\ pump[h].device = <<>> /\ pump[h].inbound = <<>>

(* A call of pump_once that answers no error has emptied both queues, and  *)
(* one that answers an error has moved no packet after the one it failed   *)
(* for: nothing arrives in a call that failed to send.                     *)
SuccessDrains ==
  [][\A h \in Handles : PumpOnce(h) =>
       /\ answer'[h] = "ok" => pump'[h].device = <<>> /\ pump'[h].inbound = <<>>
       /\ Len(pump'[h].device) > 0 => pump'[h].delivered = pump[h].delivered]_vars

Outward == INSTANCE PacketChannel WITH
  Channels <- Handles,
  waiting  <- [h \in Handles |-> pump[h].device],
  passed   <- [h \in Handles |-> pump[h].sent]

Inward == INSTANCE PacketChannel WITH
  Channels <- Handles,
  waiting  <- [h \in Handles |-> pump[h].inbound],
  passed   <- [h \in Handles |-> pump[h].stack]

(* Each direction of each pump is a channel of PacketChannel: the one out  *)
(* through the loopback device, and the one in, which ends in the stack    *)
(* and goes through the same device.                                       *)
ImplementsChannels == Outward!Spec /\ Inward!Spec

=============================================================================
