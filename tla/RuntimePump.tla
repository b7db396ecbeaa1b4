---------------------------- MODULE RuntimePump ----------------------------
(***************************************************************************)
(* RuntimePacketPump of src/data_plane.rs as a record, and its operations  *)
(* as functions of that record.  There is no state in this module:         *)
(* DataPlane keeps one of these records for every stream, session and pump *)
(* somebody holds.                                                         *)
(*                                                                         *)
(* A packet is a number; what an engine makes of a packet keeps the number *)
(* of the packet it was made from.  An engine that has nothing to send for *)
(* a packet, or that answers the network where a packet for the stack is   *)
(* expected, is no failure in the code: its packet goes the way of all     *)
(* others.                                                                 *)
(***************************************************************************)
EXTENDS Integers, Sequences

Engines    == {"fake", "boringtun"}
Lifecycles == {"stopped", "running", "failed"}
PumpErrors == {"AlreadyRunning", "NotRunning", "TransportFailed", "PacketEngineFailed"}

Pump(Packets) ==
  [engine : Engines, lifecycle : Lifecycles, last_error : PumpErrors \cup {"none"},
   fail_next_send : BOOLEAN, \* the next send of the transport fails
   device    : Seq(Packets), \* the one queue of the loopback device of the stack
   inbound   : Seq(Packets), \* inbound_wireguard_packets
   sent      : Seq(Packets), \* the SentToPeer events of the transport
   delivered : Seq(Packets), \* its DeliveredToStack events
   stack     : Seq(Packets)] \* delivered_packets of the stack

(* RuntimePacketPump::test has the fake engine, ::boringtun the real one.  *)
NewPump(engine) ==
  [engine |-> engine, lifecycle |-> "stopped", last_error |-> "none",
   fail_next_send |-> FALSE, device |-> <<>>, inbound |-> <<>>, sent |-> <<>>,
   delivered |-> <<>>, stack |-> <<>>]

fail(pump, error) == [pump EXCEPT !.lifecycle = "failed", !.last_error = error]

start(pump) ==
  IF pump.lifecycle = "running" THEN fail(pump, "AlreadyRunning")
  ELSE [pump EXCEPT !.lifecycle = "running", !.last_error = "none"]

stop(pump) == [pump EXCEPT !.lifecycle = "stopped"]

queue_outbound_ip_packet(pump, packet) == [pump EXCEPT !.device = Append(@, packet)]

queue_inbound_wireguard_packet(pump, packet) == [pump EXCEPT !.inbound = Append(@, packet)]

fail_next_transport_send(pump) == [pump EXCEPT !.fail_next_send = TRUE]

(* What a call returned: "ok" or its error.                                *)
Answer(pump) == IF pump.lifecycle = "failed" THEN pump.last_error ELSE "ok"

-----------------------------------------------------------------------------
(* pump_once, two loops.  A loop takes some packets from its queue and     *)
(* ends when the queue is empty or when one more packet fails.             *)

(* How the outbound loop can end.  The fake engine never fails, the real   *)
(* one at any packet; the transport fails at its first send when told to.  *)
OutboundEnds(pump) ==
  LET waiting == Len(pump.device)
      engine  == IF pump.engine = "fake" THEN {}
                 ELSE {[turns |-> n, error |-> "PacketEngineFailed"] : n \in 0..(waiting - 1)}
  IN  IF pump.fail_next_send /\ waiting > 0
      THEN {[turns |-> 0, error |-> "TransportFailed"]} \cup {e \in engine : e.turns = 0}
      ELSE {[turns |-> waiting, error |-> "none"]} \cup engine

InboundEnds(pump) ==
  LET waiting == Len(pump.inbound)
  IN  {[turns |-> waiting, error |-> "none"]}
        \cup (IF pump.engine = "fake" THEN {}
              ELSE {[turns |-> n, error |-> "PacketEngineFailed"] : n \in 0..(waiting - 1)})

(* The packets that stay in a queue: the one that failed is not put back.  *)
(* The mutant puts it back at the end.                                     *)
KeptAtBack(queue, end) ==
  IF end.error = "none" THEN <<>>
  ELSE Append(SubSeq(queue, end.turns + 2, Len(queue)), queue[end.turns + 1])

Kept(queue, end) ==
  SubSeq(queue, end.turns + (IF end.error = "none" THEN 1 ELSE 2), Len(queue))

Outbound(pump, end) ==
  [pump EXCEPT !.sent = @ \o SubSeq(pump.device, 1, end.turns),
               !.device = Kept(@, end),
               !.fail_next_send = @ /\ end.error # "TransportFailed"]

(* A packet reaches the stack through the queue of the device that the     *)
(* outbound packets wait in: it is pushed at the end, and what is popped   *)
(* for the stack is the first one.                                         *)
Inbound(pump, end) ==
  LET arrived == SubSeq(pump.inbound, 1, end.turns)
      through == pump.device \o arrived
  IN  [pump EXCEPT !.inbound = Kept(@, end),
                   !.delivered = @ \o arrived,
                   !.stack = @ \o SubSeq(through, 1, end.turns),
                   !.device = SubSeq(through, end.turns + 1, Len(through))]

Failed(pump, end) == IF end.error = "none" THEN pump ELSE fail(pump, end.error)

(* The mutant turns to the inbound packets first.                          *)
pump_onceInboundFirst(pump, out, in) ==
  IF pump.lifecycle # "running" THEN fail(pump, "NotRunning")
  ELSE IF in.error # "none" THEN Failed(Inbound(pump, in), in)
  ELSE Failed(Outbound(Inbound(pump, in), out), out)

pump_once(pump, out, in) ==
  IF pump.lifecycle # "running" THEN fail(pump, "NotRunning")
  ELSE IF out.error # "none" THEN Failed(Outbound(pump, out), out)
  ELSE Failed(Inbound(Outbound(pump, out), in), in)

(* The pump a session uses for one datagram, with nothing of the session's *)
(* own pump but whether it runs.                                           *)
clone_for_session(pump) ==
  IF pump.lifecycle = "running" THEN start(NewPump("fake")) ELSE NewPump("fake")

=============================================================================
