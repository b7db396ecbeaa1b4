--------------------------- MODULE PacketChannel ---------------------------
(***************************************************************************)
(* What one direction of packet pumps promises: packets pass in the order  *)
(* they were offered in, each at most once, and a step that goes wrong     *)
(* loses one packet, the first one that did not pass.                      *)
(***************************************************************************)
EXTENDS Integers, Sequences

CONSTANTS Packets, Channels

VARIABLES waiting, passed

vars == <<waiting, passed>>

Init ==
  /\ waiting = [c \in Channels |-> <<>>]
  /\ passed = [c \in Channels |-> <<>>]

Offer(c, packet) ==
  /\ waiting' = [waiting EXCEPT ![c] = Append(@, packet)]
  /\ UNCHANGED passed

(* The first n packets of a queue pass, and the next `lost' are lost.      *)
Pass(c, queue, n, lost) ==
  /\ passed' = [passed EXCEPT ![c] = @ \o SubSeq(queue, 1, n)]
  /\ waiting' = [waiting EXCEPT ![c] = SubSeq(queue, n + lost + 1, Len(queue))]

(* A channel that is closed takes what waits in it along.                  *)
Close(c) ==
  /\ waiting' = [waiting EXCEPT ![c] = <<>>]
  /\ passed' = [passed EXCEPT ![c] = <<>>]

Next == \E c \in Channels :
  \/ \E packet \in Packets : Offer(c, packet)
  \/ \E n \in 0..Len(waiting[c]), lost \in 0..1 : Pass(c, waiting[c], n, lost)
  \* A packet that is offered and passes at once, with all before it.
  \/ \E packet \in Packets :
       Pass(c, Append(waiting[c], packet), Len(waiting[c]) + 1, 0)
  \/ Close(c)

Spec == Init /\ [][Next]_vars

=============================================================================
