-------------------------- MODULE DataPlaneProofs --------------------------
(***************************************************************************)
(* Proofs about DataPlane.  The first part says what the operations of a   *)
(* pump do to the packets in it, and the heart of it is PumpOnceMoves: one *)
(* call of pump_once passes some packets of each queue and loses at most   *)
(* one of them all.  The rest follows from that for every number of        *)
(* handles, instances and packets.                                         *)
(***************************************************************************)
EXTENDS DataPlane, SequenceTheorems, TLAPS

-----------------------------------------------------------------------------
(* Sequences.                                                              *)

(* The part of a sequence after its first k elements.                      *)
LEMMA Rest ==
  ASSUME NEW S, NEW s \in Seq(S), NEW k \in 0..Len(s)
  PROVE  /\ SubSeq(s, k + 1, Len(s)) \in Seq(S)
         /\ Len(SubSeq(s, k + 1, Len(s))) = Len(s) - k
         /\ \A i \in 1..(Len(s) - k) : SubSeq(s, k + 1, Len(s))[i] = s[i + k]
  BY SubSeqProperties

(* The first k elements of a sequence.                                     *)
LEMMA First ==
  ASSUME NEW S, NEW s \in Seq(S), NEW k \in 0..Len(s)
  PROVE  /\ SubSeq(s, 1, k) \in Seq(S)
         /\ Len(SubSeq(s, 1, k)) = k
         /\ \A i \in 1..k : SubSeq(s, 1, k)[i] = s[i]
  BY SubSeqProperties

(* The concatenation of two sequences.                                     *)
LEMMA Joined ==
  ASSUME NEW a \in Seq(Nat), NEW b \in Seq(Nat)
  PROVE  /\ a \o b \in Seq(Nat)
         /\ Len(a) \in Nat /\ Len(b) \in Nat
         /\ Len(a \o b) = Len(a) + Len(b)
         /\ \A i \in 1..Len(a) : (a \o b)[i] = a[i]
         /\ \A i \in 1..Len(b) : (a \o b)[Len(a) + i] = b[i]
<1>1. Len(a) \in Nat /\ Len(b) \in Nat
  BY LenProperties
<1>2. /\ a \o b \in Seq(Nat)
      /\ Len(a \o b) = Len(a) + Len(b)
      /\ \A i \in 1..(Len(a) + Len(b)) : (a \o b)[i] = IF i <= Len(a) THEN a[i] ELSE b[i - Len(a)]
  BY ConcatProperties
<1> DEFINE c == a \o b
<1> HIDE DEF c
<1>3. \A i \in 1..(Len(a) + Len(b)) : c[i] = IF i <= Len(a) THEN a[i] ELSE b[i - Len(a)]
  BY <1>2 DEF c
<1>4. ASSUME NEW i \in 1..Len(a) PROVE c[i] = a[i]
  <2>1. i \in 1..(Len(a) + Len(b)) /\ i <= Len(a)
    BY <1>1
  <2> QED
    BY <2>1, <1>3
<1>5. ASSUME NEW i \in 1..Len(b) PROVE c[Len(a) + i] = b[i]
  <2>1. /\ Len(a) + i \in 1..(Len(a) + Len(b))
        /\ ~(Len(a) + i <= Len(a))
        /\ (Len(a) + i) - Len(a) = i
    BY <1>1
  <2> QED
    BY <2>1, <1>3
<1> QED
  BY <1>1, <1>2, <1>4, <1>5 DEF c

(* A sequence that leaves out a part of an increasing one.                 *)
LEMMA GapStaysInOrder ==
  ASSUME NEW s \in Seq(Nat), NEW t \in Seq(Nat), NEW k \in Nat, NEW d \in Nat,
         Increasing(s), k <= Len(t), Len(t) + d = Len(s),
         \A i \in 1..k : t[i] = s[i],
         \A i \in (k + 1)..Len(t) : t[i] = s[i + d]
  PROVE  Increasing(t)
<1>1. Len(s) \in Nat /\ Len(t) \in Nat
  BY LenProperties
<1> SUFFICES ASSUME NEW i \in 1..Len(t), NEW j \in 1..Len(t), i < j
             PROVE  t[i] < t[j]
  BY DEF Increasing
<1>2. CASE j <= k
  <2>1. i \in 1..k /\ j \in 1..k /\ i \in 1..Len(s) /\ j \in 1..Len(s)
    BY <1>1, <1>2
  <2> QED
    BY <2>1 DEF Increasing
<1>3. CASE i <= k /\ k < j
  <2>1. /\ i \in 1..k /\ j \in (k + 1)..Len(t)
        /\ i \in 1..Len(s) /\ j + d \in 1..Len(s) /\ i < j + d
    BY <1>1, <1>3
  <2> QED
    BY <2>1 DEF Increasing
<1>4. CASE k < i
  <2>1. /\ i \in (k + 1)..Len(t) /\ j \in (k + 1)..Len(t)
        /\ i + d \in 1..Len(s) /\ j + d \in 1..Len(s) /\ i + d < j + d
    BY <1>1, <1>4
  <2> QED
    BY <2>1 DEF Increasing
<1> QED
  BY <1>1, <1>2, <1>3, <1>4

(* The values of a sequence of numbers are at most n.                      *)
UpTo(s, n) == \A i \in 1..Len(s) : s[i] <= n

(* Packets that move from the front of one sequence to the end of another, *)
(* with some lost in between, stay in order.                               *)
LEMMA MovedStayInOrder ==
  ASSUME NEW a \in Seq(Nat), NEW b \in Seq(Nat),
         NEW n \in 0..Len(b), NEW m \in n..Len(b), NEW top \in Nat,
         Increasing(a \o b), UpTo(a \o b, top)
  PROVE  /\ Increasing((a \o SubSeq(b, 1, n)) \o SubSeq(b, m + 1, Len(b)))
         /\ UpTo((a \o SubSeq(b, 1, n)) \o SubSeq(b, m + 1, Len(b)), top)
<1> DEFINE s == a \o b
           f == SubSeq(b, 1, n)
           r == SubSeq(b, m + 1, Len(b))
           u == a \o f
           t == u \o r
           k == Len(a) + n
           d == m - n
<1>0. Len(a) \in Nat /\ Len(b) \in Nat /\ m \in 0..Len(b)
  BY LenProperties
<1>1. f \in Seq(Nat) /\ Len(f) = n /\ \A i \in 1..n : f[i] = b[i]
  BY First
<1>2. r \in Seq(Nat) /\ Len(r) = Len(b) - m /\ \A i \in 1..(Len(b) - m) : r[i] = b[i + m]
  BY <1>0, Rest
<1>3. /\ s \in Seq(Nat) /\ Len(s) = Len(a) + Len(b)
      /\ \A i \in 1..Len(a) : s[i] = a[i]
      /\ \A i \in 1..Len(b) : s[Len(a) + i] = b[i]
  BY Joined
<1> HIDE DEF f, r
<1>4. /\ u \in Seq(Nat) /\ Len(u) = Len(a) + Len(f)
      /\ \A i \in 1..Len(a) : u[i] = a[i]
      /\ \A i \in 1..Len(f) : u[Len(a) + i] = f[i]
  <2>1. f \in Seq(Nat)
    BY <1>1
  <2> QED
    BY <2>1, Joined
<1> HIDE DEF u
<1>5. /\ t \in Seq(Nat) /\ Len(t) = Len(u) + Len(r)
      /\ \A i \in 1..Len(u) : t[i] = u[i]
      /\ \A i \in 1..Len(r) : t[Len(u) + i] = r[i]
  <2>1. u \in Seq(Nat) /\ r \in Seq(Nat)
    BY <1>2, <1>4
  <2> QED
    BY <2>1, Joined
<1>6. Increasing(s) /\ UpTo(s, top)
  OBVIOUS
<1> HIDE DEF s, t
<1>7. /\ k \in Nat /\ d \in Nat /\ k <= Len(t) /\ Len(t) + d = Len(s) /\ Len(u) = k
  BY <1>0, <1>1, <1>2, <1>3, <1>4, <1>5
<1>8. ASSUME NEW i \in 1..k PROVE t[i] = s[i]
  <2>1. t[i] = u[i]
    BY <1>5, <1>7
  <2>2. CASE i <= Len(a)
    <3>1. i \in 1..Len(a)
      BY <1>0, <2>2
    <3> QED
      BY <3>1, <2>1, <1>3, <1>4
  <2>3. CASE Len(a) < i
    <3> DEFINE j == i - Len(a)
    <3>1. j \in 1..n /\ j \in 1..Len(b) /\ Len(a) + j = i
      BY <1>0, <2>3
    <3> HIDE DEF j
    <3>2. u[Len(a) + j] = f[j] /\ f[j] = b[j] /\ s[Len(a) + j] = b[j]
      BY <3>1, <1>1, <1>3, <1>4
    <3> QED
      BY <3>1, <3>2, <2>1
  <2> QED
    BY <1>0, <2>2, <2>3
<1>9. ASSUME NEW i \in (k + 1)..Len(t) PROVE t[i] = s[i + d]
  <2> DEFINE j == i - k
  <2>0. Len(t) = k + (Len(b) - m) /\ i \in Nat /\ k \in Nat /\ k < i /\ i <= Len(t)
    BY <1>0, <1>2, <1>5, <1>7
  <2>1. /\ j \in 1..(Len(b) - m) /\ j \in 1..Len(r) /\ j + m \in 1..Len(b)
        /\ Len(u) + j = i /\ Len(a) + (j + m) = i + d
    BY <2>0, <1>0, <1>2, <1>7
  <2> HIDE DEF j
  <2>2. t[Len(u) + j] = r[j] /\ r[j] = b[j + m]
    BY <2>1, <1>2, <1>5
  <2>3. s[Len(a) + (j + m)] = b[j + m]
    BY <2>1, <1>3
  <2> HIDE DEF d
  <2> QED
    BY <2>1, <2>2, <2>3
<1> HIDE DEF k, d
<1>10. Increasing(t)
  BY <1>3, <1>5, <1>6, <1>7, <1>8, <1>9, GapStaysInOrder
<1>11. UpTo(t, top)
  <2> SUFFICES ASSUME NEW i \in 1..Len(t) PROVE t[i] <= top
    BY DEF UpTo
  <2>1. Len(t) \in Nat /\ Len(s) \in Nat
    BY <1>3, <1>5, LenProperties
  <2>2. CASE i <= k
    <3>1. i \in 1..k /\ i \in 1..Len(s)
      BY <1>7, <2>1, <2>2
    <3> QED
      BY <3>1, <1>6, <1>8 DEF UpTo
  <2>3. CASE k < i
    <3>1. i \in (k + 1)..Len(t) /\ i + d \in 1..Len(s)
      BY <1>7, <2>1, <2>3
    <3> QED
      BY <3>1, <1>6, <1>9 DEF UpTo
  <2> QED
    BY <1>7, <2>1, <2>2, <2>3
<1> QED
  BY <1>10, <1>11 DEF t, u, f, r

(* A packet with a new number can be queued behind the others.             *)
LEMMA QueuedStaysInOrder ==
  ASSUME NEW a \in Seq(Nat), NEW b \in Seq(Nat), NEW n \in Nat,
         Increasing(a \o b), UpTo(a \o b, n)
  PROVE  /\ Increasing(a \o Append(b, n + 1))
         /\ UpTo(a \o Append(b, n + 1), n + 1)
<1> DEFINE s == a \o b
           c == Append(b, n + 1)
           t == a \o c
<1>1. /\ c \in Seq(Nat) /\ Len(c) = Len(b) + 1 /\ Len(b) \in Nat /\ Len(a) \in Nat
      /\ c[Len(b) + 1] = n + 1
      /\ \A i \in 1..Len(b) : c[i] = b[i]
  BY AppendProperties, LenProperties
<1>2. /\ s \in Seq(Nat) /\ Len(s) = Len(a) + Len(b)
      /\ \A i \in 1..Len(a) : s[i] = a[i]
      /\ \A i \in 1..Len(b) : s[Len(a) + i] = b[i]
  BY Joined
<1> HIDE DEF c
<1>3. /\ t \in Seq(Nat) /\ Len(t) = Len(a) + Len(c)
      /\ \A i \in 1..Len(a) : t[i] = a[i]
      /\ \A i \in 1..Len(c) : t[Len(a) + i] = c[i]
  <2>1. c \in Seq(Nat)
    BY <1>1
  <2> QED
    BY <2>1, Joined
<1>4. Increasing(s) /\ UpTo(s, n)
  OBVIOUS
<1> HIDE DEF s, t
<1>5. ASSUME NEW i \in 1..Len(s) PROVE t[i] = s[i] /\ s[i] \in Nat /\ s[i] <= n
  <2>1. s[i] \in Nat /\ s[i] <= n
    BY <1>2, <1>4, ElementOfSeq DEF UpTo
  <2>2. CASE i <= Len(a)
    <3>1. i \in 1..Len(a)
      BY <2>2, <1>1
    <3> QED
      BY <3>1, <2>1, <1>2, <1>3
  <2>3. CASE Len(a) < i
    <3> DEFINE j == i - Len(a)
    <3>1. j \in 1..Len(b) /\ j \in 1..Len(c) /\ Len(a) + j = i
      BY <2>3, <1>1, <1>2
    <3> HIDE DEF j
    <3>2. t[Len(a) + j] = c[j] /\ c[j] = b[j] /\ s[Len(a) + j] = b[j]
      BY <3>1, <1>1, <1>2, <1>3
    <3> QED
      BY <3>1, <3>2, <2>1
  <2> QED
    BY <2>2, <2>3, <1>1
<1>6. Len(s) \in Nat /\ Len(t) = Len(s) + 1 /\ t[Len(s) + 1] = n + 1
  <2>1. Len(b) + 1 \in 1..Len(c) /\ Len(a) + (Len(b) + 1) = Len(s) + 1 /\ Len(s) \in Nat
    BY <1>1, <1>2
  <2>2. t[Len(a) + (Len(b) + 1)] = c[Len(b) + 1]
    BY <2>1, <1>3
  <2> QED
    BY <2>1, <2>2, <1>1, <1>3
<1>7. \A x \in 1..Len(t) : x # Len(s) + 1 => x \in 1..Len(s)
  BY <1>6
<1>8. Increasing(t)
  <2> SUFFICES ASSUME NEW i \in 1..Len(t), NEW j \in 1..Len(t), i < j
               PROVE  t[i] < t[j]
    BY DEF Increasing
  <2>1. i \in 1..Len(s)
    BY <1>6
  <2>2. CASE j = Len(s) + 1
    BY <2>1, <2>2, <1>5, <1>6
  <2>3. CASE j # Len(s) + 1
    <3>1. j \in 1..Len(s)
      BY <2>3, <1>7
    <3> QED
      BY <2>1, <3>1, <1>4, <1>5 DEF Increasing
  <2> QED
    BY <2>2, <2>3
<1>9. UpTo(t, n + 1)
  <2> SUFFICES ASSUME NEW i \in 1..Len(t) PROVE t[i] <= n + 1
    BY DEF UpTo
  <2>1. CASE i = Len(s) + 1
    BY <2>1, <1>6
  <2>2. CASE i # Len(s) + 1
    <3>1. i \in 1..Len(s)
      BY <2>2, <1>6
    <3> QED
      BY <3>1, <1>5
  <2> QED
    BY <2>1, <2>2
<1> QED
  BY <1>8, <1>9 DEF t, c

-----------------------------------------------------------------------------
(* Pumps.                                                                  *)

(* Taking nothing, and taking everything.                                  *)
LEMMA NothingTaken ==
  ASSUME NEW S, NEW a \in Seq(S), NEW b \in Seq(S)
  PROVE  /\ SubSeq(b, 1, 0) = <<>> /\ a \o SubSeq(b, 1, 0) = a
         /\ SubSeq(b, 1, Len(b)) = b
         /\ SubSeq(b, Len(b) + 1, Len(b)) = <<>>
<1>1. SubSeq(b, 1, 0) = <<>> /\ SubSeq(b, Len(b) + 1, Len(b)) = <<>>
  BY SubSeqEmpty, LenProperties
<1>2. a \o <<>> = a
  BY ConcatEmptySeq
<1>3. SubSeq(b, 1, Len(b)) = b
  BY SubSeqFull
<1> QED
  BY <1>1, <1>2, <1>3

(* What is true of every way a loop of pump_once can end.                  *)
EndOf(end, queue) ==
  /\ end.turns \in 0..Len(queue)
  /\ end.error \in {"none", "TransportFailed", "PacketEngineFailed"}
  /\ end.error = "none" => end.turns = Len(queue)
  /\ end.error # "none" => end.turns < Len(queue)

LEMMA EndsOfLoops ==
  ASSUME NEW S, NEW p \in Pump(S)
  PROVE  /\ \A out \in OutboundEnds(p) : EndOf(out, p.device)
         /\ \A in \in InboundEnds(p) : EndOf(in, p.inbound)
<1>1. Len(p.device) \in Nat /\ Len(p.inbound) \in Nat
  BY LenProperties DEF Pump
<1> DEFINE w == Len(p.device)
           v == Len(p.inbound)
<1>2. \A out \in OutboundEnds(p) :
        /\ out.turns \in 0..w
        /\ out.error \in {"none", "TransportFailed", "PacketEngineFailed"}
        /\ out.error = "none" => out.turns = w
        /\ out.error # "none" => out.turns < w
  BY <1>1 DEF OutboundEnds
<1>3. \A in \in InboundEnds(p) :
        /\ in.turns \in 0..v
        /\ in.error \in {"none", "TransportFailed", "PacketEngineFailed"}
        /\ in.error = "none" => in.turns = v
        /\ in.error # "none" => in.turns < v
  BY <1>1 DEF InboundEnds
<1> QED
  BY <1>2, <1>3 DEF EndOf

(* q is p after n packets went out and m came in, and l and k more were    *)
(* taken from the queues and lost.                                         *)
Moves(p, q, n, l, m, k) ==
  /\ n \in 0..Len(p.device) /\ l \in 0..1 /\ n + l <= Len(p.device)
  /\ m \in 0..Len(p.inbound) /\ k \in 0..1 /\ m + k <= Len(p.inbound)
  /\ q.sent = p.sent \o SubSeq(p.device, 1, n)
  /\ q.device = SubSeq(p.device, n + l + 1, Len(p.device))
  /\ q.delivered = p.delivered \o SubSeq(p.inbound, 1, m)
  /\ q.stack = p.stack \o SubSeq(p.inbound, 1, m)
  /\ q.inbound = SubSeq(p.inbound, m + k + 1, Len(p.inbound))

Queues(q) == <<q.device, q.inbound, q.sent, q.delivered, q.stack>>

(* A call on a pump that does not run moves nothing.                       *)
LEMMA StillMoves ==
  ASSUME NEW S, NEW p \in Pump(S), NEW q, Queues(q) = Queues(p)
  PROVE  Moves(p, q, 0, 0, 0, 0)
<1>1. /\ p.device \in Seq(S) /\ p.inbound \in Seq(S) /\ p.sent \in Seq(S)
      /\ p.delivered \in Seq(S) /\ p.stack \in Seq(S)
  BY DEF Pump
<1>2. /\ q.device = p.device /\ q.inbound = p.inbound /\ q.sent = p.sent
      /\ q.delivered = p.delivered /\ q.stack = p.stack
  BY DEF Queues
<1>3. Len(p.device) \in Nat /\ Len(p.inbound) \in Nat
  BY <1>1, LenProperties
<1>4. p.sent \o SubSeq(p.device, 1, 0) = p.sent /\ SubSeq(p.device, 1, Len(p.device)) = p.device
  BY <1>1, NothingTaken
<1>5. /\ p.delivered \o SubSeq(p.inbound, 1, 0) = p.delivered
      /\ p.stack \o SubSeq(p.inbound, 1, 0) = p.stack
      /\ SubSeq(p.inbound, 1, Len(p.inbound)) = p.inbound
  BY <1>1, NothingTaken
<1> QED
  BY <1>2, <1>3, <1>4, <1>5 DEF Moves

(* The fields of a pump after its outbound loop.                           *)
LEMMA OutboundFields ==
  ASSUME NEW S, NEW p \in Pump(S), NEW out \in OutboundEnds(p)
  PROVE  LET q == Outbound(p, out) IN
         /\ q \in Pump(S)
         /\ q.sent = p.sent \o SubSeq(p.device, 1, out.turns)
         /\ q.device = Kept(p.device, out)
         /\ q.inbound = p.inbound /\ q.delivered = p.delivered /\ q.stack = p.stack
         /\ q.engine = p.engine /\ q.lifecycle = p.lifecycle /\ q.last_error = p.last_error
         /\ ~p.fail_next_send => ~q.fail_next_send
<1>1. EndOf(out, p.device)
  BY EndsOfLoops
<1>2. /\ p.device \in Seq(S) /\ p.inbound \in Seq(S) /\ p.sent \in Seq(S)
      /\ p.delivered \in Seq(S) /\ p.stack \in Seq(S) /\ Len(p.device) \in Nat
  BY LenProperties DEF Pump
<1>3. SubSeq(p.device, 1, out.turns) \in Seq(S)
  BY <1>1, <1>2, First DEF EndOf
<1>4. p.sent \o SubSeq(p.device, 1, out.turns) \in Seq(S)
  BY <1>2, <1>3, ConcatProperties
<1>5. Kept(p.device, out) \in Seq(S)
  <2>1. CASE out.error = "none"
    <3>1. SubSeq(p.device, out.turns + 1, Len(p.device)) \in Seq(S)
      BY <1>1, <1>2, Rest DEF EndOf
    <3> QED
      BY <3>1, <2>1 DEF Kept
  <2>2. CASE out.error # "none"
    <3>1. out.turns + 1 \in 0..Len(p.device) /\ (out.turns + 1) + 1 = out.turns + 2
      BY <1>1, <1>2, <2>2 DEF EndOf
    <3>2. SubSeq(p.device, (out.turns + 1) + 1, Len(p.device)) \in Seq(S)
      BY <1>2, <3>1, Rest
    <3> QED
      BY <3>1, <3>2, <2>2 DEF Kept
  <2> QED
    BY <2>1, <2>2
<1> DEFINE s == p.sent \o SubSeq(p.device, 1, out.turns)
           d == Kept(p.device, out)
           f == p.fail_next_send /\ out.error # "TransportFailed"
<1>6. f \in BOOLEAN
  OBVIOUS
<1>7. Outbound(p, out) = [p EXCEPT !.sent = s, !.device = d, !.fail_next_send = f]
  BY DEF Outbound
<1>8. s \in Seq(S) /\ d \in Seq(S)
  BY <1>4, <1>5
<1> HIDE DEF s, d, f
<1>9. /\ [p EXCEPT !.sent = s, !.device = d, !.fail_next_send = f] \in Pump(S)
      /\ [p EXCEPT !.sent = s, !.device = d, !.fail_next_send = f].sent = s
      /\ [p EXCEPT !.sent = s, !.device = d, !.fail_next_send = f].device = d
      /\ [p EXCEPT !.sent = s, !.device = d, !.fail_next_send = f].fail_next_send = f
  BY <1>6, <1>8 DEF Pump
<1>10. ~p.fail_next_send => ~f
  BY DEF f
<1> QED
  BY <1>7, <1>9, <1>10 DEF Pump, s, d

(* What a loop leaves in its queue.                                        *)
LEMMA KeptRest ==
  ASSUME NEW S, NEW queue \in Seq(S), NEW end, EndOf(end, queue)
  PROVE  \E l \in 0..1 :
           /\ end.turns + l <= Len(queue)
           /\ Kept(queue, end) = SubSeq(queue, end.turns + l + 1, Len(queue))
           /\ l = IF end.error = "none" THEN 0 ELSE 1
           /\ Kept(queue, end) \in Seq(S)
<1>1. Len(queue) \in Nat /\ end.turns \in Nat /\ end.turns <= Len(queue)
  BY LenProperties DEF EndOf
<1>2. CASE end.error = "none"
  <2>1. Kept(queue, end) = SubSeq(queue, end.turns + 1, Len(queue)) /\ end.turns + 0 + 1 = end.turns + 1
    BY <1>1, <1>2 DEF Kept
  <2>2. SubSeq(queue, end.turns + 1, Len(queue)) \in Seq(S)
    BY <1>1, Rest DEF EndOf
  <2> WITNESS 0 \in 0..1
  <2> QED
    BY <1>1, <1>2, <2>1, <2>2
<1>3. CASE end.error # "none"
  <2>1. Kept(queue, end) = SubSeq(queue, end.turns + 2, Len(queue)) /\ end.turns + 1 + 1 = end.turns + 2
    BY <1>1, <1>3 DEF Kept
  <2>2. end.turns + 1 \in 0..Len(queue)
    BY <1>1, <1>3 DEF EndOf
  <2>3. SubSeq(queue, (end.turns + 1) + 1, Len(queue)) \in Seq(S)
    BY <2>2, Rest
  <2>4. /\ Kept(queue, end) = SubSeq(queue, end.turns + 1 + 1, Len(queue))
        /\ Kept(queue, end) \in Seq(S)
    BY <2>1, <2>3
  <2>5. end.turns + 1 <= Len(queue)
    BY <1>1, <2>2
  <2> WITNESS 1 \in 0..1
  <2> QED
    BY <1>3, <2>4, <2>5
<1> QED
  BY <1>2, <1>3

(* The fields of a pump after its inbound loop, when nothing waits to      *)
(* leave: then the stack receives what arrived, and nothing else.          *)
LEMMA InboundFields ==
  ASSUME NEW S, NEW p \in Pump(S), NEW in \in InboundEnds(p), p.device = <<>>
  PROVE  LET q == Inbound(p, in) IN
         /\ q \in Pump(S)
         /\ q.sent = p.sent /\ q.device = <<>>
         /\ q.inbound = Kept(p.inbound, in)
         /\ q.delivered = p.delivered \o SubSeq(p.inbound, 1, in.turns)
         /\ q.stack = p.stack \o SubSeq(p.inbound, 1, in.turns)
         /\ q.engine = p.engine /\ q.lifecycle = p.lifecycle /\ q.last_error = p.last_error
         /\ q.fail_next_send = p.fail_next_send
<1> DEFINE arrived == SubSeq(p.inbound, 1, in.turns)
           through == p.device \o arrived
<1>1. EndOf(in, p.inbound)
  BY EndsOfLoops
<1>2. /\ p.device \in Seq(S) /\ p.inbound \in Seq(S) /\ p.sent \in Seq(S)
      /\ p.delivered \in Seq(S) /\ p.stack \in Seq(S)
  BY DEF Pump
<1>3. arrived \in Seq(S) /\ Len(arrived) = in.turns /\ in.turns \in Nat
  BY <1>1, <1>2, First DEF EndOf
<1> HIDE DEF arrived
<1>4. through = arrived
  BY <1>3, ConcatEmptySeq
<1>5. SubSeq(through, 1, in.turns) = arrived
  BY <1>3, <1>4, SubSeqFull
<1>6. SubSeq(through, in.turns + 1, Len(through)) = <<>>
  BY <1>3, <1>4, SubSeqEmpty
<1>7. Kept(p.inbound, in) \in Seq(S)
  BY <1>1, <1>2, KeptRest
<1> DEFINE v == p.delivered \o arrived
           w == p.stack \o arrived
           r == Kept(p.inbound, in)
<1>8. v \in Seq(S) /\ w \in Seq(S) /\ r \in Seq(S)
  BY <1>2, <1>3, <1>7, ConcatProperties
<1>9. Inbound(p, in) = [p EXCEPT !.inbound = r, !.delivered = v, !.stack = w, !.device = <<>>]
  BY <1>5, <1>6 DEF Inbound, arrived
<1>10. <<>> \in Seq(S)
  BY <1>2
<1> HIDE DEF v, w, r
<1>11. LET q == [p EXCEPT !.inbound = r, !.delivered = v, !.stack = w, !.device = <<>>] IN
       /\ q \in Pump(S) /\ q.inbound = r /\ q.delivered = v /\ q.stack = w
       /\ q.sent = p.sent /\ q.device = <<>>
       /\ q.engine = p.engine /\ q.lifecycle = p.lifecycle /\ q.last_error = p.last_error
       /\ q.fail_next_send = p.fail_next_send
  BY <1>8, <1>10 DEF Pump
<1> QED
  BY <1>9, <1>11 DEF v, w, r, arrived

(* An error changes the state of a pump and none of its queues.            *)
LEMMA FailFields ==
  ASSUME NEW S, NEW p \in Pump(S), NEW error \in PumpErrors
  PROVE  /\ fail(p, error) \in Pump(S)
         /\ Queues(fail(p, error)) = Queues(p)
         /\ fail(p, error).engine = p.engine
         /\ fail(p, error).lifecycle = "failed"
         /\ fail(p, error).last_error = error
         /\ Answer(fail(p, error)) = error
  BY DEF fail, Pump, Lifecycles, Queues, Answer

(* Which errors cost a packet.                                             *)
LEMMA FailedFields ==
  ASSUME NEW S, NEW p \in Pump(S), p.lifecycle = "running", NEW end,
         end.error \in {"none", "TransportFailed", "PacketEngineFailed"}
  PROVE  LET q == Failed(p, end) IN
         /\ q \in Pump(S)
         /\ Queues(q) = Queues(p)
         /\ q.engine = p.engine
         /\ LostBy(q) = IF end.error = "none" THEN 0 ELSE 1
         /\ Answer(q) = IF end.error = "none" THEN "ok" ELSE end.error
         /\ end.error = "none" => q.lifecycle = "running"
<1>1. CASE end.error = "none"
  BY <1>1 DEF Failed, LostBy, Answer
<1>2. CASE end.error # "none"
  <2>1. end.error \in PumpErrors /\ Failed(p, end) = fail(p, end.error)
    BY <1>2 DEF Failed, PumpErrors
  <2> QED
    BY <1>2, <2>1, FailFields DEF LostBy
<1> QED
  BY <1>1, <1>2

-----------------------------------------------------------------------------
(* One call of pump_once.                                                  *)

(* What it leaves, whatever happens in it: it moves packets, and loses as  *)
(* many as its answer tells of.                                            *)
TurnsInto(p, q) ==
  /\ \E n, m \in Nat, l, k \in 0..1 :
       Moves(p, q, n, l, m, k) /\ l + k = LostBy(q)
  /\ q.engine = p.engine
  /\ Answer(q) \in {"ok"} \cup PumpErrors
  /\ Answer(q) = "ok" => q.device = <<>> /\ q.inbound = <<>>
  /\ Len(q.device) > 0 => q.delivered = p.delivered

LEMMA PumpOnceMoves ==
  ASSUME NEW S, NEW p \in Pump(S),
         NEW out \in OutboundEnds(p), NEW in \in InboundEnds(p)
  PROVE  pump_once(p, out, in) \in Pump(S) /\ TurnsInto(p, pump_once(p, out, in))
<1> DEFINE q == pump_once(p, out, in)
<1>1. /\ p.device \in Seq(S) /\ p.inbound \in Seq(S) /\ p.sent \in Seq(S)
      /\ p.delivered \in Seq(S) /\ p.stack \in Seq(S)
      /\ Len(p.device) \in Nat /\ Len(p.inbound) \in Nat
  BY LenProperties DEF Pump
<1>2. EndOf(out, p.device) /\ EndOf(in, p.inbound)
  BY EndsOfLoops
<1>3. CASE p.lifecycle # "running"
  <2>1. q = fail(p, "NotRunning") /\ "NotRunning" \in PumpErrors
    BY <1>3 DEF pump_once, PumpErrors
  <2>2. /\ q \in Pump(S) /\ Queues(q) = Queues(p) /\ q.engine = p.engine
        /\ Answer(q) = "NotRunning"
    BY <2>1, FailFields
  <2> HIDE DEF q
  <2>3. Moves(p, q, 0, 0, 0, 0)
    BY <2>2, StillMoves
  <2>4. LostBy(q) = 0 + 0
    BY <2>2 DEF LostBy
  <2>5. q.delivered = p.delivered
    BY <2>2 DEF Queues
  <2> QED
    BY <2>1, <2>2, <2>3, <2>4, <2>5 DEF TurnsInto, q
<1>4. CASE p.lifecycle = "running" /\ out.error # "none"
  <2> DEFINE r == Outbound(p, out)
  <2>1. q = Failed(r, out)
    BY <1>4 DEF pump_once
  <2>2. /\ r \in Pump(S)
        /\ r.sent = p.sent \o SubSeq(p.device, 1, out.turns)
        /\ r.device = Kept(p.device, out)
        /\ r.inbound = p.inbound /\ r.delivered = p.delivered /\ r.stack = p.stack
        /\ r.engine = p.engine /\ r.lifecycle = "running"
    BY <1>4, OutboundFields
  <2> HIDE DEF r
  <2>3. /\ q \in Pump(S) /\ Queues(q) = Queues(r) /\ q.engine = r.engine
        /\ LostBy(q) = 1 /\ Answer(q) = out.error
    BY <1>2, <1>4, <2>1, <2>2, FailedFields DEF EndOf
  <2> HIDE DEF q
  <2>4. /\ out.turns + 1 <= Len(p.device)
        /\ Kept(p.device, out) = SubSeq(p.device, out.turns + 1 + 1, Len(p.device))
    BY <1>1, <1>2, <1>4, KeptRest
  <2>5. /\ q.sent = p.sent \o SubSeq(p.device, 1, out.turns)
        /\ q.device = SubSeq(p.device, out.turns + 1 + 1, Len(p.device))
        /\ q.inbound = p.inbound /\ q.delivered = p.delivered /\ q.stack = p.stack
    BY <2>2, <2>3, <2>4 DEF Queues
  <2>6. /\ p.delivered = p.delivered \o SubSeq(p.inbound, 1, 0)
        /\ p.stack = p.stack \o SubSeq(p.inbound, 1, 0)
        /\ p.inbound = SubSeq(p.inbound, 0 + 0 + 1, Len(p.inbound))
    BY <1>1, NothingTaken
  <2>7. out.turns \in 0..Len(p.device) /\ out.turns \in Nat
    BY <1>1, <1>2 DEF EndOf
  <2>8. Moves(p, q, out.turns, 1, 0, 0)
    BY <1>1, <2>4, <2>5, <2>6, <2>7 DEF Moves
  <2>9. LostBy(q) = 1 + 0 /\ Answer(q) # "ok" /\ Answer(q) \in PumpErrors
    BY <1>2, <1>4, <2>3 DEF EndOf, PumpErrors
  <2> QED
    BY <2>2, <2>3, <2>5, <2>7, <2>8, <2>9 DEF TurnsInto, q
<1>5. CASE p.lifecycle = "running" /\ out.error = "none"
  <2> DEFINE r == Outbound(p, out)
             t == Inbound(r, in)
  <2>1. q = Failed(t, in)
    BY <1>5 DEF pump_once
  <2>2. /\ r \in Pump(S)
        /\ r.sent = p.sent \o SubSeq(p.device, 1, out.turns)
        /\ r.device = Kept(p.device, out)
        /\ r.inbound = p.inbound /\ r.delivered = p.delivered /\ r.stack = p.stack
        /\ r.engine = p.engine /\ r.lifecycle = "running"
    BY <1>5, OutboundFields
  <2>3. out.turns = Len(p.device)
    BY <1>2, <1>5 DEF EndOf
  <2>4. /\ r.device = SubSeq(p.device, Len(p.device) + 0 + 1, Len(p.device))
        /\ r.device = <<>>
    BY <1>1, <1>5, <2>2, <2>3, NothingTaken DEF Kept
  <2> HIDE DEF r
  <2>5. in \in InboundEnds(r)
    BY <2>2 DEF InboundEnds
  <2>6. /\ t \in Pump(S)
        /\ t.sent = r.sent /\ t.device = <<>>
        /\ t.inbound = Kept(r.inbound, in)
        /\ t.delivered = r.delivered \o SubSeq(r.inbound, 1, in.turns)
        /\ t.stack = r.stack \o SubSeq(r.inbound, 1, in.turns)
        /\ t.engine = r.engine /\ t.lifecycle = r.lifecycle
    BY <2>2, <2>4, <2>5, InboundFields
  <2> HIDE DEF t
  <2>7. /\ q \in Pump(S) /\ Queues(q) = Queues(t) /\ q.engine = t.engine
        /\ LostBy(q) = IF in.error = "none" THEN 0 ELSE 1
        /\ Answer(q) = IF in.error = "none" THEN "ok" ELSE in.error
    <3>1. t \in Pump(S) /\ t.lifecycle = "running"
      BY <2>2, <2>6
    <3>2. in.error \in {"none", "TransportFailed", "PacketEngineFailed"}
      BY <1>2 DEF EndOf
    <3> HIDE DEF q
    <3> QED
      BY <2>1, <3>1, <3>2, FailedFields
  <2> HIDE DEF q
  <2>8. PICK k \in 0..1 :
          /\ in.turns + k <= Len(p.inbound)
          /\ Kept(p.inbound, in) = SubSeq(p.inbound, in.turns + k + 1, Len(p.inbound))
          /\ k = IF in.error = "none" THEN 0 ELSE 1
    BY <1>1, <1>2, KeptRest
  <2>9. /\ q.sent = p.sent \o SubSeq(p.device, 1, Len(p.device))
        /\ q.device = SubSeq(p.device, Len(p.device) + 0 + 1, Len(p.device))
        /\ q.delivered = p.delivered \o SubSeq(p.inbound, 1, in.turns)
        /\ q.stack = p.stack \o SubSeq(p.inbound, 1, in.turns)
        /\ q.inbound = SubSeq(p.inbound, in.turns + k + 1, Len(p.inbound))
        /\ q.device = <<>>
    BY <2>2, <2>3, <2>4, <2>6, <2>7, <2>8 DEF Queues
  <2>10. in.turns \in 0..Len(p.inbound) /\ in.turns \in Nat
    BY <1>1, <1>2 DEF EndOf
  <2>11. Moves(p, q, Len(p.device), 0, in.turns, k)
    BY <1>1, <2>8, <2>9, <2>10 DEF Moves
  <2>12. LostBy(q) = 0 + k
    BY <2>7, <2>8
  <2>13. Answer(q) = "ok" => q.inbound = <<>>
    <3> SUFFICES ASSUME Answer(q) = "ok" PROVE q.inbound = <<>>
      OBVIOUS
    <3>1. in.error = "none"
      BY <1>2, <2>7 DEF EndOf
    <3>2. in.turns + k + 1 = Len(p.inbound) + 1
      BY <1>1, <1>2, <2>8, <3>1 DEF EndOf
    <3> QED
      BY <1>1, <2>9, <3>2, NothingTaken
  <2>14. ~(Len(q.device) > 0)
    BY <2>9
  <2>15. Answer(q) \in {"ok"} \cup PumpErrors
    BY <1>2, <2>7 DEF EndOf, PumpErrors
  <2> QED
    BY <1>1, <2>2, <2>6, <2>7, <2>9, <2>10, <2>11, <2>12, <2>13, <2>14, <2>15 DEF TurnsInto, q
<1> QED
  BY <1>3, <1>4, <1>5

-----------------------------------------------------------------------------
(* The other operations of a pump.                                         *)

LEMMA NewPumpFields ==
  ASSUME NEW S, NEW engine \in Engines
  PROVE  NewPump(engine) \in Pump(S) /\ start(NewPump(engine)) \in Pump(S)
<1>1. <<>> \in Seq(S)
  OBVIOUS
<1>2. NewPump(engine) \in Pump(S)
  BY <1>1 DEF NewPump, Pump, Lifecycles
<1>3. start(NewPump(engine)) \in Pump(S)
  BY <1>1 DEF start, NewPump, Pump, Lifecycles
<1> QED
  BY <1>2, <1>3

LEMMA StartFields ==
  ASSUME NEW S, NEW p \in Pump(S)
  PROVE  /\ start(p) \in Pump(S) /\ Queues(start(p)) = Queues(p)
         /\ Answer(start(p)) \in {"ok"} \cup PumpErrors
<1>1. CASE p.lifecycle = "running"
  <2>1. start(p) = fail(p, "AlreadyRunning") /\ "AlreadyRunning" \in PumpErrors
    BY <1>1 DEF start, PumpErrors
  <2> QED
    BY <2>1, FailFields
<1>2. CASE p.lifecycle # "running"
  BY <1>2 DEF start, Pump, Lifecycles, Queues, Answer
<1> QED
  BY <1>1, <1>2

LEMMA StopFields ==
  ASSUME NEW S, NEW p \in Pump(S)
  PROVE  /\ stop(p) \in Pump(S) /\ Queues(stop(p)) = Queues(p)
         /\ Answer(stop(p)) \in {"ok"} \cup PumpErrors
  BY DEF stop, Pump, Lifecycles, Queues, Answer

LEMMA FailNextFields ==
  ASSUME NEW S, NEW p \in Pump(S)
  PROVE  /\ fail_next_transport_send(p) \in Pump(S)
         /\ Queues(fail_next_transport_send(p)) = Queues(p)
  BY DEF fail_next_transport_send, Pump, Queues

LEMMA QueueOutFields ==
  ASSUME NEW S, NEW p \in Pump(S), NEW x \in S
  PROVE  LET q == queue_outbound_ip_packet(p, x) IN
         /\ q \in Pump(S)
         /\ q.device = Append(p.device, x)
         /\ q.inbound = p.inbound /\ q.sent = p.sent
         /\ q.delivered = p.delivered /\ q.stack = p.stack
         /\ q.engine = p.engine /\ q.lifecycle = p.lifecycle
         /\ q.fail_next_send = p.fail_next_send
<1> DEFINE d == Append(p.device, x)
<1>1. d \in Seq(S)
  BY AppendProperties DEF Pump
<1> HIDE DEF d
<1>2. LET q == [p EXCEPT !.device = d] IN
         /\ q \in Pump(S)
         /\ q.device = d
         /\ q.inbound = p.inbound /\ q.sent = p.sent
         /\ q.delivered = p.delivered /\ q.stack = p.stack
         /\ q.engine = p.engine /\ q.lifecycle = p.lifecycle
         /\ q.fail_next_send = p.fail_next_send
  BY <1>1 DEF Pump
<1>3. queue_outbound_ip_packet(p, x) = [p EXCEPT !.device = d]
  BY DEF queue_outbound_ip_packet, d
<1> QED
  BY <1>2, <1>3 DEF d

LEMMA QueueInFields ==
  ASSUME NEW S, NEW p \in Pump(S), NEW x \in S
  PROVE  LET q == queue_inbound_wireguard_packet(p, x) IN
         /\ q \in Pump(S)
         /\ q.inbound = Append(p.inbound, x)
         /\ q.device = p.device /\ q.sent = p.sent
         /\ q.delivered = p.delivered /\ q.stack = p.stack
<1> DEFINE d == Append(p.inbound, x)
<1>1. d \in Seq(S)
  BY AppendProperties DEF Pump
<1> HIDE DEF d
<1>2. LET q == [p EXCEPT !.inbound = d] IN
         /\ q \in Pump(S)
         /\ q.inbound = d
         /\ q.device = p.device /\ q.sent = p.sent
         /\ q.delivered = p.delivered /\ q.stack = p.stack
  BY <1>1 DEF Pump
<1>3. queue_inbound_wireguard_packet(p, x) = [p EXCEPT !.inbound = d]
  BY DEF queue_inbound_wireguard_packet, d
<1> QED
  BY <1>2, <1>3 DEF d

-----------------------------------------------------------------------------
(* What a pump keeps true of its packets, when o were offered to it, f of  *)
(* them were told to have failed, and top is the last number given.        *)

Accounted(p, o, f, top) ==
  /\ p.stack = p.delivered
  /\ Increasing(p.sent \o p.device) /\ UpTo(p.sent \o p.device, top)
  /\ Increasing(p.delivered \o p.inbound) /\ UpTo(p.delivered \o p.inbound, top)
  /\ o = f + Len(p.sent) + Len(p.device) + Len(p.delivered) + Len(p.inbound)

PumpTypes(p) ==
  /\ p.device \in Seq(Nat) /\ p.inbound \in Seq(Nat) /\ p.sent \in Seq(Nat)
  /\ p.delivered \in Seq(Nat) /\ p.stack \in Seq(Nat)
  /\ Len(p.device) \in Nat /\ Len(p.inbound) \in Nat
  /\ Len(p.sent) \in Nat /\ Len(p.delivered) \in Nat

LEMMA PumpsHoldNumbers ==
  ASSUME NEW p \in Pump(Packets)
  PROVE  PumpTypes(p)
<1>1. Packets \subseteq Nat
  BY DEF Packets
<1>2. \A s \in Seq(Packets) : s \in Seq(Nat) /\ Len(s) \in Nat
  <2> TAKE s \in Seq(Packets)
  <2>1. Len(s) \in Nat /\ s \in [1..Len(s) -> Packets]
    BY LenProperties
  <2>2. s \in [1..Len(s) -> Nat]
    BY <1>1, <2>1
  <2> QED
    BY <2>1, <2>2, IsASeq
<1> QED
  BY <1>2 DEF Pump, PumpTypes

LEMMA NewAccounted ==
  ASSUME NEW engine, NEW top \in Nat
  PROVE  Accounted(NewPump(engine), 0, 0, top)
<1> DEFINE e == <<>>
<1>1. e \o e = e /\ Len(e) = 0
  <2>1. e \in Seq(Nat)
    OBVIOUS
  <2> QED
    BY <2>1, ConcatEmptySeq
<1>2. Increasing(e) /\ UpTo(e, top)
  BY DEF Increasing, UpTo
<1> QED
  BY <1>1, <1>2 DEF Accounted, NewPump

LEMMA StillAccounted ==
  ASSUME NEW p, NEW q, NEW o, NEW f, NEW top,
         Accounted(p, o, f, top), Queues(q) = Queues(p)
  PROVE  Accounted(q, o, f, top)
  BY DEF Accounted, Queues

LEMMA LaterAccounted ==
  ASSUME NEW p \in Pump(Packets), NEW o, NEW f, NEW top \in Nat,
         Accounted(p, o, f, top)
  PROVE  Accounted(p, o, f, top + 1)
<1> DEFINE a == p.sent \o p.device
           b == p.delivered \o p.inbound
<1>1. a \in Seq(Nat) /\ b \in Seq(Nat)
  BY PumpsHoldNumbers, Joined DEF PumpTypes
<1>2. UpTo(a, top) /\ UpTo(b, top)
  BY DEF Accounted
<1> HIDE DEF a, b
<1>3. \A i \in 1..Len(a) : a[i] \in Nat
  BY <1>1, ElementOfSeq
<1>4. \A i \in 1..Len(b) : b[i] \in Nat
  BY <1>1, ElementOfSeq
<1>5. UpTo(a, top + 1) /\ UpTo(b, top + 1)
  BY <1>2, <1>3, <1>4 DEF UpTo
<1> QED
  BY <1>5 DEF Accounted, a, b

LEMMA MovedAccounted ==
  ASSUME NEW p \in Pump(Packets), NEW q, NEW o \in Nat, NEW f \in Nat, NEW top \in Nat,
         Accounted(p, o, f, top), TurnsInto(p, q)
  PROVE  Accounted(q, o, f + LostBy(q), top)
<1>1. PICK n, m \in Nat, l, k \in 0..1 :
        Moves(p, q, n, l, m, k) /\ l + k = LostBy(q)
  BY DEF TurnsInto
<1>2. PumpTypes(p)
  BY PumpsHoldNumbers
<1> DEFINE d == Len(p.device)
           i == Len(p.inbound)
<1>3. /\ d \in Nat /\ n \in 0..d /\ n + l \in n..d /\ n + l \in 0..d
      /\ i \in Nat /\ m \in 0..i /\ m + k \in m..i /\ m + k \in 0..i
  BY <1>1, <1>2 DEF Moves, PumpTypes
<1>4. /\ Increasing(q.sent \o q.device) /\ UpTo(q.sent \o q.device, top)
  <2>1. q.sent = p.sent \o SubSeq(p.device, 1, n) /\ q.device = SubSeq(p.device, (n + l) + 1, d)
    BY <1>1 DEF Moves
  <2>2. p.sent \in Seq(Nat) /\ p.device \in Seq(Nat)
    BY <1>2 DEF PumpTypes
  <2>3. Increasing(p.sent \o p.device) /\ UpTo(p.sent \o p.device, top)
    BY DEF Accounted
  <2> QED
    BY <1>3, <2>1, <2>2, <2>3, MovedStayInOrder
<1>5. /\ Increasing(q.delivered \o q.inbound) /\ UpTo(q.delivered \o q.inbound, top)
  <2>1. /\ q.delivered = p.delivered \o SubSeq(p.inbound, 1, m)
        /\ q.inbound = SubSeq(p.inbound, (m + k) + 1, i)
    BY <1>1 DEF Moves
  <2>2. p.delivered \in Seq(Nat) /\ p.inbound \in Seq(Nat)
    BY <1>2 DEF PumpTypes
  <2>3. Increasing(p.delivered \o p.inbound) /\ UpTo(p.delivered \o p.inbound, top)
    BY DEF Accounted
  <2> QED
    BY <1>3, <2>1, <2>2, <2>3, MovedStayInOrder
<1>6. q.stack = q.delivered
  BY <1>1 DEF Moves, Accounted
<1>7. Len(q.sent) = Len(p.sent) + n /\ Len(q.device) = d - (n + l)
  <2>1. p.sent \in Seq(Nat) /\ p.device \in Seq(Nat)
    BY <1>2 DEF PumpTypes
  <2> DEFINE x == SubSeq(p.device, 1, n)
  <2>2. x \in Seq(Nat) /\ Len(x) = n
    BY <1>3, <2>1, First
  <2>3. Len(SubSeq(p.device, (n + l) + 1, d)) = d - (n + l)
    BY <1>3, <2>1, Rest
  <2> HIDE DEF x
  <2>4. Len(p.sent \o x) = Len(p.sent) + n
    BY <2>1, <2>2, Joined
  <2> QED
    BY <1>1, <2>3, <2>4 DEF Moves, x
<1>8. Len(q.delivered) = Len(p.delivered) + m /\ Len(q.inbound) = i - (m + k)
  <2>1. p.delivered \in Seq(Nat) /\ p.inbound \in Seq(Nat)
    BY <1>2 DEF PumpTypes
  <2> DEFINE x == SubSeq(p.inbound, 1, m)
  <2>2. x \in Seq(Nat) /\ Len(x) = m
    BY <1>3, <2>1, First
  <2>3. Len(SubSeq(p.inbound, (m + k) + 1, i)) = i - (m + k)
    BY <1>3, <2>1, Rest
  <2> HIDE DEF x
  <2>4. Len(p.delivered \o x) = Len(p.delivered) + m
    BY <2>1, <2>2, Joined
  <2> QED
    BY <1>1, <2>3, <2>4 DEF Moves, x
<1>9. o = (f + LostBy(q)) + Len(q.sent) + Len(q.device) + Len(q.delivered) + Len(q.inbound)
  <2>1. o = f + Len(p.sent) + d + Len(p.delivered) + i
    BY DEF Accounted
  <2>2. Len(p.sent) \in Nat /\ Len(p.delivered) \in Nat
    BY <1>2 DEF PumpTypes
  <2> DEFINE u == Len(p.sent)
             v == Len(p.delivered)
  <2>3. u \in Nat /\ v \in Nat /\ o = f + u + d + v + i
    BY <2>1, <2>2
  <2> HIDE DEF d, i, u, v
  <2>4. n + l <= d /\ m + k <= i
    BY <1>3
  <2>5. o = (f + (l + k)) + (u + n) + (d - (n + l)) + (v + m) + (i - (m + k))
    BY <1>3, <2>3, <2>4
  <2> QED
    BY <1>1, <1>7, <1>8, <2>5 DEF u, v
<1> QED
  BY <1>4, <1>5, <1>6, <1>9 DEF Accounted

LEMMA OneMore ==
  ASSUME NEW o \in Nat, NEW f \in Nat, NEW a \in Nat, NEW b \in Nat, NEW c \in Nat,
         NEW d \in Nat, o = f + a + b + c + d
  PROVE  o + 1 = f + a + (b + 1) + c + d /\ o + 1 = f + a + b + c + (d + 1)
  OBVIOUS

LEMMA QueuedOutAccounted ==
  ASSUME NEW p \in Pump(Packets), NEW o \in Nat, NEW f \in Nat, NEW top \in Nat,
         Accounted(p, o, f, top), top + 1 \in Packets
  PROVE  Accounted(queue_outbound_ip_packet(p, top + 1), o + 1, f, top + 1)
<1> DEFINE q == queue_outbound_ip_packet(p, top + 1)
<1>1. /\ q.device = Append(p.device, top + 1)
      /\ q.inbound = p.inbound /\ q.sent = p.sent
      /\ q.delivered = p.delivered /\ q.stack = p.stack
  BY QueueOutFields
<1> HIDE DEF q
<1>2. PumpTypes(p) /\ Accounted(p, o, f, top + 1)
  BY PumpsHoldNumbers, LaterAccounted
<1>3. p.sent \in Seq(Nat) /\ p.device \in Seq(Nat)
  BY <1>2 DEF PumpTypes
<1>4. /\ Increasing(p.sent \o Append(p.device, top + 1))
      /\ UpTo(p.sent \o Append(p.device, top + 1), top + 1)
  BY <1>3, QueuedStaysInOrder DEF Accounted
<1>5. Len(Append(p.device, top + 1)) = Len(p.device) + 1
  BY <1>3, AppendProperties
<1>6. o + 1 = f + Len(p.sent) + (Len(p.device) + 1) + Len(p.delivered) + Len(p.inbound)
  <2> DEFINE a == Len(p.sent)
             b == Len(p.device)
             c == Len(p.delivered)
             d == Len(p.inbound)
  <2>1. o = f + a + b + c + d
    BY DEF Accounted
  <2>2. a \in Nat /\ b \in Nat /\ c \in Nat /\ d \in Nat
    BY <1>2 DEF PumpTypes
  <2> HIDE DEF a, b, c, d
  <2>3. o + 1 = f + a + (b + 1) + c + d /\ o + 1 = f + a + b + c + (d + 1)
    BY <2>1, <2>2, OneMore
  <2> QED
    BY <2>3 DEF a, b, c, d
<1> QED
  BY <1>1, <1>2, <1>4, <1>5, <1>6 DEF Accounted, q

LEMMA QueuedInAccounted ==
  ASSUME NEW p \in Pump(Packets), NEW o \in Nat, NEW f \in Nat, NEW top \in Nat,
         Accounted(p, o, f, top), top + 1 \in Packets
  PROVE  Accounted(queue_inbound_wireguard_packet(p, top + 1), o + 1, f, top + 1)
<1> DEFINE q == queue_inbound_wireguard_packet(p, top + 1)
<1>1. /\ q.inbound = Append(p.inbound, top + 1)
      /\ q.device = p.device /\ q.sent = p.sent
      /\ q.delivered = p.delivered /\ q.stack = p.stack
  BY QueueInFields
<1> HIDE DEF q
<1>2. PumpTypes(p) /\ Accounted(p, o, f, top + 1)
  BY PumpsHoldNumbers, LaterAccounted
<1>3. p.delivered \in Seq(Nat) /\ p.inbound \in Seq(Nat)
  BY <1>2 DEF PumpTypes
<1>4. /\ Increasing(p.delivered \o Append(p.inbound, top + 1))
      /\ UpTo(p.delivered \o Append(p.inbound, top + 1), top + 1)
  BY <1>3, QueuedStaysInOrder DEF Accounted
<1>5. Len(Append(p.inbound, top + 1)) = Len(p.inbound) + 1
  BY <1>3, AppendProperties
<1>6. o + 1 = f + Len(p.sent) + Len(p.device) + Len(p.delivered) + (Len(p.inbound) + 1)
  <2> DEFINE a == Len(p.sent)
             b == Len(p.device)
             c == Len(p.delivered)
             d == Len(p.inbound)
  <2>1. o = f + a + b + c + d
    BY DEF Accounted
  <2>2. a \in Nat /\ b \in Nat /\ c \in Nat /\ d \in Nat
    BY <1>2 DEF PumpTypes
  <2> HIDE DEF a, b, c, d
  <2>3. o + 1 = f + a + (b + 1) + c + d /\ o + 1 = f + a + b + c + (d + 1)
    BY <2>1, <2>2, OneMore
  <2> QED
    BY <2>3 DEF a, b, c, d
<1> QED
  BY <1>1, <1>2, <1>4, <1>5, <1>6 DEF Accounted, q

-----------------------------------------------------------------------------
(* The invariant.                                                          *)

Uses == {"free", "stream", "session", "pump"}

(* A pump that nothing can have gone wrong with.                           *)
Undisturbed(p) ==
  /\ p.engine = "fake" /\ p.lifecycle = "running" /\ ~p.fail_next_send
  /\ p.device = <<>> /\ p.inbound = <<>>

(* What is true of a handle: of the use k it has, its instance i, its pump *)
(* p, the last answer a, what was offered and what failed.                 *)
HandleIs(k, i, p, a, o, f, top) ==
  /\ k = "free" => i = NoInstance /\ p = NewPump("fake")
  /\ k # "free" => i \in known /\ plane = "prepared"
  /\ k \in {"stream", "session"} => a = "ok" /\ Undisturbed(p)
  /\ Accounted(p, o, f, top)

VariablesOK ==
  /\ config \in [Instances -> Configs]
  /\ plane \in {"none", "lazy", "prepared"}
  /\ known \in SUBSET Instances
  /\ kind \in [Handles -> Uses]
  /\ instance \in [Handles -> Instances \cup {NoInstance}]
  /\ pump \in [Handles -> Pump(Packets)]
  /\ answer \in [Handles -> Given \cup PumpErrors]
  /\ packets \in 0..MaxPackets
  /\ offered \in [Handles -> Nat]
  /\ failures \in [Handles -> Nat]

DataPlaneInv ==
  /\ VariablesOK
  /\ plane = "prepared" => \A i \in known : Prepares(config[i])
  /\ \A h \in Handles :
       HandleIs(kind[h], instance[h], pump[h], answer[h], offered[h], failures[h], packets)

LEMMA InvImplies ==
  ASSUME DataPlaneInv
  PROVE  /\ DataPlaneTypeOK /\ OpenMeansPrepared /\ LeaveInOrder
         /\ OneLossPerFailure /\ DeliveredAreReceived /\ StreamsNeverFail
<1>1. DataPlaneTypeOK
  BY DEF DataPlaneInv, VariablesOK, HandleIs, DataPlaneTypeOK, Uses
<1>2. OpenMeansPrepared
  BY DEF DataPlaneInv, HandleIs, OpenMeansPrepared
<1>3. LeaveInOrder
  BY DEF DataPlaneInv, HandleIs, Accounted, LeaveInOrder
<1>4. OneLossPerFailure
  BY DEF DataPlaneInv, HandleIs, Accounted, OneLossPerFailure
<1>5. DeliveredAreReceived
  BY DEF DataPlaneInv, HandleIs, Accounted, DeliveredAreReceived
<1>6. StreamsNeverFail
  BY DEF DataPlaneInv, HandleIs, Undisturbed, StreamsNeverFail
<1> QED
  BY <1>1, <1>2, <1>3, <1>4, <1>5, <1>6

(* A step that changes one handle, and may give one number away.           *)
LEMMA HandleStep ==
  ASSUME DataPlaneInv, NEW h \in Handles,
         NEW k \in Uses, NEW i \in Instances \cup {NoInstance},
         NEW p \in Pump(Packets), NEW a \in Given \cup PumpErrors,
         NEW o \in Nat, NEW f \in Nat,
         UNCHANGED planeVars,
         kind' = [kind EXCEPT ![h] = k], instance' = [instance EXCEPT ![h] = i],
         pump' = [pump EXCEPT ![h] = p], answer' = [answer EXCEPT ![h] = a],
         offered' = [offered EXCEPT ![h] = o], failures' = [failures EXCEPT ![h] = f],
         packets' \in 0..MaxPackets, packets' \in {packets, packets + 1},
         HandleIs(k, i, p, a, o, f, packets')
  PROVE  DataPlaneInv'
<1>1. VariablesOK /\ VariablesOK'
  BY DEF DataPlaneInv, VariablesOK, planeVars
<1>2. (plane = "prepared" => \A j \in known : Prepares(config[j]))'
  BY DEF DataPlaneInv, planeVars
<1>3. ASSUME NEW g \in Handles
      PROVE  HandleIs(kind[g], instance[g], pump[g], answer[g], offered[g], failures[g], packets)'
  <2>1. CASE g = h
    <3>1. /\ kind'[g] = k /\ instance'[g] = i /\ pump'[g] = p /\ answer'[g] = a
          /\ offered'[g] = o /\ failures'[g] = f
      BY <1>1, <2>1 DEF VariablesOK
    <3>2. plane' = plane /\ known' = known
      BY DEF planeVars
    <3> QED
      BY <3>1, <3>2 DEF HandleIs
  <2>2. CASE g # h
    <3>1. /\ kind'[g] = kind[g] /\ instance'[g] = instance[g] /\ pump'[g] = pump[g]
          /\ answer'[g] = answer[g] /\ offered'[g] = offered[g] /\ failures'[g] = failures[g]
      BY <1>1, <2>2 DEF VariablesOK
    <3>2. plane' = plane /\ known' = known
      BY DEF planeVars
    <3>3. HandleIs(kind[g], instance[g], pump[g], answer[g], offered[g], failures[g], packets)
      BY DEF DataPlaneInv
    <3>4. pump[g] \in Pump(Packets) /\ packets \in Nat
      BY <1>1 DEF VariablesOK
    <3>5. Accounted(pump[g], offered[g], failures[g], packets')
      <4>1. Accounted(pump[g], offered[g], failures[g], packets)
        BY <3>3 DEF HandleIs
      <4>2. Accounted(pump[g], offered[g], failures[g], packets + 1)
        BY <3>4, <4>1, LaterAccounted
      <4> QED
        BY <4>1, <4>2
    <3> QED
      BY <3>1, <3>2, <3>3, <3>5 DEF HandleIs
  <2> QED
    BY <2>1, <2>2
<1> QED
  BY <1>1, <1>2, <1>3 DEF DataPlaneInv

(* What an unchanged handle variable is, as HandleStep has it.             *)
LEMMA Unchanged ==
  ASSUME VariablesOK, NEW h \in Handles
  PROVE  /\ kind = [kind EXCEPT ![h] = kind[h]]
         /\ instance = [instance EXCEPT ![h] = instance[h]]
         /\ pump = [pump EXCEPT ![h] = pump[h]]
         /\ answer = [answer EXCEPT ![h] = answer[h]]
         /\ offered = [offered EXCEPT ![h] = offered[h]]
         /\ failures = [failures EXCEPT ![h] = failures[h]]
         /\ kind[h] \in Uses /\ instance[h] \in Instances \cup {NoInstance}
         /\ pump[h] \in Pump(Packets) /\ answer[h] \in Given \cup PumpErrors
         /\ offered[h] \in Nat /\ failures[h] \in Nat
         /\ packets \in 0..MaxPackets /\ packets \in Nat
  BY DataPlaneAssumption DEF VariablesOK

LEMMA HandleNow ==
  ASSUME DataPlaneInv, NEW h \in Handles
  PROVE  /\ VariablesOK
         /\ HandleIs(kind[h], instance[h], pump[h], answer[h], offered[h], failures[h], packets)
         /\ Accounted(pump[h], offered[h], failures[h], packets)
  BY DEF DataPlaneInv, HandleIs

-----------------------------------------------------------------------------
(* Every action keeps it.                                                  *)

LEMMA InitInv == Init => DataPlaneInv
<1> SUFFICES ASSUME Init PROVE DataPlaneInv
  OBVIOUS
<1>1. NewPump("fake") \in Pump(Packets) /\ Accounted(NewPump("fake"), 0, 0, 0)
  BY NewPumpFields, NewAccounted DEF Engines
<1>2. VariablesOK
  BY <1>1, DataPlaneAssumption DEF Init, VariablesOK, Uses, Given
<1>3. \A h \in Handles :
        HandleIs(kind[h], instance[h], pump[h], answer[h], offered[h], failures[h], packets)
  BY <1>1 DEF Init, HandleIs
<1> QED
  BY <1>2, <1>3 DEF DataPlaneInv, Init

LEMMA BuildKeeps ==
  ASSUME DataPlaneInv, NEW ids \in SUBSET Instances, Build(ids)
  PROVE  DataPlaneInv'
<1>1. /\ plane = "none" /\ plane' \in {"lazy", "prepared"} /\ known' = ids
      /\ plane' = "prepared" => \A i \in ids : Prepares(config[i])
      /\ UNCHANGED <<config, handleVars, pump, answer, counters>>
  BY DEF Build, with_instances, try_with_instances
<1>2. VariablesOK'
  BY <1>1 DEF DataPlaneInv, VariablesOK, handleVars, counters
<1>3. ASSUME NEW h \in Handles
      PROVE  HandleIs(kind[h], instance[h], pump[h], answer[h], offered[h], failures[h], packets)'
  <2>1. kind[h] = "free"
    BY <1>1, HandleNow DEF HandleIs
  <2> QED
    BY <1>1, <2>1, HandleNow DEF HandleIs, handleVars, counters
<1>4. (plane = "prepared" => \A i \in known : Prepares(config[i]))'
  BY <1>1
<1> QED
  BY <1>2, <1>3, <1>4 DEF DataPlaneInv

(* A handle that is free has been offered nothing.                         *)
LEMMA FreeHandle ==
  ASSUME DataPlaneInv, NEW h \in Handles, kind[h] = "free"
  PROVE  /\ pump[h] = NewPump("fake") /\ offered[h] = failures[h]
         /\ \A q : Queues(q) = Queues(NewPump("fake")) =>
                     Accounted(q, offered[h], failures[h], packets)
<1>1. pump[h] = NewPump("fake") /\ Accounted(pump[h], offered[h], failures[h], packets)
  BY HandleNow DEF HandleIs
<1>2. offered[h] = failures[h]
  BY <1>1, HandleNow, Unchanged DEF Accounted, NewPump
<1> QED
  BY <1>1, <1>2, StillAccounted

(* Opening something, with whatever pump it opens.                         *)
LEMMA OpenKeeps ==
  ASSUME DataPlaneInv, NEW h \in Handles, NEW i \in Instances,
         NEW as \in Uses \ {"free"}, NEW opened \in Pump(Packets), NEW a \in Given,
         kind[h] = "free", plane # "none",
         Queues(opened) = Queues(NewPump("fake")),
         as \in {"stream", "session"} => Undisturbed(opened),
         answer' = [answer EXCEPT ![h] = a],
         Opens(i) = "ok" => a = "ok",
         IF Opens(i) = "ok"
         THEN /\ kind' = [kind EXCEPT ![h] = as]
              /\ instance' = [instance EXCEPT ![h] = i]
              /\ pump' = [pump EXCEPT ![h] = opened]
         ELSE UNCHANGED <<handleVars, pump>>,
         UNCHANGED <<planeVars, counters>>
  PROVE  DataPlaneInv'
<1>1. VariablesOK /\ HandleIs(kind[h], instance[h], pump[h], answer[h], offered[h], failures[h], packets)
  BY HandleNow
<1>2. /\ offered' = [offered EXCEPT ![h] = offered[h]]
      /\ failures' = [failures EXCEPT ![h] = failures[h]]
      /\ packets' = packets /\ packets \in 0..MaxPackets
  BY <1>1, Unchanged DEF counters
<1>3. CASE Opens(i) = "ok"
  <2>1. i \in known /\ plane = "prepared"
    BY <1>3 DEF Opens
  <2>2. HandleIs(as, i, opened, a, offered[h], failures[h], packets)
    BY <1>3, <2>1, FreeHandle DEF HandleIs
  <2>3. a \in Given \cup PumpErrors /\ as \in Uses /\ i \in Instances \cup {NoInstance}
    OBVIOUS
  <2>4. offered[h] \in Nat /\ failures[h] \in Nat
    BY <1>1, Unchanged
  <2> QED
    BY <1>2, <1>3, <2>2, <2>3, <2>4, HandleStep
<1>4. CASE Opens(i) # "ok"
  <2>1. /\ kind' = [kind EXCEPT ![h] = kind[h]] /\ instance' = [instance EXCEPT ![h] = instance[h]]
        /\ pump' = [pump EXCEPT ![h] = pump[h]]
        /\ kind[h] \in Uses /\ instance[h] \in Instances \cup {NoInstance}
        /\ pump[h] \in Pump(Packets)
        /\ offered[h] \in Nat /\ failures[h] \in Nat
    BY <1>1, <1>4, Unchanged DEF handleVars
  <2>2. HandleIs(kind[h], instance[h], pump[h], a, offered[h], failures[h], packets)
    BY <1>1 DEF HandleIs
  <2>3. a \in Given \cup PumpErrors
    OBVIOUS
  <2> QED
    BY <1>2, <2>1, <2>2, <2>3, HandleStep
<1> QED
  BY <1>3, <1>4

LEMMA OpensGiven ==
  ASSUME NEW i \in Instances
  PROVE  Opens(i) \in Given
  BY DEF Opens, Given

LEMMA StreamOpens ==
  ASSUME DataPlaneInv, NEW h \in Handles, NEW i \in Instances,
         connect_tcp(h, i) \/ open_udp_session(h, i)
  PROVE  DataPlaneInv'
<1> DEFINE opened == start(NewPump("fake"))
<1>1. PICK as \in {"stream", "session"} : Open(h, i, as, opened)
  BY DEF connect_tcp, open_udp_session
<1>2. opened \in Pump(Packets)
  BY NewPumpFields DEF Engines
<1>3. Queues(opened) = Queues(NewPump("fake")) /\ Undisturbed(opened)
  BY DEF start, NewPump, Queues, Undisturbed
<1> HIDE DEF opened
<1>4. as \in Uses \ {"free"} /\ Opens(i) \in Given
  BY OpensGiven DEF Uses
<1>5. /\ kind[h] = "free" /\ plane # "none"
      /\ answer' = [answer EXCEPT ![h] = Opens(i)]
      /\ IF Opens(i) = "ok"
         THEN /\ kind' = [kind EXCEPT ![h] = as]
              /\ instance' = [instance EXCEPT ![h] = i]
              /\ pump' = [pump EXCEPT ![h] = opened]
         ELSE UNCHANGED <<handleVars, pump>>
      /\ UNCHANGED <<planeVars, counters>>
  BY <1>1 DEF Open
<1> QED
  BY <1>2, <1>3, <1>4, <1>5, OpenKeeps

LEMMA PumpOpens ==
  ASSUME DataPlaneInv, NEW h \in Handles, NEW i \in Instances, NEW engine \in Engines,
         runtime_packet_pump(h, i, engine)
  PROVE  DataPlaneInv'
<1> DEFINE opened == NewPump(engine)
           a == IF i \in known /\ plane = "lazy" THEN "notPrepared" ELSE Opens(i)
<1>1. opened \in Pump(Packets)
  BY NewPumpFields
<1>2. Queues(opened) = Queues(NewPump("fake"))
  BY DEF NewPump, Queues
<1>3. a \in Given /\ (Opens(i) = "ok" => a = "ok")
  BY OpensGiven DEF Given, Opens
<1>4. /\ kind[h] = "free" /\ plane # "none"
      /\ answer' = [answer EXCEPT ![h] = a]
      /\ IF Opens(i) = "ok"
         THEN /\ kind' = [kind EXCEPT ![h] = "pump"]
              /\ instance' = [instance EXCEPT ![h] = i]
              /\ pump' = [pump EXCEPT ![h] = opened]
         ELSE UNCHANGED <<handleVars, pump>>
      /\ UNCHANGED <<planeVars, counters>>
  BY DEF runtime_packet_pump
<1>5. "pump" \in Uses \ {"free"}
  BY DEF Uses
<1> HIDE DEF opened, a
<1> QED
  BY <1>1, <1>2, <1>3, <1>4, <1>5, OpenKeeps

(* A call on a pump that somebody holds, or on the pump of a stream, that  *)
(* leaves it p, answers a and gives the packets the number n.              *)
LEMMA CallKeeps ==
  ASSUME DataPlaneInv, NEW h \in Handles, kind[h] # "free",
         NEW p \in Pump(Packets), NEW a \in Given \cup PumpErrors,
         NEW o \in Nat, NEW f \in Nat,
         UNCHANGED <<planeVars, handleVars>>,
         pump' = [pump EXCEPT ![h] = p], answer' = [answer EXCEPT ![h] = a],
         offered' = [offered EXCEPT ![h] = o], failures' = [failures EXCEPT ![h] = f],
         packets' \in 0..MaxPackets, packets' \in {packets, packets + 1},
         kind[h] \in {"stream", "session"} => a = "ok" /\ Undisturbed(p),
         Accounted(p, o, f, packets')
  PROVE  DataPlaneInv'
<1>1. VariablesOK /\ HandleIs(kind[h], instance[h], pump[h], answer[h], offered[h], failures[h], packets)
  BY HandleNow
<1>2. /\ kind' = [kind EXCEPT ![h] = kind[h]] /\ instance' = [instance EXCEPT ![h] = instance[h]]
      /\ kind[h] \in Uses /\ instance[h] \in Instances \cup {NoInstance}
  BY <1>1, Unchanged DEF handleVars
<1>3. HandleIs(kind[h], instance[h], p, a, o, f, packets')
  BY <1>1 DEF HandleIs
<1>4. UNCHANGED planeVars
  OBVIOUS
<1> QED
  BY <1>2, <1>3, <1>4, HandleStep

LEMMA StartStopKeep ==
  ASSUME DataPlaneInv, NEW h \in Handles, Start(h) \/ Stop(h) \/ FailNextSend(h)
  PROVE  DataPlaneInv'
<1>1. /\ VariablesOK /\ Accounted(pump[h], offered[h], failures[h], packets)
      /\ pump[h] \in Pump(Packets)
  BY HandleNow, Unchanged
<1>2. PICK p \in {start(pump[h]), stop(pump[h]), fail_next_transport_send(pump[h])},
           a \in {Answer(start(pump[h])), Answer(stop(pump[h])), answer[h]} :
        /\ kind[h] = "pump" /\ UNCHANGED <<planeVars, handleVars, counters>>
        /\ pump' = [pump EXCEPT ![h] = p] /\ answer' = [answer EXCEPT ![h] = a]
  <2>1. CASE Start(h) \/ Stop(h)
    BY <2>1 DEF Start, Stop, Calls
  <2>2. CASE FailNextSend(h)
    <3>1. answer' = [answer EXCEPT ![h] = answer[h]]
      BY <1>1, <2>2, Unchanged DEF FailNextSend
    <3> QED
      BY <2>2, <3>1 DEF FailNextSend
  <2> QED
    BY <2>1, <2>2
<1>3. p \in Pump(Packets) /\ Queues(p) = Queues(pump[h])
  BY <1>1, <1>2, StartFields, StopFields, FailNextFields
<1>4. a \in Given \cup PumpErrors
  BY <1>1, <1>2, StartFields, StopFields, Unchanged DEF Given
<1>5. Accounted(p, offered[h], failures[h], packets)
  BY <1>1, <1>3, StillAccounted
<1>6. /\ offered' = [offered EXCEPT ![h] = offered[h]]
      /\ failures' = [failures EXCEPT ![h] = failures[h]]
      /\ offered[h] \in Nat /\ failures[h] \in Nat
      /\ packets' = packets /\ packets \in 0..MaxPackets
  BY <1>1, <1>2, Unchanged DEF counters
<1>7. kind[h] # "free" /\ kind[h] \notin {"stream", "session"}
  BY <1>2
<1> HIDE <1>2
<1> QED
  BY <1>2, <1>3, <1>4, <1>5, <1>6, <1>7, CallKeeps

LEMMA NumberedGives ==
  ASSUME VariablesOK, NEW h \in Handles, Numbered(h)
  PROVE  /\ packets' = packets + 1 /\ packets + 1 \in Packets
         /\ packets' \in 0..MaxPackets
         /\ offered' = [offered EXCEPT ![h] = offered[h] + 1]
  BY DataPlaneAssumption DEF VariablesOK, Numbered, Packets

LEMMA QueueKeeps ==
  ASSUME DataPlaneInv, NEW h \in Handles, QueueOutbound(h) \/ QueueInbound(h)
  PROVE  DataPlaneInv'
<1> DEFINE x == packets + 1
<1>1. /\ VariablesOK /\ Accounted(pump[h], offered[h], failures[h], packets)
      /\ pump[h] \in Pump(Packets) /\ offered[h] \in Nat /\ failures[h] \in Nat
      /\ packets \in Nat
  BY HandleNow, Unchanged
<1>2. /\ kind[h] = "pump" /\ Numbered(h)
      /\ UNCHANGED <<planeVars, handleVars, answer, failures>>
  BY DEF QueueOutbound, QueueInbound
<1>3. /\ packets' = x /\ x \in Packets /\ packets' \in 0..MaxPackets
      /\ offered' = [offered EXCEPT ![h] = offered[h] + 1]
  BY <1>1, <1>2, NumberedGives
<1>4. PICK p : /\ p \in Pump(Packets) /\ pump' = [pump EXCEPT ![h] = p]
               /\ Accounted(p, offered[h] + 1, failures[h], x)
  <2>1. CASE QueueOutbound(h)
    <3>1. pump' = [pump EXCEPT ![h] = queue_outbound_ip_packet(pump[h], x)]
      BY <1>1, <1>3, <2>1 DEF QueueOutbound
    <3> QED
      BY <1>1, <1>3, <3>1, QueueOutFields, QueuedOutAccounted
  <2>2. CASE QueueInbound(h)
    <3>1. pump' = [pump EXCEPT ![h] = queue_inbound_wireguard_packet(pump[h], x)]
      BY <1>1, <1>3, <2>2 DEF QueueInbound
    <3> QED
      BY <1>1, <1>3, <3>1, QueueInFields, QueuedInAccounted
  <2> QED
    BY <2>1, <2>2
<1>5. /\ answer' = [answer EXCEPT ![h] = answer[h]] /\ answer[h] \in Given \cup PumpErrors
      /\ failures' = [failures EXCEPT ![h] = failures[h]]
  BY <1>1, <1>2, Unchanged
<1>6. kind[h] # "free" /\ kind[h] \notin {"stream", "session"} /\ offered[h] + 1 \in Nat
  BY <1>1, <1>2
<1>7. UNCHANGED <<planeVars, handleVars>>
  BY <1>2
<1> QED
  BY <1>1, <1>3, <1>4, <1>5, <1>6, <1>7, CallKeeps

LEMMA LostByType ==
  ASSUME NEW p
  PROVE  LostBy(p) \in Nat
  BY DEF LostBy

LEMMA PumpOnceKeeps ==
  ASSUME DataPlaneInv, NEW h \in Handles, PumpOnce(h)
  PROVE  DataPlaneInv'
<1>1. /\ VariablesOK /\ Accounted(pump[h], offered[h], failures[h], packets)
      /\ pump[h] \in Pump(Packets) /\ offered[h] \in Nat /\ failures[h] \in Nat
      /\ packets \in 0..MaxPackets /\ packets \in Nat
  BY HandleNow, Unchanged
<1>2. PICK out \in OutboundEnds(pump[h]), in \in InboundEnds(pump[h]) :
        /\ Calls(h, pump_once(pump[h], out, in))
        /\ failures' = [failures EXCEPT ![h] = @ + LostBy(pump_once(pump[h], out, in))]
  BY DEF PumpOnce
<1> DEFINE q == pump_once(pump[h], out, in)
<1>3. q \in Pump(Packets) /\ TurnsInto(pump[h], q)
  BY <1>1, PumpOnceMoves
<1> HIDE DEF q
<1>4. /\ pump' = [pump EXCEPT ![h] = q] /\ answer' = [answer EXCEPT ![h] = Answer(q)]
      /\ failures' = [failures EXCEPT ![h] = failures[h] + LostBy(q)]
  BY <1>1, <1>2 DEF Calls, VariablesOK, q
<1>5. Accounted(q, offered[h], failures[h] + LostBy(q), packets)
  BY <1>1, <1>3, MovedAccounted
<1>6. Answer(q) \in Given \cup PumpErrors
  BY <1>3 DEF TurnsInto, Given
<1>7. /\ UNCHANGED <<planeVars, handleVars>>
      /\ packets' = packets /\ offered' = [offered EXCEPT ![h] = offered[h]]
      /\ kind[h] # "free" /\ kind[h] \notin {"stream", "session"}
  BY <1>1, Unchanged DEF PumpOnce
<1>8. failures[h] + LostBy(q) \in Nat
  BY <1>1, LostByType
<1> QED
  BY <1>1, <1>3, <1>4, <1>5, <1>6, <1>7, <1>8, CallKeeps

(* With the fake engine and a transport that was not told to fail, a pump  *)
(* that runs answers no error and is left as it was, empty.                *)
LEMMA UndisturbedTurn ==
  ASSUME NEW p \in Pump(Packets), p.engine = "fake", p.lifecycle = "running", ~p.fail_next_send,
         NEW out \in OutboundEnds(p), NEW in \in InboundEnds(p)
  PROVE  Answer(pump_once(p, out, in)) = "ok" /\ Undisturbed(pump_once(p, out, in))
<1> DEFINE q == pump_once(p, out, in)
           r == Outbound(p, out)
           t == Inbound(r, in)
<1>1. out.error = "none" /\ in.error = "none"
  BY DEF OutboundEnds, InboundEnds
<1>2. q = t
  BY <1>1 DEF pump_once, Failed
<1>3. /\ r \in Pump(Packets) /\ r.device = Kept(p.device, out) /\ r.inbound = p.inbound
      /\ r.engine = "fake" /\ r.lifecycle = "running" /\ ~r.fail_next_send
  BY OutboundFields
<1>4. out.turns = Len(p.device) /\ p.device \in Seq(Packets)
  BY <1>1, EndsOfLoops DEF EndOf, Pump
<1>5. r.device = <<>>
  BY <1>1, <1>3, <1>4, NothingTaken DEF Kept
<1> HIDE DEF r
<1>6. in \in InboundEnds(r)
  BY <1>3 DEF InboundEnds
<1>7. t.engine = "fake" /\ t.lifecycle = "running" /\ ~t.fail_next_send
  BY <1>3, <1>5, <1>6, InboundFields
<1> HIDE DEF t
<1>8. Answer(q) = "ok"
  BY <1>2, <1>7 DEF Answer
<1>9. q.device = <<>> /\ q.inbound = <<>>
  BY <1>8, PumpOnceMoves DEF TurnsInto
<1> HIDE DEF q
<1> QED
  BY <1>2, <1>7, <1>8, <1>9 DEF Undisturbed, q

LEMMA WriteKeeps ==
  ASSUME DataPlaneInv, NEW h \in Handles, write_all(h)
  PROVE  DataPlaneInv'
<1> DEFINE x == packets + 1
           queued == queue_outbound_ip_packet(pump[h], x)
<1>1. /\ VariablesOK /\ Accounted(pump[h], offered[h], failures[h], packets)
      /\ pump[h] \in Pump(Packets) /\ offered[h] \in Nat /\ failures[h] \in Nat
      /\ packets \in Nat
  BY HandleNow, Unchanged
<1>2. kind[h] = "stream" /\ Numbered(h) /\ UNCHANGED <<planeVars, handleVars>>
  BY DEF write_all
<1>3. /\ packets' = x /\ x \in Packets /\ packets' \in 0..MaxPackets
      /\ offered' = [offered EXCEPT ![h] = offered[h] + 1]
  BY <1>1, <1>2, NumberedGives
<1>4. Undisturbed(pump[h])
  BY <1>2, HandleNow DEF HandleIs
<1>5. /\ queued \in Pump(Packets)
      /\ Accounted(queued, offered[h] + 1, failures[h], x)
      /\ queued.engine = "fake" /\ queued.lifecycle = "running" /\ ~queued.fail_next_send
  BY <1>1, <1>3, <1>4, QueueOutFields, QueuedOutAccounted DEF Undisturbed
<1>6. PICK out \in OutboundEnds(queued), in \in InboundEnds(queued) :
        /\ Calls(h, pump_once(queued, out, in))
        /\ failures' = [failures EXCEPT ![h] = @ + LostBy(pump_once(queued, out, in))]
  BY <1>3 DEF write_all
<1> HIDE DEF queued
<1> DEFINE q == pump_once(queued, out, in)
<1>7. /\ q \in Pump(Packets) /\ TurnsInto(queued, q)
      /\ Answer(q) = "ok" /\ Undisturbed(q)
  BY <1>5, PumpOnceMoves, UndisturbedTurn
<1> HIDE DEF q
<1>8. /\ pump' = [pump EXCEPT ![h] = q] /\ answer' = [answer EXCEPT ![h] = Answer(q)]
      /\ failures' = [failures EXCEPT ![h] = failures[h] + LostBy(q)]
  BY <1>1, <1>6 DEF Calls, VariablesOK, q
<1>9. offered[h] + 1 \in Nat /\ failures[h] + LostBy(q) \in Nat /\ x \in Nat
  BY <1>1, LostByType
<1>10. Accounted(q, offered[h] + 1, failures[h] + LostBy(q), x)
  BY <1>1, <1>5, <1>7, <1>9, MovedAccounted
<1>11. Answer(q) \in Given \cup PumpErrors /\ kind[h] # "free"
  BY <1>2, <1>7 DEF Given
<1> QED
  BY <1>2, <1>3, <1>7, <1>8, <1>9, <1>10, <1>11, CallKeeps

(* A packet through a pump of its own leaves every pump that is held alone.*)
LEMMA ThroughKeeps ==
  ASSUME DataPlaneInv, NEW h \in Handles, NEW a \in Given \cup PumpErrors,
         answer' = [answer EXCEPT ![h] = a],
         kind[h] \in {"stream", "session"} => a = "ok",
         packets' \in 0..MaxPackets, packets' \in {packets, packets + 1},
         UNCHANGED <<planeVars, handleVars, pump, offered, failures>>
  PROVE  DataPlaneInv'
<1>1. VariablesOK /\ HandleIs(kind[h], instance[h], pump[h], answer[h], offered[h], failures[h], packets)
  BY HandleNow
<1>2. /\ kind' = [kind EXCEPT ![h] = kind[h]] /\ instance' = [instance EXCEPT ![h] = instance[h]]
      /\ pump' = [pump EXCEPT ![h] = pump[h]] /\ offered' = [offered EXCEPT ![h] = offered[h]]
      /\ failures' = [failures EXCEPT ![h] = failures[h]]
      /\ kind[h] \in Uses /\ instance[h] \in Instances \cup {NoInstance}
      /\ pump[h] \in Pump(Packets) /\ offered[h] \in Nat /\ failures[h] \in Nat
      /\ packets \in Nat
  BY <1>1, Unchanged DEF handleVars
<1>3. Accounted(pump[h], offered[h], failures[h], packets')
  <2>1. Accounted(pump[h], offered[h], failures[h], packets)
    BY HandleNow
  <2>2. Accounted(pump[h], offered[h], failures[h], packets + 1)
    BY <1>2, <2>1, LaterAccounted
  <2> QED
    BY <2>1, <2>2
<1>4. HandleIs(kind[h], instance[h], pump[h], a, offered[h], failures[h], packets')
  BY <1>1, <1>3 DEF HandleIs
<1>5. UNCHANGED planeVars /\ packets' \in 0..MaxPackets /\ packets' \in {packets, packets + 1}
  OBVIOUS
<1>6. answer' = [answer EXCEPT ![h] = a] /\ a \in Given \cup PumpErrors
  OBVIOUS
<1> DEFINE k == kind[h]
           i == instance[h]
           p == pump[h]
           o == offered[h]
           f == failures[h]
<1> HIDE DEF k, i, p, o, f
<1>7. /\ kind' = [kind EXCEPT ![h] = k] /\ instance' = [instance EXCEPT ![h] = i]
      /\ pump' = [pump EXCEPT ![h] = p] /\ offered' = [offered EXCEPT ![h] = o]
      /\ failures' = [failures EXCEPT ![h] = f]
      /\ k \in Uses /\ i \in Instances \cup {NoInstance}
      /\ p \in Pump(Packets) /\ o \in Nat /\ f \in Nat
      /\ HandleIs(k, i, p, a, o, f, packets')
  BY <1>2, <1>4 DEF k, i, p, o, f
<1>8. DataPlaneInv
  OBVIOUS
<1> QED
  BY ONLY <1>5, <1>6, <1>7, <1>8, h \in Handles, HandleStep

(* A fresh pump that runs answers no error for the packet it is made for.  *)
LEMMA FreshAnswers ==
  ASSUME DataPlaneInv, NEW h \in Handles, NEW fresh, fresh = start(NewPump("fake")),
         Through(h, fresh)
  PROVE  /\ answer' = [answer EXCEPT ![h] = "ok"]
         /\ packets' = packets + 1 /\ packets' \in 0..MaxPackets
<1> DEFINE queued == queue_outbound_ip_packet(fresh, packets')
<1>1. packets \in 0..MaxPackets /\ packets < MaxPackets /\ packets' = packets + 1
  BY DEF Through, DataPlaneInv, VariablesOK
<1>2. packets' \in Packets /\ packets' \in 0..MaxPackets
  BY <1>1, DataPlaneAssumption DEF Packets
<1>3. fresh \in Pump(Packets)
  BY NewPumpFields DEF Engines
<1>4. fresh.engine = "fake" /\ fresh.lifecycle = "running" /\ ~fresh.fail_next_send
  BY DEF start, NewPump
<1>5. /\ queued \in Pump(Packets) /\ queued.engine = "fake"
      /\ queued.lifecycle = "running" /\ ~queued.fail_next_send
  BY <1>2, <1>3, <1>4, QueueOutFields
<1>6. PICK out \in OutboundEnds(queued), in \in InboundEnds(queued) :
        answer' = [answer EXCEPT ![h] = Answer(pump_once(queued, out, in))]
  BY DEF Through
<1> HIDE DEF queued
<1>7. Answer(pump_once(queued, out, in)) = "ok"
  BY <1>5, UndisturbedTurn
<1> QED
  BY <1>1, <1>2, <1>6, <1>7

(* What a session's pump is cloned into, and what default_send uses.       *)
LEMMA ClonesRun ==
  ASSUME NEW p, p.lifecycle = "running"
  PROVE  clone_for_session(p) = start(NewPump("fake"))
  BY DEF clone_for_session

LEMMA DatagramKeeps ==
  ASSUME DataPlaneInv, NEW h \in Handles, send_datagram(h)
  PROVE  DataPlaneInv'
<1>1. kind[h] = "session" /\ Through(h, clone_for_session(pump[h]))
      /\ UNCHANGED <<planeVars, handleVars, pump, offered, failures>>
  BY DEF send_datagram
<1>2. clone_for_session(pump[h]) = start(NewPump("fake"))
  BY <1>1, HandleNow, ClonesRun DEF HandleIs, Undisturbed
<1>3. /\ answer' = [answer EXCEPT ![h] = "ok"]
      /\ packets' = packets + 1 /\ packets' \in 0..MaxPackets
  BY <1>1, <1>2, FreshAnswers
<1>4. "ok" \in Given \cup PumpErrors
  BY DEF Given
<1> QED
  BY <1>1, <1>3, <1>4, ThroughKeeps

LEMMA SendKeeps ==
  ASSUME DataPlaneInv, NEW h \in Handles, NEW i \in Instances,
         NEW protocol \in {"tcp", "udp"}, default_send(h, i, protocol)
  PROVE  DataPlaneInv'
<1> DEFINE fresh == start(NewPump("fake"))
<1>1. kind[h] = "free" /\ UNCHANGED <<planeVars, handleVars, pump, offered, failures>>
  BY DEF default_send
<1>2. fresh.lifecycle = "running"
  BY DEF start, NewPump
<1>3. PICK a \in Given : /\ answer' = [answer EXCEPT ![h] = a]
                         /\ packets' \in {packets, packets + 1} /\ packets' \in 0..MaxPackets
  <2>1. CASE Opens(i) = "ok"
    <3>1. Through(h, IF protocol = "tcp" THEN fresh ELSE clone_for_session(fresh))
      BY <2>1 DEF default_send
    <3>2. clone_for_session(fresh) = fresh
      BY <1>2, ClonesRun
    <3>3. Through(h, fresh)
      BY <3>1, <3>2
    <3>4. /\ answer' = [answer EXCEPT ![h] = "ok"]
          /\ packets' = packets + 1 /\ packets' \in 0..MaxPackets
      BY <3>3, FreshAnswers
    <3> QED
      BY <3>4 DEF Given
  <2>2. CASE Opens(i) # "ok"
    <3>1. answer' = [answer EXCEPT ![h] = Opens(i)] /\ packets' = packets
      BY <2>2 DEF default_send
    <3> QED
      BY <3>1, OpensGiven DEF DataPlaneInv, VariablesOK
  <2> QED
    BY <2>1, <2>2
<1>4. a \in Given \cup PumpErrors
  OBVIOUS
<1> QED
  BY <1>1, <1>3, <1>4, ThroughKeeps

LEMMA DropKeeps ==
  ASSUME DataPlaneInv, NEW h \in Handles, Drop(h)
  PROVE  DataPlaneInv'
<1>1. VariablesOK /\ packets \in 0..MaxPackets /\ packets \in Nat
  BY HandleNow, Unchanged
<1>2. NewPump("fake") \in Pump(Packets) /\ Accounted(NewPump("fake"), 0, 0, packets)
  BY <1>1, NewPumpFields, NewAccounted DEF Engines
<1>3. HandleIs("free", NoInstance, NewPump("fake"), "ok", 0, 0, packets)
  BY <1>2 DEF HandleIs
<1>4. "ok" \in Given \cup PumpErrors /\ "free" \in Uses
  BY DEF Given, Uses
<1> QED
  BY <1>1, <1>2, <1>3, <1>4, HandleStep DEF Drop

LEMMA StutterKeeps == DataPlaneInv /\ UNCHANGED vars => DataPlaneInv'
<1> SUFFICES ASSUME DataPlaneInv, UNCHANGED vars PROVE DataPlaneInv'
  OBVIOUS
<1>1. /\ config' = config /\ plane' = plane /\ known' = known /\ kind' = kind
      /\ instance' = instance /\ pump' = pump /\ answer' = answer /\ packets' = packets
      /\ offered' = offered /\ failures' = failures
  BY DEF vars, planeVars, handleVars, counters
<1>2. VariablesOK'
  BY <1>1 DEF DataPlaneInv, VariablesOK
<1>3. ASSUME NEW h \in Handles
      PROVE  HandleIs(kind[h], instance[h], pump[h], answer[h], offered[h], failures[h], packets)'
  BY <1>1, HandleNow DEF HandleIs
<1>4. (plane = "prepared" => \A i \in known : Prepares(config[i]))'
  BY <1>1 DEF DataPlaneInv
<1> QED
  BY <1>2, <1>3, <1>4 DEF DataPlaneInv

LEMMA NextKeeps == DataPlaneInv /\ [Next]_vars => DataPlaneInv'
<1> SUFFICES ASSUME DataPlaneInv, [Next]_vars PROVE DataPlaneInv'
  OBVIOUS
<1>1. CASE UNCHANGED vars
  BY <1>1, StutterKeeps
<1>2. ASSUME NEW ids \in SUBSET Instances, Build(ids) PROVE DataPlaneInv'
  BY <1>2, BuildKeeps
<1>3. ASSUME NEW h \in Handles, NEW i \in Instances, OpenSomething(h, i) PROVE DataPlaneInv'
  BY <1>3, StreamOpens, PumpOpens, SendKeeps DEF OpenSomething
<1>4. ASSUME NEW h \in Handles, Use(h) PROVE DataPlaneInv'
  BY <1>4, StartStopKeep, QueueKeeps, PumpOnceKeeps, WriteKeeps, DatagramKeeps, DropKeeps DEF Use
<1> QED
  BY <1>1, <1>2, <1>3, <1>4 DEF Next

(* The invariant holds in every state of every behaviour of the data plane.*)
THEOREM DataPlaneInvHolds == Spec => []DataPlaneInv
  BY InitInv, NextKeeps, PTL DEF Spec

(* Every variable keeps its type, and what is open belongs to an instance  *)
(* the data plane knows.                                                   *)
THEOREM DataPlaneTypes == Spec => []DataPlaneTypeOK
  BY DataPlaneInvHolds, InvImplies, PTL

(* Nothing is ever open on a data plane that has an instance with unusable *)
(* material.                                                               *)
THEOREM OpenIsPrepared == Spec => []OpenMeansPrepared
  BY DataPlaneInvHolds, InvImplies, PTL

(* Packets leave and arrive in the order they were queued in, in every     *)
(* pump, for every number of packets.                                      *)
THEOREM OrderIsKept == Spec => []LeaveInOrder
  BY DataPlaneInvHolds, InvImplies, PTL

(* Packets that were queued are accounted for: one error, one packet.      *)
THEOREM LossesAreTold == Spec => []OneLossPerFailure
  BY DataPlaneInvHolds, InvImplies, PTL

(* What a pump does with its packets, in one invariant.                    *)
THEOREM PacketsAreAccounted == Spec => []PacketsAccounted
<1>1. DataPlaneInv => PacketsAccounted
  BY InvImplies DEF PacketsAccounted
<1> QED
  BY <1>1, DataPlaneInvHolds, PTL

(* The stack receives what arrived, never what waited to leave.            *)
THEOREM StackReceivesArrivals == Spec => []DeliveredAreReceived
  BY DataPlaneInvHolds, InvImplies, PTL

(* Streams and sessions never answer an error of their pump.               *)
THEOREM StreamsAreUndisturbed == Spec => []StreamsNeverFail
  BY DataPlaneInvHolds, InvImplies, PTL

-----------------------------------------------------------------------------
(* The action property.                                                    *)

LEMMA PumpOnceDrains ==
  ASSUME DataPlaneInv, NEW h \in Handles, PumpOnce(h)
  PROVE  /\ answer'[h] = "ok" => pump'[h].device = <<>> /\ pump'[h].inbound = <<>>
         /\ Len(pump'[h].device) > 0 => pump'[h].delivered = pump[h].delivered
<1>1. VariablesOK /\ pump[h] \in Pump(Packets)
  BY HandleNow, Unchanged
<1>2. PICK out \in OutboundEnds(pump[h]), in \in InboundEnds(pump[h]) :
        Calls(h, pump_once(pump[h], out, in))
  BY DEF PumpOnce
<1> DEFINE q == pump_once(pump[h], out, in)
<1>3. TurnsInto(pump[h], q)
  BY <1>1, PumpOnceMoves
<1> HIDE DEF q
<1>4. pump'[h] = q /\ answer'[h] = Answer(q)
  BY <1>1, <1>2 DEF Calls, VariablesOK, q
<1> QED
  BY <1>3, <1>4 DEF TurnsInto

(* A call that answers no error emptied both queues, and one that failed   *)
(* to send let nothing arrive.                                             *)
THEOREM SuccessMeansDrained == Spec => SuccessDrains
<1> DEFINE A == \A h \in Handles : PumpOnce(h) =>
                  /\ answer'[h] = "ok" => pump'[h].device = <<>> /\ pump'[h].inbound = <<>>
                  /\ Len(pump'[h].device) > 0 => pump'[h].delivered = pump[h].delivered
<1>1. DataPlaneInv /\ [Next]_vars => [A]_vars
  BY PumpOnceDrains
<1> HIDE DEF A
<1>2. Spec => [][A]_vars
  BY <1>1, DataPlaneInvHolds, PTL DEF Spec
<1> QED
  BY <1>2 DEF SuccessDrains, A

-----------------------------------------------------------------------------
(* The refinement.                                                         *)

Channelled == [Outward!Next]_(Outward!vars) /\ [Inward!Next]_(Inward!vars)

WaitingOut == [h \in Handles |-> pump[h].device]
PassedOut  == [h \in Handles |-> pump[h].sent]
WaitingIn  == [h \in Handles |-> pump[h].inbound]
PassedIn   == [h \in Handles |-> pump[h].stack]

(* The actions of the channels over these functions.                       *)
LEMMA OutwardActions ==
  ASSUME NEW h \in Handles
  PROVE  /\ \A x : Outward!Offer(h, x) <=>
                /\ WaitingOut' = [WaitingOut EXCEPT ![h] = Append(WaitingOut[h], x)]
                /\ PassedOut' = PassedOut
         /\ \A queue, n, lost : Outward!Pass(h, queue, n, lost) <=>
                /\ PassedOut' = [PassedOut EXCEPT ![h] = PassedOut[h] \o SubSeq(queue, 1, n)]
                /\ WaitingOut' = [WaitingOut EXCEPT ![h] = SubSeq(queue, n + lost + 1, Len(queue))]
         /\ Outward!Close(h) <=>
                /\ WaitingOut' = [WaitingOut EXCEPT ![h] = <<>>]
                /\ PassedOut' = [PassedOut EXCEPT ![h] = <<>>]
         /\ \A x \in Packets : Outward!Offer(h, x) => Outward!Next
         /\ \A n \in 0..Len(WaitingOut[h]), lost \in 0..1 :
                Outward!Pass(h, WaitingOut[h], n, lost) => Outward!Next
         /\ \A x \in Packets :
                Outward!Pass(h, Append(WaitingOut[h], x), Len(WaitingOut[h]) + 1, 0) => Outward!Next
         /\ Outward!Close(h) => Outward!Next
<1>1. WaitingOut[h] = pump[h].device /\ PassedOut[h] = pump[h].sent
  BY DEF WaitingOut, PassedOut
<1>2. \A x : Outward!Offer(h, x) <=>
         /\ WaitingOut' = [WaitingOut EXCEPT ![h] = Append(WaitingOut[h], x)]
         /\ PassedOut' = PassedOut
  BY DEF Outward!Offer, WaitingOut, PassedOut
<1>3. \A queue, n, lost : Outward!Pass(h, queue, n, lost) <=>
         /\ PassedOut' = [PassedOut EXCEPT ![h] = PassedOut[h] \o SubSeq(queue, 1, n)]
         /\ WaitingOut' = [WaitingOut EXCEPT ![h] = SubSeq(queue, n + lost + 1, Len(queue))]
  BY DEF Outward!Pass, WaitingOut, PassedOut
<1>4. Outward!Close(h) <=>
         /\ WaitingOut' = [WaitingOut EXCEPT ![h] = <<>>]
         /\ PassedOut' = [PassedOut EXCEPT ![h] = <<>>]
  BY DEF Outward!Close, WaitingOut, PassedOut
<1>5. \A x \in Packets : Outward!Offer(h, x) => Outward!Next
  BY DEF Outward!Next
<1>6. \A n \in 0..Len(WaitingOut[h]), lost \in 0..1 : Outward!Pass(h, WaitingOut[h], n, lost) => Outward!Next
  BY DEF Outward!Next, WaitingOut
<1>7. \A x \in Packets : Outward!Pass(h, Append(WaitingOut[h], x), Len(WaitingOut[h]) + 1, 0) => Outward!Next
  BY DEF Outward!Next, WaitingOut
<1>8. Outward!Close(h) => Outward!Next
  BY DEF Outward!Next
<1> QED
  BY <1>2, <1>3, <1>4, <1>5, <1>6, <1>7, <1>8

LEMMA InwardActions ==
  ASSUME NEW h \in Handles
  PROVE  /\ \A x : Inward!Offer(h, x) <=>
                /\ WaitingIn' = [WaitingIn EXCEPT ![h] = Append(WaitingIn[h], x)]
                /\ PassedIn' = PassedIn
         /\ \A queue, n, lost : Inward!Pass(h, queue, n, lost) <=>
                /\ PassedIn' = [PassedIn EXCEPT ![h] = PassedIn[h] \o SubSeq(queue, 1, n)]
                /\ WaitingIn' = [WaitingIn EXCEPT ![h] = SubSeq(queue, n + lost + 1, Len(queue))]
         /\ Inward!Close(h) <=>
                /\ WaitingIn' = [WaitingIn EXCEPT ![h] = <<>>]
                /\ PassedIn' = [PassedIn EXCEPT ![h] = <<>>]
         /\ \A x \in Packets : Inward!Offer(h, x) => Inward!Next
         /\ \A n \in 0..Len(WaitingIn[h]), lost \in 0..1 :
                Inward!Pass(h, WaitingIn[h], n, lost) => Inward!Next
         /\ \A x \in Packets :
                Inward!Pass(h, Append(WaitingIn[h], x), Len(WaitingIn[h]) + 1, 0) => Inward!Next
         /\ Inward!Close(h) => Inward!Next
<1>1. WaitingIn[h] = pump[h].inbound /\ PassedIn[h] = pump[h].stack
  BY DEF WaitingIn, PassedIn
<1>2. \A x : Inward!Offer(h, x) <=>
         /\ WaitingIn' = [WaitingIn EXCEPT ![h] = Append(WaitingIn[h], x)]
         /\ PassedIn' = PassedIn
  BY DEF Inward!Offer, WaitingIn, PassedIn
<1>3. \A queue, n, lost : Inward!Pass(h, queue, n, lost) <=>
         /\ PassedIn' = [PassedIn EXCEPT ![h] = PassedIn[h] \o SubSeq(queue, 1, n)]
         /\ WaitingIn' = [WaitingIn EXCEPT ![h] = SubSeq(queue, n + lost + 1, Len(queue))]
  BY DEF Inward!Pass, WaitingIn, PassedIn
<1>4. Inward!Close(h) <=>
         /\ WaitingIn' = [WaitingIn EXCEPT ![h] = <<>>]
         /\ PassedIn' = [PassedIn EXCEPT ![h] = <<>>]
  BY DEF Inward!Close, WaitingIn, PassedIn
<1>5. \A x \in Packets : Inward!Offer(h, x) => Inward!Next
  BY DEF Inward!Next
<1>6. \A n \in 0..Len(WaitingIn[h]), lost \in 0..1 : Inward!Pass(h, WaitingIn[h], n, lost) => Inward!Next
  BY DEF Inward!Next, WaitingIn
<1>7. \A x \in Packets : Inward!Pass(h, Append(WaitingIn[h], x), Len(WaitingIn[h]) + 1, 0) => Inward!Next
  BY DEF Inward!Next, WaitingIn
<1>8. Inward!Close(h) => Inward!Next
  BY DEF Inward!Next
<1> QED
  BY <1>2, <1>3, <1>4, <1>5, <1>6, <1>7, <1>8

LEMMA ExceptIs ==
  ASSUME NEW S, NEW h \in S, NEW f, NEW g, NEW v,
         f = [x \in S |-> f[x]], g = [x \in S |-> g[x]],
         g[h] = v, \A x \in S : x # h => g[x] = f[x]
  PROVE  g = [f EXCEPT ![h] = v]
  OBVIOUS

(* What the change of one pump is to the channels.                         *)
LEMMA ChannelsOfStep ==
  ASSUME VariablesOK, NEW h \in Handles, NEW q, pump' = [pump EXCEPT ![h] = q]
  PROVE  /\ WaitingOut' = [WaitingOut EXCEPT ![h] = q.device]
         /\ PassedOut' = [PassedOut EXCEPT ![h] = q.sent]
         /\ WaitingIn' = [WaitingIn EXCEPT ![h] = q.inbound]
         /\ PassedIn' = [PassedIn EXCEPT ![h] = q.stack]
<1>1. pump \in [Handles -> Pump(Packets)]
  BY DEF VariablesOK
<1>2. \A g \in Handles : pump'[g] = IF g = h THEN q ELSE pump[g]
  BY <1>1
<1>3. WaitingOut' = [WaitingOut EXCEPT ![h] = q.device]
  <2> DEFINE f == WaitingOut
             g == WaitingOut'
  <2>1. f = [x \in Handles |-> f[x]] /\ \A x \in Handles : f[x] = pump[x].device
    BY DEF WaitingOut
  <2>2. g = [x \in Handles |-> g[x]] /\ \A x \in Handles : g[x] = pump'[x].device
    BY DEF WaitingOut
  <2> HIDE DEF f, g
  <2>3. g[h] = q.device /\ \A x \in Handles : x # h => g[x] = f[x]
    BY <1>2, <2>1, <2>2
  <2>4. g = [f EXCEPT ![h] = q.device]
    BY <2>1, <2>2, <2>3, ExceptIs
  <2> QED
    BY <2>4 DEF f, g
<1>4. PassedOut' = [PassedOut EXCEPT ![h] = q.sent]
  <2> DEFINE f == PassedOut
             g == PassedOut'
  <2>1. f = [x \in Handles |-> f[x]] /\ \A x \in Handles : f[x] = pump[x].sent
    BY DEF PassedOut
  <2>2. g = [x \in Handles |-> g[x]] /\ \A x \in Handles : g[x] = pump'[x].sent
    BY DEF PassedOut
  <2> HIDE DEF f, g
  <2>3. g[h] = q.sent /\ \A x \in Handles : x # h => g[x] = f[x]
    BY <1>2, <2>1, <2>2
  <2>4. g = [f EXCEPT ![h] = q.sent]
    BY <2>1, <2>2, <2>3, ExceptIs
  <2> QED
    BY <2>4 DEF f, g
<1>5. WaitingIn' = [WaitingIn EXCEPT ![h] = q.inbound]
  <2> DEFINE f == WaitingIn
             g == WaitingIn'
  <2>1. f = [x \in Handles |-> f[x]] /\ \A x \in Handles : f[x] = pump[x].inbound
    BY DEF WaitingIn
  <2>2. g = [x \in Handles |-> g[x]] /\ \A x \in Handles : g[x] = pump'[x].inbound
    BY DEF WaitingIn
  <2> HIDE DEF f, g
  <2>3. g[h] = q.inbound /\ \A x \in Handles : x # h => g[x] = f[x]
    BY <1>2, <2>1, <2>2
  <2>4. g = [f EXCEPT ![h] = q.inbound]
    BY <2>1, <2>2, <2>3, ExceptIs
  <2> QED
    BY <2>4 DEF f, g
<1>6. PassedIn' = [PassedIn EXCEPT ![h] = q.stack]
  <2> DEFINE f == PassedIn
             g == PassedIn'
  <2>1. f = [x \in Handles |-> f[x]] /\ \A x \in Handles : f[x] = pump[x].stack
    BY DEF PassedIn
  <2>2. g = [x \in Handles |-> g[x]] /\ \A x \in Handles : g[x] = pump'[x].stack
    BY DEF PassedIn
  <2> HIDE DEF f, g
  <2>3. g[h] = q.stack /\ \A x \in Handles : x # h => g[x] = f[x]
    BY <1>2, <2>1, <2>2
  <2>4. g = [f EXCEPT ![h] = q.stack]
    BY <2>1, <2>2, <2>3, ExceptIs
  <2> QED
    BY <2>4 DEF f, g
<1> QED
  BY <1>3, <1>4, <1>5, <1>6

LEMMA QueuesStay ==
  ASSUME VariablesOK, NEW h \in Handles, NEW q, pump' = [pump EXCEPT ![h] = q],
         Queues(q) = Queues(pump[h])
  PROVE  Channelled
<1>1. /\ q.device = pump[h].device /\ q.inbound = pump[h].inbound
      /\ q.sent = pump[h].sent /\ q.stack = pump[h].stack
  BY DEF Queues
<1>2. /\ WaitingOut' = WaitingOut /\ PassedOut' = PassedOut
      /\ WaitingIn' = WaitingIn /\ PassedIn' = PassedIn
  BY <1>1, ChannelsOfStep DEF WaitingOut, PassedOut, WaitingIn, PassedIn
<1> QED
  BY <1>2 DEF Channelled, Outward!vars, Inward!vars, WaitingOut, PassedOut, WaitingIn, PassedIn

LEMMA PumpStays ==
  ASSUME UNCHANGED pump
  PROVE  Channelled
  BY DEF Channelled, Outward!vars, Inward!vars

LEMMA TurnPasses ==
  ASSUME VariablesOK, NEW h \in Handles, NEW q, pump' = [pump EXCEPT ![h] = q],
         TurnsInto(pump[h], q)
  PROVE  Channelled
<1>1. PICK n, m \in Nat, l, k \in 0..1 : Moves(pump[h], q, n, l, m, k)
  BY DEF TurnsInto
<1>0. /\ WaitingOut' = [WaitingOut EXCEPT ![h] = q.device]
      /\ PassedOut' = [PassedOut EXCEPT ![h] = q.sent]
      /\ WaitingIn' = [WaitingIn EXCEPT ![h] = q.inbound]
      /\ PassedIn' = [PassedIn EXCEPT ![h] = q.stack]
  BY ChannelsOfStep
<1>2. /\ WaitingOut[h] = pump[h].device /\ PassedOut[h] = pump[h].sent
      /\ WaitingIn[h] = pump[h].inbound /\ PassedIn[h] = pump[h].stack
  BY DEF WaitingOut, PassedOut, WaitingIn, PassedIn
<1>3. Outward!Pass(h, WaitingOut[h], n, l) /\ n \in 0..Len(WaitingOut[h])
  <2>1. /\ q.sent = PassedOut[h] \o SubSeq(WaitingOut[h], 1, n)
        /\ q.device = SubSeq(WaitingOut[h], n + l + 1, Len(WaitingOut[h]))
        /\ n \in 0..Len(WaitingOut[h])
    BY <1>1, <1>2 DEF Moves
  <2> QED
    BY <1>0, <2>1, OutwardActions
<1>4. Inward!Pass(h, WaitingIn[h], m, k) /\ m \in 0..Len(WaitingIn[h])
  <2>1. /\ q.stack = PassedIn[h] \o SubSeq(WaitingIn[h], 1, m)
        /\ q.inbound = SubSeq(WaitingIn[h], m + k + 1, Len(WaitingIn[h]))
        /\ m \in 0..Len(WaitingIn[h])
    BY <1>1, <1>2 DEF Moves
  <2> QED
    BY <1>0, <2>1, InwardActions
<1>5. Outward!Next
  BY <1>3, OutwardActions
<1>6. Inward!Next
  BY <1>4, InwardActions
<1> QED
  BY <1>5, <1>6 DEF Channelled

LEMMA QueuedIsOffered ==
  ASSUME VariablesOK, NEW h \in Handles, QueueOutbound(h) \/ QueueInbound(h)
  PROVE  Channelled
<1> DEFINE x == packets'
           out == queue_outbound_ip_packet(pump[h], x)
           in == queue_inbound_wireguard_packet(pump[h], x)
<1>1. x \in Packets /\ pump[h] \in Pump(Packets)
  BY NumberedGives, Unchanged DEF QueueOutbound, QueueInbound
<1>2. CASE QueueOutbound(h)
  <2>1. pump' = [pump EXCEPT ![h] = out]
    BY <1>2 DEF QueueOutbound, VariablesOK
  <2>2. /\ out.device = Append(pump[h].device, x)
        /\ out.inbound = pump[h].inbound /\ out.sent = pump[h].sent /\ out.stack = pump[h].stack
    BY <1>1, QueueOutFields
  <2> HIDE DEF out
  <2>0. /\ WaitingOut' = [WaitingOut EXCEPT ![h] = out.device]
        /\ PassedOut' = [PassedOut EXCEPT ![h] = out.sent]
        /\ WaitingIn' = [WaitingIn EXCEPT ![h] = out.inbound]
        /\ PassedIn' = [PassedIn EXCEPT ![h] = out.stack]
    BY <2>1, ChannelsOfStep
  <2>3. /\ WaitingOut' = [WaitingOut EXCEPT ![h] = Append(pump[h].device, x)]
        /\ PassedOut' = PassedOut /\ WaitingIn' = WaitingIn /\ PassedIn' = PassedIn
    <3>1. /\ PassedOut = [PassedOut EXCEPT ![h] = pump[h].sent]
          /\ WaitingIn = [WaitingIn EXCEPT ![h] = pump[h].inbound]
          /\ PassedIn = [PassedIn EXCEPT ![h] = pump[h].stack]
      BY DEF PassedOut, WaitingIn, PassedIn
    <3> QED
      BY <2>0, <2>2, <3>1
  <2>4. WaitingOut[h] = pump[h].device
    BY DEF WaitingOut
  <2>5. Outward!Next
    BY <1>1, <2>3, <2>4, OutwardActions
  <2> QED
    BY <2>3, <2>5 DEF Channelled, Inward!vars, WaitingIn, PassedIn
<1>3. CASE QueueInbound(h)
  <2>1. pump' = [pump EXCEPT ![h] = in]
    BY <1>3 DEF QueueInbound, VariablesOK
  <2>2. /\ in.inbound = Append(pump[h].inbound, x)
        /\ in.device = pump[h].device /\ in.sent = pump[h].sent /\ in.stack = pump[h].stack
    BY <1>1, QueueInFields
  <2> HIDE DEF in
  <2>0. /\ WaitingOut' = [WaitingOut EXCEPT ![h] = in.device]
        /\ PassedOut' = [PassedOut EXCEPT ![h] = in.sent]
        /\ WaitingIn' = [WaitingIn EXCEPT ![h] = in.inbound]
        /\ PassedIn' = [PassedIn EXCEPT ![h] = in.stack]
    BY <2>1, ChannelsOfStep
  <2>3. /\ WaitingIn' = [WaitingIn EXCEPT ![h] = Append(pump[h].inbound, x)]
        /\ PassedIn' = PassedIn /\ WaitingOut' = WaitingOut /\ PassedOut' = PassedOut
    <3>1. /\ PassedOut = [PassedOut EXCEPT ![h] = pump[h].sent]
          /\ WaitingOut = [WaitingOut EXCEPT ![h] = pump[h].device]
          /\ PassedIn = [PassedIn EXCEPT ![h] = pump[h].stack]
      BY DEF PassedOut, WaitingOut, PassedIn
    <3> QED
      BY <2>0, <2>2, <3>1
  <2>4. WaitingIn[h] = pump[h].inbound
    BY DEF WaitingIn
  <2>5. Inward!Next
    BY <1>1, <2>3, <2>4, InwardActions
  <2> QED
    BY <2>3, <2>5 DEF Channelled, Outward!vars, WaitingOut, PassedOut
<1> QED
  BY <1>2, <1>3

(* The packet of write_all passes at once: nothing waited in the stream.   *)
LEMMA WrittenPasses ==
  ASSUME DataPlaneInv, NEW h \in Handles, write_all(h)
  PROVE  Channelled
<1> DEFINE x == packets'
           queued == queue_outbound_ip_packet(pump[h], x)
<1>1. VariablesOK /\ pump[h] \in Pump(Packets) /\ kind[h] = "stream" /\ Undisturbed(pump[h])
  BY HandleNow, Unchanged DEF write_all, HandleIs
<1>2. x \in Packets
  BY <1>1, NumberedGives DEF write_all
<1>3. /\ queued \in Pump(Packets)
      /\ queued.device = Append(pump[h].device, x)
      /\ queued.inbound = pump[h].inbound /\ queued.sent = pump[h].sent
      /\ queued.stack = pump[h].stack
      /\ queued.engine = "fake" /\ queued.lifecycle = "running" /\ ~queued.fail_next_send
  BY <1>1, <1>2, QueueOutFields DEF Undisturbed
<1>4. PICK out \in OutboundEnds(queued), in \in InboundEnds(queued) :
        Calls(h, pump_once(queued, out, in))
  BY DEF write_all
<1> HIDE DEF queued
<1> DEFINE q == pump_once(queued, out, in)
<1>5. TurnsInto(queued, q) /\ Answer(q) = "ok" /\ Undisturbed(q)
  BY <1>3, PumpOnceMoves, UndisturbedTurn
<1>6. pump' = [pump EXCEPT ![h] = q]
  BY <1>4 DEF Calls
<1> HIDE DEF q
<1>7. PICK n, m \in Nat, l, k \in 0..1 : Moves(queued, q, n, l, m, k) /\ l + k = LostBy(q)
  BY <1>5 DEF TurnsInto
<1>8. l = 0 /\ k = 0
  BY <1>5, <1>7 DEF LostBy
<1> DEFINE d == Append(pump[h].device, x)
<1>9. d \in Seq(Packets) /\ Len(d) = Len(pump[h].device) + 1 /\ Len(d) \in Nat
  BY <1>1, <1>2, AppendProperties, LenProperties DEF Pump
<1> HIDE DEF d, x
<1>10. /\ q.sent = pump[h].sent \o SubSeq(d, 1, n)
       /\ q.device = SubSeq(d, n + 0 + 1, Len(d)) /\ n \in 0..Len(d) /\ q.device = <<>>
  BY <1>3, <1>5, <1>7, <1>8 DEF Moves, Undisturbed, d
<1>11. n = Len(pump[h].device) + 1
  <2>1. Len(SubSeq(d, n + 1, Len(d))) = Len(d) - n
    BY <1>9, <1>10, Rest
  <2>2. Len(SubSeq(d, n + 1, Len(d))) = 0
    BY <1>10
  <2> QED
    BY <1>9, <1>10, <2>1, <2>2
<1>12. /\ q.stack = pump[h].stack \o SubSeq(pump[h].inbound, 1, m)
       /\ q.inbound = SubSeq(pump[h].inbound, m + 0 + 1, Len(pump[h].inbound))
       /\ m \in 0..Len(pump[h].inbound)
  BY <1>3, <1>7, <1>8 DEF Moves
<1>13. /\ WaitingOut[h] = pump[h].device /\ PassedOut[h] = pump[h].sent
       /\ WaitingIn[h] = pump[h].inbound /\ PassedIn[h] = pump[h].stack
  BY DEF WaitingOut, PassedOut, WaitingIn, PassedIn
<1>0. /\ WaitingOut' = [WaitingOut EXCEPT ![h] = q.device]
      /\ PassedOut' = [PassedOut EXCEPT ![h] = q.sent]
      /\ WaitingIn' = [WaitingIn EXCEPT ![h] = q.inbound]
      /\ PassedIn' = [PassedIn EXCEPT ![h] = q.stack]
  BY <1>1, <1>6, ChannelsOfStep
<1>14. Inward!Pass(h, WaitingIn[h], m, 0) /\ m \in 0..Len(WaitingIn[h])
  BY <1>0, <1>12, <1>13, InwardActions
<1>15. Inward!Next
  BY <1>14, InwardActions
<1>16. Outward!Pass(h, d, n, 0)
  BY <1>0, <1>10, <1>13, OutwardActions
<1>17. Outward!Pass(h, Append(WaitingOut[h], x), Len(WaitingOut[h]) + 1, 0)
  BY <1>11, <1>13, <1>16 DEF d
<1>18. Outward!Next
  BY <1>2, <1>17, OutwardActions
<1> QED
  BY <1>15, <1>18 DEF Channelled

LEMMA DroppedIsClosed ==
  ASSUME VariablesOK, NEW h \in Handles, Drop(h)
  PROVE  Channelled
<1> DEFINE q == NewPump("fake")
<1>1. pump' = [pump EXCEPT ![h] = q]
  BY DEF Drop
<1>2. q.device = <<>> /\ q.sent = <<>> /\ q.inbound = <<>> /\ q.stack = <<>>
  BY DEF NewPump
<1> HIDE DEF q
<1>0. /\ WaitingOut' = [WaitingOut EXCEPT ![h] = q.device]
      /\ PassedOut' = [PassedOut EXCEPT ![h] = q.sent]
      /\ WaitingIn' = [WaitingIn EXCEPT ![h] = q.inbound]
      /\ PassedIn' = [PassedIn EXCEPT ![h] = q.stack]
  BY <1>1, ChannelsOfStep
<1>3. Outward!Close(h)
  BY <1>0, <1>2, OutwardActions
<1>4. Inward!Close(h)
  BY <1>0, <1>2, InwardActions
<1> QED
  BY <1>3, <1>4, OutwardActions, InwardActions DEF Channelled

LEMMA OpenedIsEmpty ==
  ASSUME DataPlaneInv, NEW h \in Handles, NEW i \in Instances, OpenSomething(h, i)
  PROVE  Channelled
<1>1. VariablesOK /\ (kind[h] = "free" => pump[h] = NewPump("fake"))
  BY HandleNow DEF HandleIs
<1>2. CASE UNCHANGED pump
  BY <1>2, PumpStays
<1>3. CASE ~UNCHANGED pump
  <2>1. kind[h] = "free" /\ \E q \in {NewPump("fake"), NewPump("boringtun"), start(NewPump("fake"))} :
          pump' = [pump EXCEPT ![h] = q]
    <3>1. CASE connect_tcp(h, i) \/ open_udp_session(h, i)
      BY <1>3, <3>1 DEF connect_tcp, open_udp_session, Open
    <3>2. ASSUME NEW engine \in Engines, runtime_packet_pump(h, i, engine)
          PROVE  kind[h] = "free" /\ \E q \in {NewPump("fake"), NewPump("boringtun"), start(NewPump("fake"))} :
                   pump' = [pump EXCEPT ![h] = q]
      BY <1>3, <3>2 DEF runtime_packet_pump, Engines
    <3>3. ASSUME NEW protocol \in {"tcp", "udp"}, default_send(h, i, protocol) PROVE FALSE
      BY <1>3, <3>3 DEF default_send
    <3> QED
      BY <3>1, <3>2, <3>3 DEF OpenSomething
  <2>2. PICK q \in {NewPump("fake"), NewPump("boringtun"), start(NewPump("fake"))} :
          pump' = [pump EXCEPT ![h] = q]
    BY <2>1
  <2>3. Queues(q) = Queues(pump[h])
    <3>1. pump[h] = NewPump("fake")
      BY <1>1, <2>1
    <3>2. q.device = <<>> /\ q.inbound = <<>> /\ q.sent = <<>> /\ q.delivered = <<>> /\ q.stack = <<>>
      <4>1. CASE q \in {NewPump("fake"), NewPump("boringtun")}
        BY <4>1 DEF NewPump
      <4>2. CASE q = start(NewPump("fake"))
        BY <4>2 DEF start, NewPump
      <4> QED
        BY <2>2, <4>1, <4>2
    <3>3. Queues(NewPump("fake")) = <<<<>>, <<>>, <<>>, <<>>, <<>>>>
      BY DEF NewPump, Queues
    <3> QED
      BY <3>1, <3>2, <3>3 DEF Queues
  <2> QED
    BY <1>1, <2>2, <2>3, QueuesStay
<1> QED
  BY <1>2, <1>3

LEMMA UsedIsChannelled ==
  ASSUME DataPlaneInv, NEW h \in Handles, Use(h)
  PROVE  Channelled
<1>1. VariablesOK /\ pump[h] \in Pump(Packets)
  BY HandleNow, Unchanged
<1>2. CASE Start(h) \/ Stop(h) \/ FailNextSend(h)
  <2>1. PICK q \in {start(pump[h]), stop(pump[h]), fail_next_transport_send(pump[h])} :
          pump' = [pump EXCEPT ![h] = q]
    BY <1>1, <1>2 DEF Start, Stop, FailNextSend, Calls, VariablesOK
  <2>2. Queues(q) = Queues(pump[h])
    BY <1>1, StartFields, StopFields, FailNextFields
  <2> QED
    BY <1>1, <2>1, <2>2, QueuesStay
<1>3. CASE QueueOutbound(h) \/ QueueInbound(h)
  BY <1>1, <1>3, QueuedIsOffered
<1>4. CASE PumpOnce(h)
  <2>1. PICK out \in OutboundEnds(pump[h]), in \in InboundEnds(pump[h]) :
          Calls(h, pump_once(pump[h], out, in))
    BY <1>4 DEF PumpOnce
  <2>2. TurnsInto(pump[h], pump_once(pump[h], out, in))
    BY <1>1, PumpOnceMoves
  <2> QED
    BY <1>1, <2>1, <2>2, TurnPasses DEF Calls
<1>5. CASE write_all(h)
  BY <1>5, WrittenPasses
<1>6. CASE send_datagram(h)
  BY <1>6, PumpStays DEF send_datagram
<1>7. CASE Drop(h)
  BY <1>1, <1>7, DroppedIsClosed
<1> QED
  BY <1>2, <1>3, <1>4, <1>5, <1>6, <1>7 DEF Use

LEMMA StepIsChannelled == DataPlaneInv /\ [Next]_vars => Channelled
<1> SUFFICES ASSUME DataPlaneInv, [Next]_vars PROVE Channelled
  OBVIOUS
<1>1. CASE UNCHANGED vars
  BY <1>1, PumpStays DEF vars
<1>2. ASSUME NEW ids \in SUBSET Instances, Build(ids) PROVE Channelled
  BY <1>2, PumpStays DEF Build, with_instances, try_with_instances
<1>3. ASSUME NEW h \in Handles, NEW i \in Instances, OpenSomething(h, i) PROVE Channelled
  BY <1>3, OpenedIsEmpty
<1>4. ASSUME NEW h \in Handles, Use(h) PROVE Channelled
  BY <1>4, UsedIsChannelled
<1> QED
  BY <1>1, <1>2, <1>3, <1>4 DEF Next

(* Each direction of every pump implements the channel of PacketChannel.   *)
THEOREM PumpsAreChannels == Spec => ImplementsChannels
<1>1. Init => Outward!Init /\ Inward!Init
  BY DEF Init, Outward!Init, Inward!Init, NewPump
<1>2. DataPlaneInv /\ [Next]_vars =>
        [Outward!Next]_(Outward!vars) /\ [Inward!Next]_(Inward!vars)
  BY StepIsChannelled DEF Channelled
<1> QED
  BY <1>1, <1>2, DataPlaneInvHolds, PTL DEF Spec, ImplementsChannels, Outward!Spec, Inward!Spec

=============================================================================
