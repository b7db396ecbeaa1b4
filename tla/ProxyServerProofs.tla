------------------------- MODULE ProxyServerProofs -------------------------
(***************************************************************************)
(* Proofs about ProxyServer: it uses the pool only as ProxyPool allows, so *)
(* what is proved of ProxyPool holds of the server; its handlers leave no  *)
(* lease behind; nobody is served without the secret or by an instance of  *)
(* another route; what clients are told is true; and it implements         *)
(* LeaseLedger.                                                            *)
(***************************************************************************)
EXTENDS ProxyServer, ProxyPoolProofs

-----------------------------------------------------------------------------
(* The server's steps are steps of the pool.                               *)

RequestsOK ==
  /\ request \in [Holders -> Requests \cup {NoRequest}]

LEMMA UsernameIsRoute ==
  ASSUME RequestsOK, NEW c \in Holders, Username(c) # Invalid
  PROVE  Username(c) \in Routes
<1>1. request[c] = NoRequest \/ request[c] \in Request
  BY ServerAssumption DEF RequestsOK
<1>2. request[c].username \in Routes \cup {Invalid}
  BY <1>1 DEF Request, NoRequest
<1> QED
  BY <1>2, ServerAssumption DEF Username

LEMMA PoolStep ==
  ASSUME RequestsOK, [Next]_vars
  PROVE  [PoolNext]_poolVars
<1>1. CASE BuildPool
  BY <1>1 DEF BuildPool, PoolNext
<1>2. ASSUME NEW c \in Holders, Resolving(c) PROVE [PoolNext]_poolVars
  <2>1. CASE StartSelection(c)
    BY <2>1, UsernameIsRoute DEF StartSelection, PoolNext
  <2>2. CASE ContinueSelection(c) \/ Granted(c) \/ Refused(c)
    BY <2>2 DEF ContinueSelection, Granted, Refused, PoolNext
  <2>3. CASE RejectRequest(c) \/ ReplyRefusal(c)
    BY <2>3 DEF RejectRequest, ReplyRefusal
  <2> QED
    BY <1>2, <2>1, <2>2, <2>3 DEF Resolving
<1>3. ASSUME NEW c \in Holders, Serving(c) PROVE [PoolNext]_poolVars
  <2>1. CASE DropLease(c)
    BY <2>1 DEF PoolNext
  <2>2. CASE UNCHANGED poolVars
    BY <2>2
  <2> QED
    BY <1>3, <2>1, <2>2
       DEF Serving, Connect, ReplyFailed, ReplyGranted, Exchange, Forward, HandlerEnds,
           BindRelay, OpenSession, ReplyRelay, Drain, AbortRelay, ReleaseAssociation
<1>4. ASSUME NEW c \in Holders,
             (\E r \in Requests : Accept(c, r)) \/ ClientGone(c) \/ Reading(c) \/ RelayTask(c)
      PROVE  UNCHANGED poolVars
  BY <1>4 DEF Accept, ClientGone, Reading, HandshakeFails, ReadGreeting, ReadCredentials,
              ReadCommand, ReadHttpRequest, RelayTask, RelayPoll, RelayPends, RelayReceive,
              RelaySend, RelayReply, RelayCancelled
<1>5. CASE UNCHANGED vars
  BY <1>5 DEF vars
<1> QED
  BY <1>1, <1>2, <1>3, <1>4, <1>5 DEF Next

LEMMA RequestsStep == RequestsOK /\ [Next]_vars => RequestsOK'
  BY DEF RequestsOK, Next, vars, handlerVars, BuildPool, Accept, ClientGone, Reading,
         HandshakeFails, ReadGreeting, ReadCredentials, ReadCommand, ReadHttpRequest,
         Resolving, RejectRequest, StartSelection, ContinueSelection, Granted, Refused,
         ReplyRefusal, Serving, Connect, ReplyFailed, ReplyGranted, Exchange, Forward,
         BindRelay, OpenSession, ReplyRelay, Drain, AbortRelay, ReleaseAssociation,
         RelayTask, RelayPoll, RelayPends, RelayReceive, RelaySend, RelayReply, RelayCancelled

LEMMA RequestsInvariant == Spec => []RequestsOK
<1>1. Init => RequestsOK
  BY DEF Init, RequestsOK
<1> QED
  BY <1>1, RequestsStep, PTL DEF Spec

(* Every behaviour of the server is a behaviour of the pool: the handlers  *)
(* select and drop, and do nothing else to the pool.                       *)
THEOREM ServerUsesPool == Spec => PoolSpec
<1>1. Init => PoolInit
  BY DEF Init
<1>2. RequestsOK /\ [Next]_vars => [PoolNext]_poolVars
  BY PoolStep
<1> QED
  BY <1>1, <1>2, RequestsInvariant, PTL DEF Spec, PoolSpec

(* So, in the server too, the active connection count of an instance is    *)
(* the number of connections bound to it.                                  *)
THEOREM ServerCountsLeases == Spec => []LeasesCounted
  BY ServerUsesPool, LeasesAreCounted, PTL

(* Every route of a client is honoured or refused, and never refused while *)
(* the pool has an instance for it; what is granted was the least loaded;  *)
(* and "Unavailable" is what clients without a selector meet: select_lease *)
(* as the handlers of both endpoints call it.                              *)
THEOREM ServerSelectsRightly ==
  Spec => SelectionHonoursRoute /\ GrantIsLeastLoaded /\ RefusedOnlyWhenUnavailable
  BY ServerUsesPool, SelectionsHonourRoutes, GrantsAreLeastLoaded, RefusalsMeanUnavailable

(* No handler keeps the mutex of the pool: its selection is over after     *)
(* finitely many reads, whatever the other handlers do meanwhile.  This is *)
(* the step of the argument for PoolAnswers.                               *)
THEOREM ServerSelectionsRunOut == Spec => SelectionRunsOut
  BY ServerUsesPool, SelectionsRunOut

(* The Serving Pool the handlers select from is the best the rows allow.   *)
THEOREM ServerServesTheBest == Spec => []ServingPoolIsBest
  BY ServerUsesPool, ServingPoolsAreBest, PTL

-----------------------------------------------------------------------------
(* The handlers.  Where a handler is says what its connection has: a lease *)
(* while it serves, an open session from the moment the data plane opened, *)
(* a relay only from the reply of an association on.                       *)

TunnelOpen == {"replyGranted", "exchange", "forward", "replyRelay"}
MayRelay   == {"idle", "drain", "abort", "release"}

PlaceOf(c) ==
  /\ lease[c] # NONE <=> pc[c] \in Leased
  /\ lock = c => pc[c] = "select"
  /\ Relaying(c) => pc[c] \in MayRelay
  /\ session[c] # NONE => Relaying(c) \/ pc[c] \in TunnelOpen
  /\ session[c] # NONE => session[c] = lease[c] \/ (lease[c] = NONE /\ aborted[c])
  /\ pc[c] = "release" => aborted[c]
  /\ Relaying(c) /\ pc[c] = "idle" => aborted[c]

ServerInv == ServerTypeOK /\ \A c \in Holders : PlaceOf(c)

LEMMA ServerTypeStep ==
  ServerTypeOK /\ PoolTypeOK /\ [Next]_vars => ServerTypeOK'
<1> SUFFICES ASSUME ServerTypeOK, PoolTypeOK, [Next]_vars PROVE ServerTypeOK'
  OBVIOUS
<1> USE DEF ServerTypeOK, Handshaking, Leased, Goto, Told, WriteOutcomes
<1>1. Instances' = Instances /\ lease \in [Holders -> Instances \cup {NONE}]
  <2>1. UNCHANGED pool
    BY PoolStep DEF ServerTypeOK, RequestsOK, PoolNext, poolVars, buildVars, ClassifyRow, Classify,
       BeginSelection, ReadInstance, GrantLease, SearchStandby, RefuseSelection, DropLease
  <2> QED
    BY <2>1 DEF Instances, PoolTypeOK
<1>2. CASE BuildPool \/ UNCHANGED vars
  BY <1>1, <1>2 DEF BuildPool, vars, handlerVars, relayVars
<1>3. ASSUME NEW c \in Holders, NEW r \in Requests, Accept(c, r) PROVE ServerTypeOK'
  BY <1>1, <1>3 DEF Accept
<1>4. ASSUME NEW c \in Holders, ClientGone(c) \/ Reading(c) PROVE ServerTypeOK'
  BY <1>1, <1>4 DEF ClientGone, Reading, HandshakeFails, ReadGreeting, ReadCredentials,
     ReadCommand, ReadHttpRequest, relayVars
<1>5. ASSUME NEW c \in Holders, Resolving(c) PROVE ServerTypeOK'
  BY <1>1, <1>5 DEF Resolving, RejectRequest, StartSelection, ContinueSelection, Granted,
     Refused, ReplyRefusal, relayVars, handlerVars
<1>6. ASSUME NEW c \in Holders, Serving(c) PROVE ServerTypeOK'
  BY <1>1, <1>6 DEF Serving, Connect, ReplyFailed, ReplyGranted, Exchange, Forward, HandlerEnds,
     BindRelay, OpenSession, ReplyRelay, Drain, AbortRelay, ReleaseAssociation, relayVars
<1>7. ASSUME NEW c \in Holders, RelayTask(c) PROVE ServerTypeOK'
  BY <1>1, <1>7 DEF RelayTask, RelayPoll, RelayPends, RelayReceive, RelaySend, RelayReply,
     RelayCancelled, RelayEnds, handlerVars
<1> QED
  BY <1>2, <1>3, <1>4, <1>5, <1>6, <1>7 DEF Next

(* What a step of another connection leaves alone.                         *)
LEMMA PlaceUntouched ==
  ASSUME NEW c \in Holders, PlaceOf(c), lock' = c => lock = c,
         lease'[c] = lease[c], pc'[c] = pc[c], session'[c] = session[c],
         relay'[c] = relay[c], aborted'[c] = aborted[c]
  PROVE  PlaceOf(c)'
  BY DEF PlaceOf, Relaying

LEMMA PlaceStep ==
  ASSUME ServerInv, LeaseInv, LeaseInv', [Next]_vars, NEW d \in Holders
  PROVE  PlaceOf(d)'
<1> USE DEF Goto
<1>1. /\ pc \in [Holders -> Handshaking \cup Leased \cup {"idle", "select", "refuse"}]
      /\ lease \in [Holders -> Instances \cup {NONE}] /\ NONE \notin Instances
      /\ session \in [Holders -> Instances \cup {NONE}]
      /\ relay \in [Holders -> {"none", "recv", "send", "reply", "ended"}]
      /\ aborted \in [Holders -> BOOLEAN] /\ NoHolder \notin Holders
      /\ lock # NoHolder => lease[lock] = NONE
      /\ \A c \in Holders : PlaceOf(c)
  BY PoolShape, PoolAssumption
     DEF ServerInv, ServerTypeOK, LeaseInv, PoolTypeOK, SelectingHoldsNone
<1>2. CASE BuildPool \/ UNCHANGED vars
  BY <1>1, <1>2, PlaceUntouched
     DEF BuildPool, ClassifyRow, Classify, vars, poolVars, handlerVars, relayVars
<1>3. ASSUME NEW c \in Holders, NEW r \in Requests, Accept(c, r) PROVE PlaceOf(d)'
  <2>1. CASE d = c
    BY <1>1, <1>3, <2>1
       DEF Accept, PlaceOf, Relaying, Leased, TunnelOpen, MayRelay, poolVars
  <2>2. CASE d # c
    BY <1>1, <1>3, <2>2, PlaceUntouched DEF Accept, poolVars
  <2> QED
    BY <2>1, <2>2
<1>4. ASSUME NEW c \in Holders, ClientGone(c) \/ Reading(c) PROVE PlaceOf(d)'
  <2>1. CASE d = c
    BY <1>1, <1>4, <2>1
       DEF ClientGone, Reading, HandshakeFails, ReadGreeting, ReadCredentials, ReadCommand,
           ReadHttpRequest, PlaceOf, Relaying, Leased, TunnelOpen, MayRelay, poolVars, relayVars
  <2>2. CASE d # c
    BY <1>1, <1>4, <2>2, PlaceUntouched
       DEF ClientGone, Reading, HandshakeFails, ReadGreeting, ReadCredentials, ReadCommand,
           ReadHttpRequest, poolVars, relayVars
  <2> QED
    BY <2>1, <2>2
<1>5. ASSUME NEW c \in Holders, Resolving(c) PROVE PlaceOf(d)'
  <2> USE DEF Resolving, RejectRequest, StartSelection, ContinueSelection, Granted, Refused,
              ReplyRefusal, BeginSelection, ReadInstance, SearchStandby, GrantLease,
              RefuseSelection, SearchEnded, poolVars, relayVars, handlerVars
  <2>1. CASE d = c
    <3>1. scan.best \in Instances \cup {NONE}
      BY ScanType DEF LeaseInv
    <3> QED
      BY <1>1, <1>5, <2>1, <3>1 DEF PlaceOf, Relaying, Leased, TunnelOpen, MayRelay
  <2>2. CASE d # c
    BY <1>1, <1>5, <2>2, PlaceUntouched
  <2> QED
    BY <2>1, <2>2
<1>6. ASSUME NEW c \in Holders, Serving(c) PROVE PlaceOf(d)'
  <2> USE DEF Serving, Connect, ReplyFailed, ReplyGranted, Exchange, Forward, HandlerEnds,
              BindRelay, OpenSession, ReplyRelay, Drain, AbortRelay, ReleaseAssociation,
              DropLease, poolVars, relayVars, handlerVars
  <2>1. CASE d = c
    BY <1>1, <1>6, <2>1 DEF PlaceOf, Relaying, Leased, TunnelOpen, MayRelay
  <2>2. CASE d # c
    BY <1>1, <1>6, <2>2, PlaceUntouched
  <2> QED
    BY <2>1, <2>2
<1>7. ASSUME NEW c \in Holders, RelayTask(c) PROVE PlaceOf(d)'
  <2> USE DEF RelayTask, RelayPoll, RelayPends, RelayReceive, RelaySend, RelayReply,
              RelayCancelled, RelayEnds, poolVars, handlerVars
  <2>1. CASE d = c
    BY <1>1, <1>7, <2>1 DEF PlaceOf, Relaying, Leased, TunnelOpen, MayRelay
  <2>2. CASE d # c
    BY <1>1, <1>7, <2>2, PlaceUntouched
  <2> QED
    BY <2>1, <2>2
<1> QED
  BY <1>2, <1>3, <1>4, <1>5, <1>6, <1>7 DEF Next

LEMMA ServerStep ==
  ServerInv /\ LeaseInv /\ LeaseInv' /\ [Next]_vars => ServerInv'
  BY ServerTypeStep, PlaceStep DEF ServerInv, LeaseInv

LEMMA ServerInit == Init => ServerInv
<1> SUFFICES ASSUME Init PROVE ServerInv
  OBVIOUS
<1>1. ServerTypeOK
  BY DEF Init, ServerTypeOK
<1>2. ASSUME NEW c \in Holders PROVE PlaceOf(c)
  BY <1>2, PoolAssumption DEF Init, PoolInit, PlaceOf, Relaying, Leased
<1> QED
  BY <1>1, <1>2 DEF ServerInv

LEMMA ServerInvariant == Spec => [](ServerInv /\ LeaseInv)
  BY ServerInit, ServerStep, ServerUsesPool, LeaseInvariant, PTL DEF Spec

(* Type correctness of ProxyServer.                                        *)
THEOREM ServerTypeCorrect == Spec => []ServerTypeOK
<1>1. ServerInv => ServerTypeOK
  BY DEF ServerInv
<1> QED
  BY <1>1, ServerInvariant, PTL

(* No path through handle_socks5 or handle_http leaves a lease behind or   *)
(* drops it while the request is still served.                             *)
THEOREM LeasesFollowHandlers == Spec => []LeaseHeldWhileServing
<1>1. ServerInv => LeaseHeldWhileServing
  BY DEF ServerInv, PlaceOf, LeaseHeldWhileServing
<1> QED
  BY <1>1, ServerInvariant, PTL

(* A stream or session is always on the leased instance.                   *)
THEOREM SessionsAreLeased == Spec => []SessionIsLeased
<1>1. ServerInv => SessionIsLeased
  BY DEF ServerInv, PlaceOf, SessionIsLeased
<1> QED
  BY <1>1, ServerInvariant, PTL

-----------------------------------------------------------------------------
(* Handlers and relays run out of steps.                                   *)

LEMMA ServingGoesForward ==
  ASSUME ServerInv, LeaseInv, NEW c \in Holders, Serving(c)
  PROVE  \/ lease'[c] = NONE /\ pc'[c] = "idle"
         \/ lease'[c] = lease[c] /\ StepsLeft[pc'[c]] < StepsLeft[pc[c]]
<1>1. /\ pc \in [Holders -> Handshaking \cup Leased \cup {"idle", "select", "refuse"}]
      /\ lease \in [Holders -> Instances \cup {NONE}]
  BY DEF ServerInv, ServerTypeOK, LeaseInv, PoolTypeOK
<1>2. CASE DropLease(c) /\ Goto(c, "idle")
  BY <1>1, <1>2 DEF DropLease, Goto
<1>3. CASE UNCHANGED poolVars /\ pc[c] = "connect" /\ Connect(c)
  BY <1>1, <1>3 DEF Connect, Goto, poolVars, StepsLeft
<1>4. CASE UNCHANGED poolVars /\ pc[c] = "replyGranted" /\ Goto(c, "exchange")
  BY <1>1, <1>4 DEF Goto, poolVars, StepsLeft
<1>5. CASE UNCHANGED poolVars /\ pc[c] = "exchange" /\ Goto(c, "forward")
  BY <1>1, <1>5 DEF Goto, poolVars, StepsLeft
<1>6. CASE UNCHANGED poolVars /\ pc[c] = "bindRelay" /\ Goto(c, "openSession")
  BY <1>1, <1>6 DEF Goto, poolVars, StepsLeft
<1>7. CASE UNCHANGED poolVars /\ pc[c] = "openSession" /\ OpenSession(c)
  BY <1>1, <1>7 DEF OpenSession, Goto, poolVars, StepsLeft
<1>8. CASE UNCHANGED poolVars /\ pc[c] = "replyRelay" /\ Goto(c, "drain")
  BY <1>1, <1>8 DEF Goto, poolVars, StepsLeft
<1>9. CASE Drain(c) \/ AbortRelay(c)
  BY <1>1, <1>9 DEF Drain, AbortRelay, Goto, poolVars, StepsLeft
<1>10. CASE ReplyFailed(c) \/ Forward(c) \/ ReleaseAssociation(c)
  BY <1>2, <1>10 DEF ReplyFailed, Forward, HandlerEnds, ReleaseAssociation
<1>11. CASE ReplyGranted(c) \/ Exchange(c) \/ BindRelay(c) \/ ReplyRelay(c)
  BY <1>2, <1>4, <1>5, <1>6, <1>8, <1>11
     DEF ReplyGranted, Exchange, BindRelay, ReplyRelay, HandlerEnds
<1>12. CASE Connect(c) \/ OpenSession(c)
  BY <1>3, <1>7, <1>12 DEF Connect, OpenSession
<1> QED
  BY <1>9, <1>10, <1>11, <1>12 DEF Serving

(* A handler with a lease is moved by its own steps only.                  *)
LEMMA OthersDoNotMove ==
  ASSUME ServerInv, LeaseInv, [Next]_vars, NEW c \in Holders, lease[c] # NONE, ~Serving(c)
  PROVE  pc'[c] = pc[c] /\ lease'[c] = lease[c]
<1>1. /\ pc \in [Holders -> Handshaking \cup Leased \cup {"idle", "select", "refuse"}]
      /\ lease \in [Holders -> Instances \cup {NONE}]
      /\ pc[c] \in Leased /\ lock # c /\ NoHolder \notin Holders
  BY PoolAssumption
     DEF ServerInv, ServerTypeOK, LeaseInv, PoolTypeOK, PlaceOf, SelectingHoldsNone
<1>2. CASE BuildPool \/ UNCHANGED vars
  BY <1>2 DEF BuildPool, ClassifyRow, Classify, vars, poolVars, handlerVars
<1>3. ASSUME NEW d \in Holders, NEW r \in Requests, Accept(d, r)
      PROVE  pc'[c] = pc[c] /\ lease'[c] = lease[c]
  BY <1>1, <1>3 DEF Accept, Goto, poolVars, Leased
<1>4. ASSUME NEW d \in Holders, ClientGone(d) \/ RelayTask(d)
      PROVE  pc'[c] = pc[c] /\ lease'[c] = lease[c]
  BY <1>4 DEF ClientGone, RelayTask, RelayPoll, RelayPends, RelayReceive, RelaySend,
              RelayReply, RelayCancelled, handlerVars, poolVars
<1>5. ASSUME NEW d \in Holders, Reading(d)
      PROVE  pc'[c] = pc[c] /\ lease'[c] = lease[c]
  BY <1>1, <1>5 DEF Reading, HandshakeFails, ReadGreeting, ReadCredentials, ReadCommand,
                    ReadHttpRequest, Goto, poolVars, Leased
<1>6. ASSUME NEW d \in Holders, Resolving(d)
      PROVE  pc'[c] = pc[c] /\ lease'[c] = lease[c]
  <2>1. d # c
    BY <1>1, <1>6
       DEF Resolving, RejectRequest, StartSelection, ContinueSelection, Granted, Refused,
           ReplyRefusal, Leased
  <2> QED
    BY <1>1, <1>6, <2>1
       DEF Resolving, RejectRequest, StartSelection, ContinueSelection, Granted, Refused,
           ReplyRefusal, BeginSelection, ReadInstance, SearchStandby, GrantLease,
           RefuseSelection, Goto, poolVars, handlerVars
<1>7. ASSUME NEW d \in Holders, d # c, Serving(d)
      PROVE  pc'[c] = pc[c] /\ lease'[c] = lease[c]
  <2>1. pc'[c] = pc[c]
    BY <1>1, <1>7
       DEF Serving, Connect, ReplyFailed, ReplyGranted, Exchange, Forward, HandlerEnds,
           BindRelay, OpenSession, ReplyRelay, Drain, AbortRelay, ReleaseAssociation, Goto
  <2>2. UNCHANGED poolVars \/ DropLease(d)
    BY <1>7
       DEF Serving, Connect, ReplyFailed, ReplyGranted, Exchange, Forward, HandlerEnds,
           BindRelay, OpenSession, ReplyRelay, Drain, AbortRelay, ReleaseAssociation
  <2> QED
    BY <1>1, <1>7, <2>1, <2>2 DEF DropLease, poolVars
<1> QED
  BY <1>2, <1>3, <1>4, <1>5, <1>6, <1>7 DEF Next

(* A handler that was granted a lease takes at most six more steps of its  *)
(* own until the lease is dropped, through every early return of both      *)
(* handlers, and nothing that other connections do adds to them.  This is  *)
(* the step of the argument for LeasesReleased.                            *)
THEOREM HandlersAreFinite == Spec => HandlersRunOut
<1>1. ASSUME ServerInv, LeaseInv, [Next]_vars, NEW c \in Holders, lease[c] # NONE
      PROVE  \/ lease'[c] = NONE /\ pc'[c] = "idle"
             \/ /\ lease'[c] = lease[c]
                /\ IF Serving(c) THEN StepsLeft[pc'[c]] < StepsLeft[pc[c]] ELSE pc'[c] = pc[c]
  BY <1>1, ServingGoesForward, OthersDoNotMove
<1>2. ServerInv /\ LeaseInv /\ [Next]_vars =>
        [\A c \in Holders :
           lease[c] # NONE =>
             \/ lease'[c] = NONE /\ pc'[c] = "idle"
             \/ /\ lease'[c] = lease[c]
                /\ IF Serving(c) THEN StepsLeft[pc'[c]] < StepsLeft[pc[c]]
                                 ELSE pc'[c] = pc[c]]_vars
  BY <1>1
<1> QED
  BY <1>2, ServerInvariant, PTL DEF Spec, HandlersRunOut

(* The relay of a handler that has returned was aborted, is never polled   *)
(* again, and keeps its connection's slot until it is gone: of the relay   *)
(* task only what it does until its next await is left.  This is the step  *)
(* of the argument for RelayStops.                                         *)
THEOREM RelaysAreFinite == Spec => RelaysRunOut
<1>1. ASSUME ServerInv, [Next]_vars, NEW c \in Holders, Relaying(c), pc[c] = "idle"
      PROVE  /\ aborted[c]
             /\ polled'[c] => polled[c]
             /\ Relaying(c)' => aborted'[c] /\ pc'[c] = "idle"
  <2>1. /\ pc \in [Holders -> Handshaking \cup Leased \cup {"idle", "select", "refuse"}]
        /\ relay \in [Holders -> {"none", "recv", "send", "reply", "ended"}]
        /\ polled \in [Holders -> BOOLEAN] /\ aborted \in [Holders -> BOOLEAN]
        /\ aborted[c] /\ lock # c
    BY <1>1 DEF ServerInv, ServerTypeOK, PlaceOf
  <2>2. ASSUME BuildPool \/ UNCHANGED vars
        PROVE  (polled'[c] => polled[c]) /\ aborted'[c] /\ pc'[c] = "idle"
    BY <1>1, <2>1, <2>2 DEF BuildPool, vars, handlerVars, relayVars
  <2>3. ASSUME NEW d \in Holders, NEW r \in Requests, Accept(d, r)
        PROVE  (polled'[c] => polled[c]) /\ aborted'[c] /\ pc'[c] = "idle"
    BY <1>1, <2>1, <2>3 DEF Accept, Goto
  <2>4. ASSUME NEW d \in Holders, ClientGone(d) \/ Reading(d) \/ Resolving(d)
        PROVE  (polled'[c] => polled[c]) /\ aborted'[c] /\ pc'[c] = "idle"
    BY <1>1, <2>1, <2>4
       DEF ClientGone, Reading, HandshakeFails, ReadGreeting, ReadCredentials, ReadCommand,
           ReadHttpRequest, Resolving, RejectRequest, StartSelection, ContinueSelection,
           Granted, Refused, ReplyRefusal, Goto, handlerVars, relayVars
  <2>5. ASSUME NEW d \in Holders, Serving(d)
        PROVE  (polled'[c] => polled[c]) /\ aborted'[c] /\ pc'[c] = "idle"
    BY <1>1, <2>1, <2>5
       DEF Serving, Connect, ReplyFailed, ReplyGranted, Exchange, Forward, HandlerEnds,
           BindRelay, OpenSession, ReplyRelay, Drain, AbortRelay, ReleaseAssociation, Goto,
           relayVars
  <2>6. ASSUME NEW d \in Holders, RelayTask(d)
        PROVE  (polled'[c] => polled[c]) /\ aborted'[c] /\ pc'[c] = "idle"
    BY <1>1, <2>1, <2>6
       DEF RelayTask, RelayPoll, RelayPends, RelayReceive, RelaySend, RelayReply,
           RelayCancelled, RelayEnds, handlerVars
  <2>7. (polled'[c] => polled[c]) /\ aborted'[c] /\ pc'[c] = "idle"
    BY <1>1, <2>2, <2>3, <2>4, <2>5, <2>6 DEF Next
  <2> QED
    BY <2>1, <2>7
<1>2. ServerInv /\ [Next]_vars =>
        [\A c \in Holders :
           Relaying(c) /\ pc[c] = "idle" =>
             /\ aborted[c]
             /\ polled'[c] => polled[c]
             /\ Relaying(c)' => aborted'[c] /\ pc'[c] = "idle"]_vars
  BY <1>1
<1> QED
  BY <1>2, ServerInvariant, PTL DEF Spec, RelaysRunOut

-----------------------------------------------------------------------------
(* What a connection has gone through.  Where its handler is says what was *)
(* read of the client and found right, what the client was told, and that  *)
(* the search and the lease are of the route that was read.                *)

PastMethod == {"credentials", "command", "resolve", "select"} \cup Leased
Admitted   == {"select"} \cup Leased
Silent     == Handshaking \cup {"select", "refuse", "connect", "replyFailed", "bindRelay",
                                "openSession", "replyGranted", "replyRelay"}

CheckedOf(c) ==
  /\ pc[c] \in {"greeting", "credentials", "command"} => request[c].endpoint = "socks5"
  /\ pc[c] = "readRequest" => request[c].endpoint # "socks5"
  /\ pc[c] \in PastMethod /\ request[c].endpoint = "socks5" => Method \in request[c].methods
  /\ pc[c] \in Admitted => Authenticated(c) /\ Username(c) # Invalid

ToldOf(c) ==
  /\ pc[c] \in Silent => reply[c] = "none"
  /\ pc[c] \in {"exchange", "forward"} => reply[c] \in {"none", "granted"}
  /\ pc[c] \in TunnelOpen => session[c] # NONE /\ session[c] = lease[c]

RoutedOf(c) ==
  /\ lock = c => Built /\ scan.route = Username(c)
  /\ lease[c] # NONE => Built /\ lease[c] \in Entitled(Username(c))

HistoryInv == \A c \in Holders : CheckedOf(c) /\ ToldOf(c) /\ RoutedOf(c)

(* What a step of another connection leaves alone.                         *)
LEMMA HistoryUntouched ==
  ASSUME NEW c \in Holders, CheckedOf(c), ToldOf(c), RoutedOf(c),
         pc'[c] = pc[c], request'[c] = request[c], reply'[c] = reply[c],
         session'[c] = session[c], lease'[c] = lease[c],
         UNCHANGED <<pool, next_row, membership>>,
         lock' = c => lock = c /\ scan'.route = scan.route
  PROVE  CheckedOf(c)' /\ ToldOf(c)' /\ RoutedOf(c)'
<1>1. CheckedOf(c)'
  BY DEF CheckedOf, Authenticated, Username
<1>2. ToldOf(c)'
  BY DEF ToldOf
<1>3. Built' = Built /\ Entitled(Username(c))' = Entitled(Username(c))
  BY DEF Built, Instances, Username, Entitled, ServingPool, InGroup
<1>4. RoutedOf(c)'
  BY <1>3 DEF RoutedOf, Username
<1> QED
  BY <1>1, <1>2, <1>4

(* Outside from_instances nothing that a route is entitled to changes, and *)
(* only the search of c itself is given a route by a step of c.            *)
LEMMA RoutesKept ==
  ASSUME ServerInv, LeaseInv, NEW c \in Holders,
         (\E r \in Requests : Accept(c, r)) \/ ClientGone(c) \/ Reading(c) \/ Resolving(c)
           \/ Serving(c) \/ RelayTask(c)
  PROVE  /\ UNCHANGED <<pool, next_row, membership>>
         /\ \A d \in Holders \ {c} :
              /\ pc'[d] = pc[d] /\ request'[d] = request[d] /\ reply'[d] = reply[d]
              /\ session'[d] = session[d] /\ lease'[d] = lease[d]
              /\ lock' = d => lock = d /\ scan'.route = scan.route
<1> USE DEF Goto, Told
<1>0. /\ pc \in [Holders -> Handshaking \cup Leased \cup {"idle", "select", "refuse"}]
      /\ request \in [Holders -> Requests \cup {NoRequest}]
      /\ reply \in [Holders -> {"none", "denied", "failed", "granted"}]
      /\ session \in [Holders -> Instances \cup {NONE}]
      /\ lease \in [Holders -> Instances \cup {NONE}]
      /\ NoHolder \notin Holders
  BY PoolAssumption DEF ServerInv, ServerTypeOK, LeaseInv, PoolTypeOK
<1>1. CASE (\E r \in Requests : Accept(c, r)) \/ ClientGone(c) \/ Reading(c)
  BY <1>0, <1>1 DEF Accept, ClientGone, Reading, HandshakeFails, ReadGreeting, ReadCredentials,
              ReadCommand, ReadHttpRequest, poolVars, buildVars, relayVars
<1>2. CASE Resolving(c)
  BY <1>0, <1>2, PoolAssumption
     DEF Resolving, RejectRequest, StartSelection, ContinueSelection, Granted, Refused,
         ReplyRefusal, BeginSelection, ReadInstance, SearchStandby, GrantLease,
         RefuseSelection, poolVars, buildVars, relayVars, handlerVars
<1>3. CASE Serving(c)
  BY <1>0, <1>3 DEF Serving, Connect, ReplyFailed, ReplyGranted, Exchange, Forward, HandlerEnds,
              BindRelay, OpenSession, ReplyRelay, Drain, AbortRelay, ReleaseAssociation,
              DropLease, poolVars, buildVars, relayVars
<1>4. CASE RelayTask(c)
  BY <1>0, <1>4 DEF RelayTask, RelayPoll, RelayPends, RelayReceive, RelaySend, RelayReply,
              RelayCancelled, RelayEnds, poolVars, buildVars, handlerVars
<1> QED
  BY <1>1, <1>2, <1>3, <1>4

LEMMA HistoryStep ==
  ASSUME ServerInv, HistoryInv, LeaseInv, LeaseInv', ScanInv, ScanInv', [Next]_vars,
         NEW d \in Holders
  PROVE  CheckedOf(d)' /\ ToldOf(d)' /\ RoutedOf(d)'
<1> USE DEF Goto, Told
<1>1. /\ pc \in [Holders -> Handshaking \cup Leased \cup {"idle", "select", "refuse"}]
      /\ request \in [Holders -> Requests \cup {NoRequest}]
      /\ reply \in [Holders -> {"none", "denied", "failed", "granted"}]
      /\ lease \in [Holders -> Instances \cup {NONE}] /\ NONE \notin Instances
      /\ session \in [Holders -> Instances \cup {NONE}]
      /\ NoHolder \notin Holders
      /\ lock # NoHolder => lease[lock] = NONE
      /\ \A c \in Holders : PlaceOf(c) /\ CheckedOf(c) /\ ToldOf(c) /\ RoutedOf(c)
  BY PoolShape, PoolAssumption
     DEF ServerInv, HistoryInv, ServerTypeOK, LeaseInv, PoolTypeOK, SelectingHoldsNone
<1>2. CASE BuildPool
  <2>1. ~Built /\ UNCHANGED <<handlerVars, session, lease, lock>>
    BY <1>2 DEF BuildPool, ClassifyRow, Classify, Built, relayVars
  <2> QED
    BY <1>1, <2>1 DEF CheckedOf, ToldOf, RoutedOf, handlerVars, Authenticated, Username
<1>3. CASE UNCHANGED vars
  BY <1>1, <1>3, HistoryUntouched DEF vars, poolVars, buildVars, handlerVars, relayVars
<1>4. ASSUME NEW c \in Holders, c # d,
             (\E r \in Requests : Accept(c, r)) \/ ClientGone(c) \/ Reading(c) \/ Resolving(c)
               \/ Serving(c) \/ RelayTask(c)
      PROVE  CheckedOf(d)' /\ ToldOf(d)' /\ RoutedOf(d)'
  BY <1>1, <1>4, RoutesKept, HistoryUntouched
<1>5. ASSUME NEW r \in Requests, Accept(d, r)
      PROVE  CheckedOf(d)' /\ ToldOf(d)' /\ RoutedOf(d)'
  <2>1. r.endpoint \in {"socks5", "http"}
    BY ServerAssumption DEF Request
  <2>2. lease'[d] = NONE /\ lock' # d
    BY <1>1, <1>5 DEF Accept, PlaceOf, Leased, poolVars
  <2> QED
    BY <1>1, <1>5, <2>1, <2>2
       DEF Accept, CheckedOf, ToldOf, RoutedOf, PastMethod, Admitted, Silent, Leased,
           Handshaking, TunnelOpen
<1>6. CASE ClientGone(d)
  BY <1>1, <1>6, HistoryUntouched DEF ClientGone, poolVars, buildVars, relayVars
<1>7. CASE Reading(d)
  <2>1. UNCHANGED <<request, lease, lock, scan, session, pool, next_row, membership>>
    BY <1>7 DEF Reading, HandshakeFails, ReadGreeting, ReadCredentials, ReadCommand,
                ReadHttpRequest, poolVars, buildVars, relayVars
  <2>2. lease[d] = NONE /\ lock # d /\ pc'[d] \notin Admitted \cup TunnelOpen \cup {"readRequest"}
    BY <1>1, <1>7 DEF Reading, HandshakeFails, ReadGreeting, ReadCredentials, ReadCommand,
                      ReadHttpRequest, PlaceOf, Leased, Admitted, TunnelOpen
  <2>3. CheckedOf(d)'
    BY <1>1, <1>7, <2>1, <2>2
       DEF Reading, HandshakeFails, ReadGreeting, ReadCredentials, ReadCommand,
           ReadHttpRequest, CheckedOf, PastMethod, Method, Leased, Admitted
  <2>4. ToldOf(d)'
    BY <1>1, <1>7, <2>1, <2>2
       DEF Reading, HandshakeFails, ReadGreeting, ReadCredentials, ReadCommand,
           ReadHttpRequest, ToldOf, Silent, Handshaking, TunnelOpen
  <2>5. RoutedOf(d)'
    BY <2>1, <2>2 DEF RoutedOf
  <2> QED
    BY <2>3, <2>4, <2>5
<1>8. CASE Resolving(d)
  <2>1. CASE RejectRequest(d)
    BY <1>1, <2>1
       DEF RejectRequest, CheckedOf, ToldOf, RoutedOf, PastMethod, Admitted, Silent, Leased,
           Handshaking, TunnelOpen, poolVars, relayVars, PlaceOf
  <2>2. CASE StartSelection(d)
    <3>1. /\ pc'[d] = "select" /\ UNCHANGED <<request, reply, session, lease>>
          /\ Built' /\ lease[d] = NONE /\ scan'.route = Username(d)
      BY <1>1, <2>2 DEF StartSelection, BeginSelection, Built, Instances, buildVars, relayVars
    <3> QED
      BY <1>1, <2>2, <3>1
         DEF StartSelection, CheckedOf, ToldOf, RoutedOf, PastMethod, Admitted, Silent, Leased,
             Handshaking, TunnelOpen, Authenticated, Username
  <2>3. CASE ContinueSelection(d)
    <3>1. scan \in [route : Routes \cup {NoScan.route}, tier : SUBSET Usable,
                     next : 1..(Len(pool.rows) + 1), best : Instances \cup {NONE},
                     load : Nat, start : [Instances -> Nat] \cup {<<>>}]
      BY DEF LeaseInv, PoolTypeOK
    <3>2. lock = d /\ UNCHANGED <<lock, lease, pool, next_row, membership>>
      BY <2>3 DEF ContinueSelection, ReadInstance, SearchStandby, buildVars
    <3>3. scan'.route = scan.route
      BY <2>3, <3>1 DEF ContinueSelection, ReadInstance, SearchStandby
    <3> QED
      BY <1>1, <2>3, <3>2, <3>3, HistoryUntouched DEF ContinueSelection, handlerVars, relayVars
  <2>4. CASE Granted(d)
    <3>1. /\ lock = d /\ lock' = NoHolder /\ pc'[d] \in {"connect", "bindRelay"}
          /\ UNCHANGED <<request, reply, session, pool, next_row, membership>>
          /\ pc[d] = "select"
      BY <1>1, <2>4 DEF Granted, GrantLease, buildVars, relayVars, PlaceOf
    <3>2. [PoolNext]_poolVars /\ SelectionEnds
      BY <1>1, <2>4, <3>1 DEF Granted, PoolNext, SelectionEnds
    <3>3. scan.route = Username(d) /\ Built
      BY <1>1, <3>1 DEF RoutedOf
    <3>4. lease'[d] # NONE
      BY <1>1, <2>4, <3>1 DEF Granted, GrantLease
    <3>5. lease'[d] \in Entitled(Username(d))
      BY <3>1, <3>2, <3>3, <3>4, SelectionHonoured
    <3>6. Built' /\ Entitled(Username(d))' = Entitled(Username(d))
      BY <3>1, <3>3 DEF Built, Instances, Username, Entitled, ServingPool, InGroup
    <3>7. RoutedOf(d)'
      BY <1>1, <3>1, <3>5, <3>6 DEF RoutedOf, Username
    <3> QED
      BY <1>1, <3>1, <3>7
         DEF CheckedOf, ToldOf, PastMethod, Admitted, Silent, Leased, Handshaking, TunnelOpen,
             Authenticated, Username
  <2>5. CASE Refused(d)
    <3>1. pc'[d] = "refuse" /\ lock' = NoHolder /\ lease'[d] = NONE /\ pc[d] = "select"
          /\ UNCHANGED <<request, reply, session>>
      BY <1>1, <2>5 DEF Refused, RefuseSelection, relayVars, PlaceOf
    <3> QED
      BY <1>1, <3>1
         DEF CheckedOf, ToldOf, RoutedOf, PastMethod, Admitted, Silent, Leased, Handshaking,
             TunnelOpen
  <2>6. CASE ReplyRefusal(d)
    BY <1>1, <2>6
       DEF ReplyRefusal, CheckedOf, ToldOf, RoutedOf, PastMethod, Admitted, Silent, Leased,
           Handshaking, TunnelOpen, poolVars, relayVars, PlaceOf
  <2> QED
    BY <1>8, <2>1, <2>2, <2>3, <2>4, <2>5, <2>6 DEF Resolving
<1>9. CASE Serving(d)
  <2> USE DEF Serving, Connect, ReplyFailed, ReplyGranted, Exchange, Forward, HandlerEnds,
              BindRelay, OpenSession, ReplyRelay, Drain, AbortRelay, ReleaseAssociation,
              DropLease, poolVars, relayVars
  <2>1. /\ pc[d] \in Leased /\ lock # d
        /\ UNCHANGED <<request, lock, pool, next_row, membership>>
        /\ pc'[d] \in Leased \cup {"idle"}
        /\ lease'[d] = lease[d] \/ lease'[d] = NONE
    BY <1>1, <1>9 DEF Leased, PlaceOf, buildVars
  <2>2. CheckedOf(d)'
    BY <1>1, <2>1 DEF CheckedOf, PastMethod, Admitted, Leased, Authenticated, Username
  <2>3. ToldOf(d)'
    BY <1>1, <1>9
       DEF ToldOf, PlaceOf, Leased, Silent, Handshaking, TunnelOpen
  <2>4. Built' = Built /\ Entitled(Username(d))' = Entitled(Username(d))
    BY <2>1 DEF Built, Instances, Username, Entitled, ServingPool, InGroup
  <2>5. RoutedOf(d)'
    BY <1>1, <2>1, <2>4 DEF RoutedOf
  <2> QED
    BY <2>2, <2>3, <2>5
<1>10. CASE RelayTask(d)
  <2> USE DEF RelayTask, RelayPoll, RelayPends, RelayReceive, RelaySend, RelayReply,
              RelayCancelled, RelayEnds, poolVars, handlerVars
  <2>1. UNCHANGED <<pc, request, reply, lease, lock, scan, pool, next_row, membership>>
    BY <1>10 DEF buildVars
  <2>2. session'[d] = session[d] \/ pc[d] \notin TunnelOpen
    <3>1. CASE Relaying(d)
      BY <1>1, <3>1 DEF PlaceOf, MayRelay, TunnelOpen
    <3>2. CASE UNCHANGED session
      BY <3>2
    <3> QED
      BY <1>10, <3>1, <3>2 DEF Relaying
  <2>3. Built' = Built /\ Username(d)' = Username(d)
        /\ Entitled(Username(d))' = Entitled(Username(d))
    BY <2>1 DEF Built, Instances, Username, Entitled, ServingPool, InGroup
  <2>4. CheckedOf(d)'
    BY <1>1, <2>1, <2>3 DEF CheckedOf, Authenticated
  <2>5. RoutedOf(d)'
    BY <1>1, <2>1, <2>3 DEF RoutedOf
  <2>6. ToldOf(d)'
    BY <1>1, <2>1, <2>2 DEF ToldOf
  <2> QED
    BY <2>4, <2>5, <2>6
<1> QED
  BY <1>2, <1>3, <1>4, <1>5, <1>6, <1>7, <1>8, <1>9, <1>10 DEF Next

LEMMA HistoryInit == Init => HistoryInv
<1> SUFFICES ASSUME Init, NEW c \in Holders PROVE CheckedOf(c) /\ ToldOf(c) /\ RoutedOf(c)
  BY DEF HistoryInv
<1> QED
  BY PoolAssumption
     DEF Init, PoolInit, CheckedOf, ToldOf, RoutedOf, PastMethod, Admitted, Silent, Leased,
         Handshaking, TunnelOpen

LEMMA HistoryInvariant == Spec => [](ServerInv /\ LeaseInv /\ HistoryInv)
<1>1. ServerInv /\ HistoryInv /\ LeaseInv /\ LeaseInv' /\ ScanInv /\ ScanInv' /\ [Next]_vars
        => HistoryInv'
  BY HistoryStep DEF HistoryInv
<1> QED
  BY <1>1, HistoryInit, ServerInvariant, ServerUsesPool, ScanInvariant, PTL DEF Spec

(* handle_socks5 and handle_http give nobody a lease whose password was    *)
(* not read and right when a shared secret is configured.                  *)
THEOREM LeasesNeedTheSecret == Spec => []NoLeaseWithoutSecret
<1>1. ServerInv /\ HistoryInv => NoLeaseWithoutSecret
  BY DEF ServerInv, HistoryInv, PlaceOf, CheckedOf, PastMethod, Admitted, Authenticated,
         Method, NoLeaseWithoutSecret
<1> QED
  BY <1>1, HistoryInvariant, PTL

-----------------------------------------------------------------------------
(* Denials.  Where a handler is says which checks its request passed, and  *)
(* what it was denied for stays so: membership and requests do not change  *)
(* while a connection is served.                                           *)

AnsweredOf(c) ==
  /\ pc[c] # "idle" \/ reply[c] # "none" => Built
  /\ pc[c] \in {"resolve"} \cup Admitted /\ request[c].endpoint = "socks5" =>
       request[c].command \in {"connect", "udp"}
  /\ pc[c] = "refuse" \/ reply[c] = "denied" => ~Admissible(c)

AnswerInv == \A c \in Holders : AnsweredOf(c)

(* What a step of another connection leaves alone.                         *)
LEMMA AnswerUntouched ==
  ASSUME NEW c \in Holders, AnsweredOf(c),
         pc'[c] = "idle" \/ pc'[c] = pc[c], request'[c] = request[c], reply'[c] = reply[c],
         UNCHANGED <<pool, next_row, membership>>
  PROVE  AnsweredOf(c)'
<1>1. Built' = Built /\ Username(c)' = Username(c)
      /\ Entitled(Username(c))' = Entitled(Username(c))
  BY DEF Built, Instances, Username, Entitled, ServingPool, InGroup
<1>2. Admissible(c)' <=> Admissible(c)
  BY <1>1 DEF Admissible
<1>3. {"resolve"} \cup Admitted = {"resolve", "select"} \cup Leased /\ "idle" \notin Leased
  BY DEF Admitted, Leased
<1> QED
  BY <1>1, <1>2, <1>3 DEF AnsweredOf

LEMMA AnswerStep ==
  ASSUME ServerInv, HistoryInv, AnswerInv, LeaseInv, LeaseInv', ScanInv, ScanInv', [Next]_vars,
         NEW d \in Holders
  PROVE  AnsweredOf(d)'
<1> USE DEF Goto, Told
<1>1. /\ pc \in [Holders -> Handshaking \cup Leased \cup {"idle", "select", "refuse"}]
      /\ request \in [Holders -> Requests \cup {NoRequest}]
      /\ reply \in [Holders -> {"none", "denied", "failed", "granted"}]
      /\ NoHolder \notin Holders
      /\ lock # NoHolder => lease[lock] = NONE
      /\ \A c \in Holders : PlaceOf(c) /\ CheckedOf(c) /\ ToldOf(c) /\ RoutedOf(c) /\ AnsweredOf(c)
  BY PoolAssumption
     DEF ServerInv, HistoryInv, AnswerInv, ServerTypeOK, LeaseInv, SelectingHoldsNone
<1>2. CASE BuildPool
  <2>1. ~Built /\ UNCHANGED handlerVars
    BY <1>2 DEF BuildPool, ClassifyRow, Classify, Built
  <2>2. pc[d] = "idle" /\ reply[d] = "none"
    BY <1>1, <2>1 DEF AnsweredOf
  <2> QED
    BY <2>1, <2>2 DEF AnsweredOf, handlerVars, Admitted, Leased
<1>3. CASE UNCHANGED vars
  BY <1>1, <1>3, AnswerUntouched DEF vars, poolVars, buildVars, handlerVars
<1>4. ASSUME NEW c \in Holders, c # d,
             (\E r \in Requests : Accept(c, r)) \/ ClientGone(c) \/ Reading(c) \/ Resolving(c)
               \/ Serving(c) \/ RelayTask(c)
      PROVE  AnsweredOf(d)'
  BY <1>1, <1>4, RoutesKept, AnswerUntouched
<1>5. ASSUME NEW c \in Holders, c = d,
             (\E r \in Requests : Accept(c, r)) \/ ClientGone(c) \/ Reading(c) \/ Resolving(c)
               \/ Serving(c) \/ RelayTask(c)
      PROVE  UNCHANGED <<pool, next_row, membership>>
  BY <1>5, RoutesKept
<1>6. ASSUME NEW r \in Requests, Accept(d, r) PROVE AnsweredOf(d)'
  <2>1. Built'
    BY <1>6, <1>5 DEF Accept, Built, Instances
  <2>2. pc'[d] \in {"greeting", "readRequest"} /\ reply'[d] = "none"
    BY <1>1, <1>6 DEF Accept
  <2> QED
    BY <2>1, <2>2 DEF AnsweredOf, Admitted, Leased
<1>7. ASSUME (\E r \in Requests : Accept(d, r)) \/ ClientGone(d) \/ Reading(d) \/ Resolving(d)
               \/ Serving(d) \/ RelayTask(d),
             pc[d] # "idle" \/ reply[d] # "none", UNCHANGED request
      PROVE  /\ Built' /\ Username(d)' = Username(d)
             /\ Entitled(Username(d))' = Entitled(Username(d))
             /\ Admissible(d)' <=> Admissible(d)
  <2>1. Built /\ UNCHANGED <<pool, next_row, membership>>
    BY <1>1, <1>5, <1>7 DEF AnsweredOf
  <2>2. Built' /\ Username(d)' = Username(d) /\ Entitled(Username(d))' = Entitled(Username(d))
    BY <1>7, <2>1 DEF Built, Instances, Username, Entitled, ServingPool, InGroup
  <2> QED
    BY <1>7, <2>2 DEF Admissible
<1>8. CASE ClientGone(d) \/ RelayTask(d)
  BY <1>1, <1>5, <1>8, AnswerUntouched
     DEF ClientGone, RelayTask, RelayPoll, RelayPends, RelayReceive, RelaySend, RelayReply,
         RelayCancelled, handlerVars
<1>9. CASE Reading(d)
  <2>1. /\ pc[d] # "idle" /\ UNCHANGED request
        /\ pc'[d] \notin {"refuse"} \cup Admitted
        /\ reply'[d] \in {reply[d], "denied"}
    BY <1>1, <1>9
       DEF Reading, HandshakeFails, ReadGreeting, ReadCredentials, ReadCommand, ReadHttpRequest,
           Admitted, Leased
  <2>2. Built' /\ (Admissible(d)' <=> Admissible(d))
    BY <1>7, <1>9, <2>1
  <2>3. reply'[d] = "denied" /\ reply[d] # "denied" => ~Admissible(d)
    BY <1>1, <1>9
       DEF Reading, HandshakeFails, ReadGreeting, ReadCredentials, ReadCommand, ReadHttpRequest,
           CheckedOf, Admissible
  <2>4. pc'[d] = "resolve" /\ request[d].endpoint = "socks5" =>
          request[d].command \in {"connect", "udp"}
    BY <1>1, <1>9
       DEF Reading, HandshakeFails, ReadGreeting, ReadCredentials, ReadCommand, ReadHttpRequest,
           CheckedOf
  <2> QED
    BY <1>1, <2>1, <2>2, <2>3, <2>4 DEF AnsweredOf
<1>10. CASE Resolving(d)
  <2>1. UNCHANGED request /\ pc[d] # "idle"
    BY <1>1, <1>10
       DEF Resolving, RejectRequest, StartSelection, ContinueSelection, Granted, Refused,
           ReplyRefusal, PlaceOf, handlerVars
  <2>2. /\ Built' /\ Username(d)' = Username(d)
        /\ Admissible(d)' <=> Admissible(d)
    BY <1>7, <1>10, <2>1
  <2>3. CASE RejectRequest(d)
    <3>1. ~Admissible(d) /\ pc'[d] = "refuse"
      BY <1>1, <2>3 DEF RejectRequest, Admissible, Authenticated
    <3> QED
      BY <2>2, <3>1 DEF AnsweredOf, Admitted, Leased
  <2>4. CASE Refused(d)
    <3>1. lock = d /\ lock' = NoHolder /\ lease'[d] = NONE /\ scan.route = Username(d)
      BY <1>1, <2>4 DEF Refused, RefuseSelection, RoutedOf
    <3>2. [PoolNext]_poolVars /\ SelectionEnds
      BY <1>1, <2>4, <3>1 DEF Refused, PoolNext, SelectionEnds
    <3>3. Entitled(Username(d)) = {}
      BY <3>1, <3>2, SelectionHonoured
    <3>4. ~Admissible(d) /\ pc'[d] = "refuse"
      BY <1>1, <2>4, <3>3 DEF Refused, Admissible
    <3> QED
      BY <2>2, <3>4 DEF AnsweredOf, Admitted, Leased
  <2>5. CASE ReplyRefusal(d)
    <3>1. ~Admissible(d) /\ pc'[d] = "idle"
      BY <1>1, <2>5 DEF ReplyRefusal, AnsweredOf
    <3> QED
      BY <2>2, <3>1 DEF AnsweredOf, Admitted, Leased
  <2>6. CASE StartSelection(d) \/ ContinueSelection(d) \/ Granted(d)
    <3>1. /\ pc[d] \in {"resolve", "select"} /\ pc'[d] \in {"select", "connect", "bindRelay"}
          /\ UNCHANGED reply
      BY <1>1, <2>6 DEF StartSelection, ContinueSelection, Granted, PlaceOf, handlerVars
    <3> QED
      BY <1>1, <2>1, <2>2, <3>1 DEF AnsweredOf, Admitted, Leased
  <2> QED
    BY <1>10, <2>3, <2>4, <2>5, <2>6 DEF Resolving
<1>11. CASE Serving(d)
  <2>1. /\ pc[d] \in Leased /\ pc'[d] \in Leased \cup {"idle"} /\ UNCHANGED request
        /\ reply'[d] \in {reply[d], "granted", "failed"}
    BY <1>1, <1>11
       DEF Leased, Serving, Connect, ReplyFailed, ReplyGranted, Exchange, Forward, HandlerEnds,
           BindRelay, OpenSession, ReplyRelay, Drain, AbortRelay, ReleaseAssociation
  <2>2. Built' /\ (Admissible(d)' <=> Admissible(d))
    BY <1>7, <1>11, <2>1 DEF Leased
  <2> QED
    BY <1>1, <2>1, <2>2 DEF AnsweredOf, Admitted, Leased
<1> QED
  BY <1>2, <1>3, <1>4, <1>6, <1>8, <1>9, <1>10, <1>11 DEF Next

(* handle_socks5, handle_http and resolve_proxy_request admit whom they    *)
(* should and refuse nobody else: a client is denied only for its method,  *)
(* its command, its password or its username, or because the pool has no   *)
(* instance for its route, for any number of clients that come and go.     *)
THEOREM AdmissionsAreRight == Spec => []AdmissionIsRight
<1>1. Init => AnswerInv
  BY DEF Init, AnswerInv, AnsweredOf, Admitted, Leased
<1>2. ServerInv /\ HistoryInv /\ AnswerInv /\ LeaseInv /\ LeaseInv' /\ ScanInv /\ ScanInv'
        /\ [Next]_vars => AnswerInv'
  BY AnswerStep DEF AnswerInv
<1>3. ServerInv /\ HistoryInv /\ AnswerInv /\ NoLeaseWithoutSecret => AdmissionIsRight
  <2> SUFFICES ASSUME ServerInv, HistoryInv, AnswerInv, NEW c \in Holders, lease[c] # NONE
               PROVE  Admissible(c)
    BY DEF AdmissionIsRight, AnswerInv, AnsweredOf
  <2>1. pc[c] \in Leased /\ CheckedOf(c) /\ RoutedOf(c) /\ AnsweredOf(c)
    BY DEF ServerInv, PlaceOf, HistoryInv, AnswerInv
  <2> QED
    BY <2>1 DEF CheckedOf, RoutedOf, AnsweredOf, PastMethod, Admitted, Authenticated, Admissible
<1> QED
  BY <1>1, <1>2, <1>3, HistoryInvariant, LeasesNeedTheSecret, ServerUsesPool, LeaseInvariant,
     ScanInvariant, PTL DEF Spec

(* With a shared secret configured resolve_proxy_request sees the username *)
(* of every client, and its connection is served by an instance the route  *)
(* in it is entitled to.  (Without one, handle_socks5 reads no username.)  *)
THEOREM RoutesAreHonoured ==
  ASSUME AuthRequired
  PROVE  Spec => []UsernameHonoured
<1>1. ServerInv /\ HistoryInv => UsernameHonoured
  BY DEF ServerInv, HistoryInv, PlaceOf, CheckedOf, RoutedOf, Admitted, Username,
         UsernameHonoured
<1> QED
  BY <1>1, HistoryInvariant, PTL

(* What UsernameHonoured is violated by without a secret, and nothing      *)
(* else: handle_socks5 asks for no username then and goes on with an empty *)
(* one, which the Serving Pool serves.  handle_http honours it always.     *)
THEOREM OnlyOpenSocksLosesSelectors == Spec => []OnlyOpenSocksIgnores
<1>1. ASSUME ServerInv, HistoryInv, NEW c \in Holders, lease[c] # NONE
      PROVE  IF request[c].endpoint = "socks5" /\ ~AuthRequired
             THEN lease[c] \in ServingPool
             ELSE /\ request[c].username # Invalid
                  /\ lease[c] \in Entitled(request[c].username)
  <2>1. Username(c) # Invalid /\ lease[c] \in Entitled(Username(c))
    BY <1>1 DEF ServerInv, HistoryInv, PlaceOf, CheckedOf, RoutedOf, Admitted
  <2>2. CASE request[c].endpoint = "socks5" /\ ~AuthRequired
    <3>1. Username(c).kind = "auto"
      BY <2>2 DEF Username
    <3> QED
      BY <2>1, <2>2, <3>1 DEF Entitled
  <2>3. CASE ~(request[c].endpoint = "socks5" /\ ~AuthRequired)
    BY <2>1, <2>3 DEF Username
  <2> QED
    BY <2>2, <2>3
<1>2. ServerInv /\ HistoryInv => OnlyOpenSocksIgnores
  BY <1>1 DEF OnlyOpenSocksIgnores
<1> QED
  BY <1>2, HistoryInvariant, PTL

(* A success reply is written once, by a handler whose stream or session   *)
(* on the leased instance is open, and never after a refusal.              *)
THEOREM RepliesAreTrue == Spec => GrantedMeansOpen
<1>1. ASSUME ServerInv, HistoryInv, [Next]_vars, NEW c \in Holders,
             reply'[c] = "granted", reply[c] # "granted"
      PROVE  reply[c] = "none" /\ session[c] # NONE /\ session[c] = lease[c]
  <2>1. reply \in [Holders -> {"none", "denied", "failed", "granted"}]
    BY <1>1 DEF ServerInv, ServerTypeOK
  <2>2. pc[c] \in TunnelOpen
    BY <1>1, <2>1
       DEF Next, vars, handlerVars, BuildPool, Accept, ClientGone, Reading, HandshakeFails,
           ReadGreeting, ReadCredentials, ReadCommand, ReadHttpRequest, Resolving,
           RejectRequest, StartSelection, ContinueSelection, Granted, Refused, ReplyRefusal,
           Serving, Connect, ReplyFailed, ReplyGranted, Exchange, Forward, BindRelay,
           OpenSession, ReplyRelay, Drain, AbortRelay, ReleaseAssociation, RelayTask,
           RelayPoll, RelayPends, RelayReceive, RelaySend, RelayReply, RelayCancelled,
           Told, TunnelOpen
  <2>3. ToldOf(c)
    BY <1>1 DEF HistoryInv
  <2> QED
    BY <1>1, <2>2, <2>3 DEF ToldOf, TunnelOpen, Silent
<1>2. ServerInv /\ HistoryInv /\ [Next]_vars =>
        [\A c \in Holders :
           reply'[c] = "granted" /\ reply[c] # "granted" =>
             reply[c] = "none" /\ session[c] # NONE /\ session[c] = lease[c]]_vars
  BY <1>1
<1> QED
  BY <1>2, HistoryInvariant, PTL DEF Spec, GrantedMeansOpen

-----------------------------------------------------------------------------
(* The server implements the ledger.                                       *)

(* Counted leases are what the ledger calls the load.                      *)
LEMMA LoadIsCount ==
  ASSUME LeaseInv, LeaseInv', Instances' = Instances
  PROVE  active' = Ledger!Count(lease')
<1>1. active \in [Instances -> Nat] /\ active' \in [Instances -> Nat]
  BY DEF LeaseInv, PoolTypeOK
<1>2. \A i \in Instances : active'[i] = Cardinality({c \in Holders : lease'[c] = i})
  BY DEF LeaseInv, LeasesCounted, HoldersOf
<1>3. Ledger!Count(lease') = [i \in Instances |-> Cardinality({c \in Holders : lease'[c] = i})]
  <2>1. DOMAIN active = Instances
    BY <1>1
  <2> QED
    BY <2>1 DEF Ledger!Count, Ledger!Cardinality, Cardinality
<1>4. active' = [i \in Instances |-> active'[i]]
  BY <1>1
<1> QED
  BY <1>2, <1>3, <1>4

LEMMA LedgerStep ==
  ASSUME ServerInv, LeaseInv, LeaseInv', [Next]_vars
  PROVE  [Ledger!Next]_(Ledger!vars)
<1> USE DEF Goto, Ledger!vars
<1>1. /\ lease \in [Holders -> Instances \cup {NONE}] /\ NONE \notin Instances
      /\ session \in [Holders -> Instances \cup {NONE}]
      /\ active \in [Instances -> Nat] /\ DOMAIN active = Instances
      /\ \A c \in Holders : PlaceOf(c)
  BY PoolShape DEF ServerInv, ServerTypeOK, LeaseInv, PoolTypeOK
<1>2. CASE BuildPool \/ UNCHANGED vars
  BY <1>2 DEF BuildPool, ClassifyRow, Classify, vars, poolVars, relayVars
<1>3. ASSUME NEW c \in Holders,
             (\E r \in Requests : Accept(c, r)) \/ ClientGone(c) \/ Reading(c)
      PROVE  UNCHANGED Ledger!vars
  BY <1>3 DEF Accept, ClientGone, Reading, HandshakeFails, ReadGreeting, ReadCredentials,
              ReadCommand, ReadHttpRequest, poolVars, relayVars
<1>4. ASSUME NEW c \in Holders, Resolving(c) PROVE [Ledger!Next]_(Ledger!vars)
  <2>1. CASE Granted(c)
    <3>1. scan.best \in Instances /\ lease' = [lease EXCEPT ![c] = scan.best]
      BY <2>1, ScanType DEF Granted, GrantLease, LeaseInv
    <3>2. lease[c] = NONE /\ session[c] = NONE
      BY <1>1, <2>1 DEF Granted, PlaceOf, Leased, TunnelOpen, MayRelay
    <3>3. active' = Ledger!Count(lease') /\ UNCHANGED session
      BY <2>1, LoadIsCount DEF Granted, GrantLease, buildVars, Instances, relayVars
    <3>4. Ledger!Assign(c)
      BY <1>1, <3>1, <3>2, <3>3 DEF Ledger!Assign
    <3> QED
      BY <3>4 DEF Ledger!Next
  <2>2. CASE UNCHANGED Ledger!vars
    BY <2>2
  <2> QED
    BY <1>4, <2>1, <2>2
       DEF Resolving, RejectRequest, StartSelection, ContinueSelection, Refused, ReplyRefusal,
           BeginSelection, ReadInstance, SearchStandby, RefuseSelection, poolVars, relayVars
<1>5. ASSUME NEW c \in Holders, DropLease(c),
             session' \in {session, [session EXCEPT ![c] = NONE]}
      PROVE  Ledger!Next
  <2>1. active' = Ledger!Count(lease')
    BY <1>5, LoadIsCount DEF DropLease, buildVars, Instances
  <2>2. Ledger!Release(c)
    BY <1>5, <2>1 DEF DropLease, Ledger!Release
  <2> QED
    BY <2>2 DEF Ledger!Next
<1>6. ASSUME NEW c \in Holders, Serving(c) PROVE [Ledger!Next]_(Ledger!vars)
  <2>1. CASE Connect(c) \/ OpenSession(c)
    <3>1. session[c] = NONE /\ lease[c] # NONE /\ UNCHANGED <<lease, active>>
      BY <1>1, <2>1 DEF Connect, OpenSession, PlaceOf, Leased, TunnelOpen, MayRelay, poolVars
    <3>2. CASE session' = [session EXCEPT ![c] = lease[c]]
      BY <3>1, <3>2 DEF Ledger!Next, Ledger!Open
    <3> QED
      BY <2>1, <3>1, <3>2 DEF Connect, OpenSession
  <2>2. CASE HandlerEnds(c)
    BY <1>5, <2>2 DEF HandlerEnds
  <2>3. CASE ReplyFailed(c) \/ ReleaseAssociation(c)
    BY <1>5, <2>3 DEF ReplyFailed, ReleaseAssociation, relayVars
  <2>4. CASE UNCHANGED Ledger!vars
    BY <2>4
  <2> QED
    BY <1>6, <2>1, <2>2, <2>3, <2>4
       DEF Serving, ReplyGranted, Exchange, Forward, BindRelay, ReplyRelay, Drain, AbortRelay,
           poolVars, relayVars
<1>7. ASSUME NEW c \in Holders, RelayTask(c) PROVE [Ledger!Next]_(Ledger!vars)
  <2>1. CASE RelayEnds(c)
    BY <1>7, <2>1 DEF RelayEnds, RelayTask, RelayPoll, RelayPends, RelayReceive, RelaySend,
       RelayReply, RelayCancelled, poolVars, Ledger!Next, Ledger!Close
  <2>2. CASE UNCHANGED session
    BY <1>7, <2>2 DEF RelayTask, RelayPoll, RelayPends, RelayReceive, RelaySend,
       RelayReply, RelayCancelled, poolVars
  <2> QED
    BY <1>7, <2>1, <2>2 DEF RelayTask, RelayPoll, RelayPends, RelayReceive, RelaySend,
       RelayReply, RelayCancelled
<1> QED
  BY <1>2, <1>3, <1>4, <1>6, <1>7 DEF Next

(* The two endpoints, their handlers and relays implement the ledger:      *)
(* a connection is carried by the instance it was assigned, for as long    *)
(* as it lives, and the load of an instance is its number of connections.  *)
THEOREM ServerImplementsLedger == Spec => ImplementsLedger
<1>1. Init => Ledger!Init
  BY DEF Init, PoolInit, Ledger!Init
<1>2. ServerInv /\ LeaseInv /\ LeaseInv' /\ [Next]_vars => [Ledger!Next]_(Ledger!vars)
  BY LedgerStep
<1> QED
  BY <1>1, <1>2, ServerInvariant, PTL DEF Spec, ImplementsLedger, Ledger!Spec

(* No step moves a connection from one instance to another: it is let     *)
(* go first, and what carries its traffic is closed first.                 *)
ConnectionsStayBound ==
  [][\A c \in Holders :
       /\ lease[c] # NONE => lease'[c] \in {lease[c], NONE}
       /\ session[c] # NONE => session'[c] \in {session[c], NONE}
       /\ session[c] = NONE => session'[c] \in {lease[c], NONE}]_vars

(* Connection Binding, read off the ledger: neither a handler nor a relay  *)
(* of src/proxy.rs ever changes the instance of a connection it serves.    *)
THEOREM ConnectionsAreBound == Spec => ConnectionsStayBound
<1>1. ASSUME ServerInv, LeaseInv, [Ledger!Next]_(Ledger!vars), [Next]_vars, NEW c \in Holders
      PROVE  /\ lease[c] # NONE => lease'[c] \in {lease[c], NONE}
             /\ session[c] # NONE => session'[c] \in {session[c], NONE}
             /\ session[c] = NONE => session'[c] \in {lease[c], NONE}
  <2>1. lease \in [Holders -> Instances \cup {NONE}] /\ session \in [Holders -> Instances \cup {NONE}]
    BY <1>1 DEF ServerInv, ServerTypeOK, LeaseInv, PoolTypeOK
  <2> QED
    BY <1>1, <2>1
       DEF Ledger!Next, Ledger!vars, Ledger!Assign, Ledger!Open, Ledger!Close, Ledger!Release
<1>2. ServerInv /\ LeaseInv /\ LeaseInv' /\ [Next]_vars =>
        [\A c \in Holders :
           /\ lease[c] # NONE => lease'[c] \in {lease[c], NONE}
           /\ session[c] # NONE => session'[c] \in {session[c], NONE}
           /\ session[c] = NONE => session'[c] \in {lease[c], NONE}]_vars
  BY <1>1, LedgerStep
<1> QED
  BY <1>2, ServerInvariant, PTL DEF Spec, ConnectionsStayBound

=============================================================================
