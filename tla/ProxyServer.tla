---------------------------- MODULE ProxyServer ----------------------------
(***************************************************************************)
(* The proxy endpoints of src/proxy.rs with the authentication and routing *)
(* of src/proxy_auth.rs: one handler per client connection, the relay task *)
(* of a SOCKS5 UDP association, and the selections and drops they do on    *)
(* the one ProxyPool they share.                                           *)
(*                                                                         *)
(* A holder of ProxyPool is a connection here.  A connection's slot is     *)
(* used again once its handler has returned and its relay has stopped.     *)
(* The data plane (connect_tcp, open_udp_session, send_datagram) succeeds  *)
(* or fails at will; a write to the client fails only once the client is   *)
(* gone, and may still succeed then.                                       *)
(***************************************************************************)
EXTENDS ProxyPool

CONSTANTS
  Requests,      \* what clients ask for
  AuthRequired   \* a shared secret is configured: requires_password()

Invalid == [kind |-> "invalid"]   \* a username that is no route

(* `methods' are the SOCKS5 methods the client offers, `username' the      *)
(* route it writes in the username, `command' what it wants.  A command    *)
(* is "connect", "udp" (SOCKS5 only), "plain" (an HTTP request that is not *)
(* CONNECT) or "other", which SOCKS5 refuses.                              *)
Request == [endpoint : {"socks5", "http"},
            methods  : SUBSET {"none", "password"},
            username : Routes \cup {Invalid},
            password : {"right", "wrong"},
            command  : {"connect", "udp", "plain", "other"}]

NoRequest == [endpoint |-> "none", methods |-> {}, username |-> Invalid,
              password |-> "wrong", command |-> "other"]

ASSUME ServerAssumption ==
  /\ AuthRequired \in BOOLEAN
  /\ Requests \subseteq Request
  /\ [kind |-> "auto"] \in Routes

VARIABLES
  pc,       \* where each handler is
  request,  \* what its client asks for
  closed,   \* the client is gone
  reply,    \* what the client was told last
  session,  \* the instance of the open stream or UDP session, or NONE
  relay,    \* where the relay task of an association is
  polled,   \* the executor is running the relay task now
  aborted   \* abort() was called on the relay task

handlerVars == <<pc, request, closed, reply>>
relayVars   == <<session, relay, polled, aborted>>
vars        == <<poolVars, handlerVars, relayVars>>

Goto(c, step) == pc' = [pc EXCEPT ![c] = step]

(* The relay task exists and has not ended.                                *)
Relaying(c) == relay[c] \in {"recv", "send", "reply"}

(* A write to the client of c: it can fail only when the client is gone.   *)
WriteOutcomes(c) == IF closed[c] THEN BOOLEAN ELSE {TRUE}

Told(c, ok, what) == reply' = IF ok THEN [reply EXCEPT ![c] = what] ELSE reply

-----------------------------------------------------------------------------
(* Accepting and reading a request.  Nothing is held yet.                  *)

Accept(c, r) ==
  /\ Built
  /\ pc[c] = "idle" /\ ~Relaying(c)
  /\ Goto(c, IF r.endpoint = "socks5" THEN "greeting" ELSE "readRequest")
  /\ request' = [request EXCEPT ![c] = r]
  /\ closed' = [closed EXCEPT ![c] = FALSE]
  /\ reply' = [reply EXCEPT ![c] = "none"]
  /\ relay' = [relay EXCEPT ![c] = "none"]
  /\ aborted' = [aborted EXCEPT ![c] = FALSE]
  /\ UNCHANGED <<poolVars, session, polled>>

(* The client goes away, at any moment.                                    *)
ClientGone(c) ==
  /\ pc[c] # "idle" /\ ~closed[c]
  /\ closed' = [closed EXCEPT ![c] = TRUE]
  /\ UNCHANGED <<poolVars, pc, request, reply, relayVars>>

(* A read of the handshake ends early or is malformed: the handler returns *)
(* the error and the listener ignores it.                                  *)
HandshakeFails(c) ==
  /\ pc[c] \in {"greeting", "credentials", "command", "readRequest"}
  /\ Goto(c, "idle")
  /\ UNCHANGED <<poolVars, request, closed, reply, relayVars>>

Method == IF AuthRequired THEN "password" ELSE "none"

ReadGreeting(c) ==
  /\ pc[c] = "greeting"
  /\ IF Method \in request[c].methods
     THEN /\ Goto(c, IF AuthRequired THEN "credentials" ELSE "command")
          /\ UNCHANGED reply
     ELSE /\ Goto(c, "idle")
          /\ \E ok \in WriteOutcomes(c) : Told(c, ok, "denied")
  /\ UNCHANGED <<poolVars, request, closed, relayVars>>

(* The reply 01 00 says only that they were read: the password is looked   *)
(* at when the request is resolved, and `reply' is what that is told.      *)
ReadCredentials(c) ==
  /\ pc[c] = "credentials"
  /\ Goto(c, "command")
  /\ UNCHANGED <<poolVars, request, closed, reply, relayVars>>

ReadCommand(c) ==
  /\ pc[c] = "command"
  /\ IF request[c].command \in {"connect", "udp"}
     THEN Goto(c, "resolve") /\ UNCHANGED reply
     ELSE /\ Goto(c, "idle")
          /\ \E ok \in WriteOutcomes(c) : Told(c, ok, "denied")
  /\ UNCHANGED <<poolVars, request, closed, relayVars>>

ReadHttpRequest(c) ==
  /\ pc[c] = "readRequest"
  /\ Goto(c, "resolve")
  /\ UNCHANGED <<poolVars, request, closed, reply, relayVars>>

-----------------------------------------------------------------------------
(* resolve_proxy_request under the mutex of the pool.                      *)

(* The username the handler has read: a SOCKS5 client is asked for one     *)
(* only when a password is required, otherwise it is empty.  The mutant    *)
(* never looks at it.                                                      *)
UsernameIgnored(c) == [kind |-> "auto"]

Username(c) == IF request[c].endpoint = "socks5" /\ ~AuthRequired
               THEN [kind |-> "auto"]
               ELSE request[c].username

(* `authenticate', and a mutant that lets every password in.               *)
AuthenticatedAnyone(c) == TRUE

Authenticated(c) == AuthRequired => request[c].password = "right"

RejectRequest(c) ==
  /\ pc[c] = "resolve"
  /\ lock = NoHolder
  /\ ~Authenticated(c) \/ Username(c) = Invalid
  /\ Goto(c, "refuse")
  /\ UNCHANGED <<poolVars, request, closed, reply, relayVars>>

StartSelection(c) ==
  /\ pc[c] = "resolve"
  /\ Authenticated(c) /\ Username(c) # Invalid
  /\ BeginSelection(c, Username(c))
  /\ Goto(c, "select")
  /\ UNCHANGED <<request, closed, reply, relayVars>>

ContinueSelection(c) ==
  /\ lock = c
  /\ ReadInstance \/ SearchStandby
  /\ UNCHANGED <<handlerVars, relayVars>>

Granted(c) ==
  /\ lock = c
  /\ GrantLease
  /\ Goto(c, IF request[c].command = "udp" THEN "bindRelay" ELSE "connect")
  /\ UNCHANGED <<request, closed, reply, relayVars>>

Refused(c) ==
  /\ lock = c
  /\ RefuseSelection
  /\ Goto(c, "refuse")
  /\ UNCHANGED <<request, closed, reply, relayVars>>

(* The error reply: 0x02 or 0x04, 407 or 502; the mutant sends a code that *)
(* no client knows.                                                        *)
ReplyRefusalUnknown(c) ==
  /\ pc[c] = "refuse"
  /\ Goto(c, "idle")
  /\ \E ok \in WriteOutcomes(c) : Told(c, ok, "unknown")
  /\ UNCHANGED <<poolVars, request, closed, relayVars>>

ReplyRefusal(c) ==
  /\ pc[c] = "refuse"
  /\ Goto(c, "idle")
  /\ \E ok \in WriteOutcomes(c) : Told(c, ok, "denied")
  /\ UNCHANGED <<poolVars, request, closed, relayVars>>

-----------------------------------------------------------------------------
(* CONNECT and plain requests.  The mutant tells the client that it is     *)
(* connected before the data plane is.                                     *)

ConnectLater(c) ==
  /\ pc[c] = "connect"
  /\ Goto(c, IF request[c].command = "plain" THEN "exchange" ELSE "replyGranted")
  /\ UNCHANGED <<poolVars, request, closed, reply, relayVars>>

Connect(c) ==
  /\ pc[c] = "connect"
  /\ \/ /\ session' = [session EXCEPT ![c] = lease[c]]
        /\ Goto(c, IF request[c].command = "plain" THEN "exchange" ELSE "replyGranted")
     \/ /\ UNCHANGED session
        /\ Goto(c, "replyFailed")
  /\ UNCHANGED <<poolVars, request, closed, reply, relay, polled, aborted>>

(* The data plane failed: the reply is written or not, and the lease goes, *)
(* by drop(lease) or with the locals of the early return.  The mutant      *)
(* returns without dropping it.                                            *)
ReplyFailedKeepsLease(c) ==
  /\ pc[c] = "replyFailed"
  /\ \E ok \in WriteOutcomes(c) : Told(c, ok, "failed")
  /\ Goto(c, "idle")
  /\ UNCHANGED <<poolVars, request, closed, relayVars>>

ReplyFailed(c) ==
  /\ pc[c] = "replyFailed"
  /\ \E ok \in WriteOutcomes(c) : Told(c, ok, "failed")
  /\ DropLease(c)
  /\ Goto(c, "idle")
  /\ UNCHANGED <<request, closed, relayVars>>

(* A handler that has a stream open returns: both are dropped, the stream  *)
(* first, or after the lease where a SOCKS5 CONNECT ends well; no await is *)
(* between them, so that nothing goes through a stream without a lease.    *)
HandlerEnds(c) ==
  /\ DropLease(c)
  /\ session' = [session EXCEPT ![c] = NONE]
  /\ Goto(c, "idle")

ReplyGranted(c) ==
  /\ pc[c] = "replyGranted"
  /\ \E ok \in WriteOutcomes(c) :
       /\ Told(c, ok, "granted")
       /\ IF ok
          THEN Goto(c, "exchange") /\ UNCHANGED <<poolVars, session>>
          ELSE HandlerEnds(c)
  /\ UNCHANGED <<request, closed, relay, polled, aborted>>

(* write_all and read_once on the stream, from_utf8 of a plain request.    *)
Exchange(c) ==
  /\ pc[c] = "exchange"
  /\ \/ Goto(c, "forward") /\ UNCHANGED <<poolVars, session>>
     \/ HandlerEnds(c)
  /\ UNCHANGED <<request, closed, reply, relay, polled, aborted>>

(* The bytes read are written to the client; then the handler is done.     *)
Forward(c) ==
  /\ pc[c] = "forward"
  /\ \E ok \in WriteOutcomes(c) : Told(c, ok, "granted")
  /\ HandlerEnds(c)
  /\ UNCHANGED <<request, closed, relay, polled, aborted>>

-----------------------------------------------------------------------------
(* UDP ASSOCIATE.                                                          *)

BindRelay(c) ==
  /\ pc[c] = "bindRelay"
  /\ \/ Goto(c, "openSession") /\ UNCHANGED <<poolVars, session>>
     \/ HandlerEnds(c)
  /\ UNCHANGED <<request, closed, reply, relay, polled, aborted>>

(* open_udp_session on the leased instance; the mutant opens it on any.    *)
OpenSessionAnywhere(c) ==
  /\ pc[c] = "openSession"
  /\ \E i \in ServingPool : session' = [session EXCEPT ![c] = i]
  /\ Goto(c, "replyRelay")
  /\ UNCHANGED <<poolVars, request, closed, reply, relay, polled, aborted>>

OpenSession(c) ==
  /\ pc[c] = "openSession"
  /\ \/ /\ session' = [session EXCEPT ![c] = lease[c]]
        /\ Goto(c, "replyRelay")
     \/ /\ UNCHANGED session
        /\ Goto(c, "replyFailed")
  /\ UNCHANGED <<poolVars, request, closed, reply, relay, polled, aborted>>

(* The reply with the port of the relay; the task is spawned after it.     *)
ReplyRelay(c) ==
  /\ pc[c] = "replyRelay"
  /\ \E ok \in WriteOutcomes(c) :
       /\ Told(c, ok, "granted")
       /\ IF ok
          THEN /\ Goto(c, "drain")
               /\ relay' = [relay EXCEPT ![c] = "recv"]
               /\ UNCHANGED <<poolVars, session>>
          ELSE HandlerEnds(c) /\ UNCHANGED relay
  /\ UNCHANGED <<request, closed, polled, aborted>>

(* The control connection is read until it ends; bytes are thrown away.    *)
Drain(c) ==
  /\ pc[c] = "drain"
  /\ closed[c]
  /\ Goto(c, "abort")
  /\ UNCHANGED <<poolVars, request, closed, reply, relayVars>>

(* relay_task.abort() only asks for the cancellation; the mutant does not.  *)
AbortRelayForgotten(c) ==
  /\ pc[c] = "abort"
  /\ Goto(c, "release")
  /\ UNCHANGED <<poolVars, request, closed, reply, relayVars>>

AbortRelay(c) ==
  /\ pc[c] = "abort"
  /\ aborted' = [aborted EXCEPT ![c] = TRUE]
  /\ Goto(c, "release")
  /\ UNCHANGED <<poolVars, request, closed, reply, session, relay, polled>>

ReleaseAssociation(c) ==
  /\ pc[c] = "release"
  /\ DropLease(c)
  /\ Goto(c, "idle")
  /\ UNCHANGED <<request, closed, reply, relayVars>>

-----------------------------------------------------------------------------
(* serve_udp_association, as the executor runs it: a task is polled until  *)
(* an await is pending, and is cancelled only when it is not being polled. *)

RelayPoll(c) ==
  /\ Relaying(c) /\ ~polled[c] /\ ~aborted[c]
  /\ polled' = [polled EXCEPT ![c] = TRUE]
  /\ UNCHANGED <<poolVars, handlerVars, session, relay, aborted>>

RelayPends(c) ==
  /\ polled[c]
  /\ polled' = [polled EXCEPT ![c] = FALSE]
  /\ UNCHANGED <<poolVars, handlerVars, session, relay, aborted>>

(* The task is over: its socket and its session are dropped.               *)
RelayEnds(c) ==
  /\ relay' = [relay EXCEPT ![c] = "ended"]
  /\ session' = [session EXCEPT ![c] = NONE]
  /\ polled' = [polled EXCEPT ![c] = FALSE]

(* recv_from: a packet that does not parse is skipped, an error ends it.   *)
RelayReceive(c) ==
  /\ polled[c] /\ relay[c] = "recv"
  /\ \/ relay' = [relay EXCEPT ![c] = "send"] /\ UNCHANGED <<session, polled>>
     \/ RelayEnds(c)
  /\ UNCHANGED <<poolVars, handlerVars, aborted>>

(* send_datagram over the session: any error ends the relay.               *)
RelaySend(c) ==
  /\ polled[c] /\ relay[c] = "send"
  /\ \/ relay' = [relay EXCEPT ![c] = "reply"] /\ UNCHANGED <<session, polled>>
     \/ RelayEnds(c)
  /\ UNCHANGED <<poolVars, handlerVars, aborted>>

(* send_to the peer of the datagram.                                       *)
RelayReply(c) ==
  /\ polled[c] /\ relay[c] = "reply"
  /\ \/ relay' = [relay EXCEPT ![c] = "recv"] /\ UNCHANGED <<session, polled>>
     \/ RelayEnds(c)
  /\ UNCHANGED <<poolVars, handlerVars, aborted>>

RelayCancelled(c) ==
  /\ Relaying(c) /\ aborted[c] /\ ~polled[c]
  /\ RelayEnds(c)
  /\ UNCHANGED <<poolVars, handlerVars, aborted>>

-----------------------------------------------------------------------------

Init ==
  /\ PoolInit
  /\ pc = [c \in Holders |-> "idle"]
  /\ request = [c \in Holders |-> NoRequest]
  /\ closed = [c \in Holders |-> FALSE]
  /\ reply = [c \in Holders |-> "none"]
  /\ session = [c \in Holders |-> NONE]
  /\ relay = [c \in Holders |-> "none"]
  /\ polled = [c \in Holders |-> FALSE]
  /\ aborted = [c \in Holders |-> FALSE]

Reading(c) ==
  \/ HandshakeFails(c)
  \/ ReadGreeting(c)
  \/ ReadCredentials(c)
  \/ ReadCommand(c)
  \/ ReadHttpRequest(c)

Resolving(c) ==
  \/ RejectRequest(c)
  \/ StartSelection(c)
  \/ ContinueSelection(c)
  \/ Granted(c)
  \/ Refused(c)
  \/ ReplyRefusal(c)

Serving(c) ==
  \/ Connect(c)
  \/ ReplyFailed(c)
  \/ ReplyGranted(c)
  \/ Exchange(c)
  \/ Forward(c)
  \/ BindRelay(c)
  \/ OpenSession(c)
  \/ ReplyRelay(c)
  \/ Drain(c)
  \/ AbortRelay(c)
  \/ ReleaseAssociation(c)

RelayTask(c) ==
  \/ RelayPoll(c)
  \/ RelayPends(c)
  \/ RelayReceive(c)
  \/ RelaySend(c)
  \/ RelayReply(c)
  \/ RelayCancelled(c)

(* The pool is built before the listeners are bound and served.            *)
BuildPool == ClassifyRow /\ UNCHANGED <<handlerVars, relayVars>>

Next ==
  \/ BuildPool
  \/ \E c \in Holders :
       \/ \E r \in Requests : Accept(c, r)
       \/ ClientGone(c)
       \/ Reading(c)
       \/ Resolving(c)
       \/ Serving(c)
       \/ RelayTask(c)

Spec == Init /\ [][Next]_vars

(* The executor polls a handler that can go on and the data plane answers; *)
(* a task that is polled yields, because an await pends at the latest when *)
(* its cooperative budget is spent; the mutex of the pool is first come,   *)
(* first served, so whoever waits for it gets it.  Nothing is assumed of   *)
(* clients, and nothing of the reads a client can stall.                   *)
Fairness ==
  \A c \in Holders :
    /\ WF_vars(Resolving(c))
    /\ WF_vars(Serving(c))
    /\ WF_vars(RelayPends(c))
    /\ WF_vars(RelayCancelled(c))
    /\ SF_vars(StartSelection(c) \/ RejectRequest(c))

FairSpec == Spec /\ Fairness

-----------------------------------------------------------------------------
(* Properties.                                                             *)

(* The type of the handlers' state.                                        *)
Handshaking == {"greeting", "credentials", "command", "readRequest", "resolve"}
Leased == {"connect", "replyFailed", "replyGranted", "exchange", "forward",
           "bindRelay", "openSession", "replyRelay", "drain", "abort", "release"}

ServerTypeOK ==
  /\ pc \in [Holders -> Handshaking \cup Leased \cup {"idle", "select", "refuse"}]
  /\ request \in [Holders -> Requests \cup {NoRequest}]
  /\ closed \in [Holders -> BOOLEAN]
  /\ reply \in [Holders -> {"none", "denied", "failed", "granted"}]
  /\ session \in [Holders -> Instances \cup {NONE}]
  /\ relay \in [Holders -> {"none", "recv", "send", "reply", "ended"}]
  /\ polled \in [Holders -> BOOLEAN]
  /\ aborted \in [Holders -> BOOLEAN]

(* A handler holds a lease exactly while it serves a granted request: no   *)
(* early return, failed write or failed data plane leaves a lease behind,  *)
(* and none is dropped while its handler still uses it.                    *)
LeaseHeldWhileServing == \A c \in Holders : lease[c] # NONE <=> pc[c] \in Leased

(* An open stream or session is on the instance its connection holds; only *)
(* the session of a relay that was told to stop outlives the lease.        *)
SessionIsLeased ==
  \A c \in Holders :
    session[c] # NONE => session[c] = lease[c] \/ (lease[c] = NONE /\ aborted[c])

(* The two endpoints implement the ledger: Connection Binding, and loads   *)
(* that count the connections that are held.                               *)
Ledger == INSTANCE LeaseLedger WITH
  Connections <- Holders, held <- lease, carrying <- session, load <- active

ImplementsLedger == Ledger!Spec

(* With a shared secret configured, nobody without it ever gets a lease.   *)
NoLeaseWithoutSecret ==
  \A c \in Holders :
    AuthRequired /\ lease[c] # NONE =>
      /\ request[c].password = "right"
      /\ request[c].endpoint = "socks5" => "password" \in request[c].methods

(* A request the proxy has no reason to refuse: its method and command are *)
(* supported, its password is right, and its route has an instance.        *)
Admissible(c) ==
  /\ request[c].endpoint = "socks5" =>
       Method \in request[c].methods /\ request[c].command \in {"connect", "udp"}
  /\ AuthRequired => request[c].password = "right"
  /\ Username(c) # Invalid /\ Entitled(Username(c)) # {}

(* Only an admissible request gets a lease and only one that is not is     *)
(* denied, whatever other connections select and drop in the meantime.     *)
AdmissionIsRight ==
  /\ NoLeaseWithoutSecret
  /\ \A c \in Holders :
       /\ lease[c] # NONE => Admissible(c)
       /\ pc[c] = "refuse" \/ reply[c] = "denied" => ~Admissible(c)

(* A connection is served by an instance that the route written in its     *)
(* username is entitled to: a client that names an instance gets that one  *)
(* or an error.                                                            *)
UsernameHonoured ==
  \A c \in Holders :
    lease[c] # NONE => request[c].username # Invalid /\ lease[c] \in Entitled(request[c].username)

(* Whose username is lost: that of a SOCKS5 client of a proxy without a    *)
(* secret, which is served as if it had named nothing; nobody else's.      *)
OnlyOpenSocksIgnores ==
  \A c \in Holders :
    lease[c] # NONE =>
      IF request[c].endpoint = "socks5" /\ ~AuthRequired
      THEN lease[c] \in ServingPool
      ELSE /\ request[c].username # Invalid
           /\ lease[c] \in Entitled(request[c].username)

(* A client is told its request is granted only while a data plane is open *)
(* for it, and, when it asked for a tunnel, never after it was told no.    *)
GrantedMeansOpen ==
  [][\A c \in Holders :
       reply'[c] = "granted" /\ reply[c] # "granted" =>
         reply[c] = "none" /\ session[c] # NONE /\ session[c] = lease[c]]_vars

(* Every lease is released: that of an association once its client has     *)
(* gone, whatever became of its relay, and that of any other request       *)
(* without the client's help, so that one that stalls cannot keep an       *)
(* instance busy.                                                          *)
LeasesReleased ==
  \A c \in Holders :
    lease[c] # NONE /\ (closed[c] \/ request[c].command # "udp") ~> lease[c] = NONE

(* The relay of a connection whose handler is done stops.                  *)
RelayStops == \A c \in Holders : Relaying(c) /\ pc[c] = "idle" ~> ~Relaying(c)

(* What the release of leases and relays rests on.  A handler that has a   *)
(* lease only goes forward: each of its steps leaves it fewer of them, and *)
(* no step of another connection moves it or takes its lease.              *)
StepsLeft ==
  [bindRelay |-> 6, openSession |-> 5, replyRelay |-> 4, drain |-> 3, abort |-> 2, release |-> 1,
   connect |-> 4, replyGranted |-> 3, exchange |-> 2, forward |-> 1, replyFailed |-> 1]

HandlersRunOut ==
  [][\A c \in Holders :
       lease[c] # NONE =>
         \/ lease'[c] = NONE /\ pc'[c] = "idle"
         \/ /\ lease'[c] = lease[c]
            /\ IF Serving(c) THEN StepsLeft[pc'[c]] < StepsLeft[pc[c]] ELSE pc'[c] = pc[c]]_vars

(* A relay that outlives its handler was told to stop, is not polled anew, *)
(* and its connection's slot waits for it.                                 *)
RelaysRunOut ==
  [][\A c \in Holders :
       Relaying(c) /\ pc[c] = "idle" =>
         /\ aborted[c]
         /\ polled'[c] => polled[c]
         /\ Relaying(c)' => aborted'[c] /\ pc'[c] = "idle"]_vars

(* Whoever waits for the pool is answered, and the pool mutex is freed.    *)
PoolAnswers == \A c \in Holders : pc[c] = "resolve" ~> pc[c] \notin {"resolve", "select"}
=============================================================================
