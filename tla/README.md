# WarpNest in TLA+

TLA+ modules of WarpNest's core, the TLC runs that check them on small instances, and theorems
about them that TLAPS has proved for every value of the constants. Sources are named relative to
the crate (`proxy.rs` is `src/src/proxy.rs`); line numbers are in `PROJECT.json`.

1. [The system](#the-system) - its parts, their state, how they interact, what is hard
2. [The modules](#the-modules) - which module models what, action by action
3. [The runs](#the-runs) - what is checked, on which instances, and why they are large enough
4. [Fairness](#fairness)
5. [The proofs](#the-proofs)
6. [Where the code and its documents disagree](#where-the-code-and-its-documents-disagree)
7. [What is not modelled](#what-is-not-modelled)
8. [What comes next](#what-comes-next)

## The system

WarpNest keeps a store of WARP registrations, finds out through each one's own data plane which
public *Exit IP* it leaves by, puts one healthy instance per Exit IP in a *Serving Pool*, and serves
SOCKS5 and HTTP proxy clients over the instances of that pool.

| Part | State it keeps | Operations | What makes it correct |
|---|---|---|---|
| **Proxy Pool** `pool.rs` | instances in the order of the store, membership, one `active_connections` per instance behind a mutex of its own | `from_instances`, `schedule_auto`, `select_instance`, `status`, `ConnectionLease::new`, its `Drop` | one Serving instance per Exit IP, at most the target, none left out without a reason; a selection ends on an instance its route is entitled to, the least loaded one; a load is the number of leases alive |
| **Proxy endpoints** `proxy.rs` | one task per client connection and one relay task per UDP association; the pool in an `Arc<Mutex<_>>` | the two handlers, `serve_udp_association`, `abort` | no path through a handler keeps or loses a lease; traffic of a connection leaves by the instance it holds; a client is told "granted" only when something is open for it |
| **Authentication, routing** `proxy_auth.rs` | none | `authenticate`, `parse_route`, `resolve_proxy_request` | nobody without the secret gets a lease; a selector gets what it names or an error |
| **Retry Discipline** `retry.rs` | per kind of operation: failures so far, the reason it is blocked; one atomic counter per concurrency limit | `record_failure`, `record_success`, `next_retry`, `try_acquire`, drop of a permit | a counter is the permits in flight and within its limit; a refusal means the limit is full; "blocked" is never followed by a retry; delays grow to their cap |
| **Registration lifecycle** `warp_lifecycle.rs` | a retry discipline; everything else is in the store | `create_public_registration` | the budget bounds what is registered; nothing is stored for a call that failed |
| **Registration client** `direct_public_warp_registration.rs` | none | one HTTP request, classified; its body, normalised | rejections block, odd material is unsupported, the rest may be retried; what is stored is fit for a data plane |
| **Harnesses** `public_warp_registration_harness.rs`, `real_warp_integration.rs` | none | one run, with a gate before it; the second one registers in a loop until the target is reached | the loop ends; a failure is reported as what it is |
| **Observed material** `observed_warp_material.rs` | none | read and validate a document, import it as one row | what it accepts the data plane can use |
| **Public WARP Adapter** `public_warp_adapter.rs` | none | the kinds and versions that are supported | nothing runs on material of another version |
| **State Store** `state_store.rs` | one SQLite file: a table, its columns, `user_version` | `open` with its migration, `upsert_instance`, `list_instances` | a file that says version 2 has the columns of version 2, after any crash and with other processes migrating |
| **Probes** `probe.rs` | the fields of a row | a probe cycle, `apply_probe_cycle` | an Exit IP changes only by consensus of the probe endpoints of a healthy cycle |
| **Data plane** `data_plane.rs` | a config per instance; per stream, session or pump one `RuntimePacketPump`: its lifecycle, the loopback queue, the inbound queue, the transport's events | `with_instances`, `try_with_instances`, `connect_tcp`, `open_udp_session`, `runtime_packet_pump`, `write_all`, `send_datagram`, `default_send`; `start`, `stop`, `pump_once` and the queueing calls of a pump | what is open has usable material; packets keep their order, and one that is lost is told of; a user of streams never meets a pump's lifecycle |
| **Status, restoration** `status.rs`, `management.rs`, `cli.rs` | one value computed at start | restore, serve it | it describes the pool that serves |
| **Configuration, security** | none | load, validate, redact | - |

How they interact:

- *Shared memory.* Every handler task shares one pool. A selection holds the mutex of the pool from
  its start to its end; a lease is dropped under the mutex of its instance only. So drops run
  between the reads of a selection. No `.await` happens inside a selection.
- *Tasks.* A SOCKS5 association has two tasks: the handler, which reads the control connection, and
  the relay, which owns the UDP session. The handler aborts the relay and drops the lease; `abort`
  only asks the executor to cancel the task at its next await.
- *Shared file.* CLI commands, harnesses and the server are processes over one SQLite file, each
  statement a transaction of its own. Nothing spans two statements.
- *Remote calls.* The registration service creates something at the remote end before a row of the
  store says so; the response may be lost although the call took effect.
- *Calls.* Probe cycles write rows; a pool is built from the rows when it is built, and is not
  built again. A data plane is prepared for all rows at once; each stream, session or pump it opens
  owns its pump behind `&mut`, and no method of one awaits anything, so a call is one step.
- *Data.* The adapter config of a row is written by a registration or an import and looked at again
  only when a data plane is prepared from it.

What is hard about it, and where: an early return at each of a dozen awaits of a handler
(`proxy.rs:139-211`); cancellation of the relay against the lease it runs on (`proxy.rs:199`);
selections against drops (`pool.rs:213-252`); the lock-free permits (`retry.rs:193-210`);
check-then-act on the store by several processes (`warp_lifecycle.rs:94-112`); migrations that
stop half way or race (`state_store.rs:211-253`); disagreeing probes and overlapping cycles
(`probe.rs:138-178`); the early returns of `pump_once`, with a packet in hand and two directions
behind one loopback queue (`data_plane.rs:610-643, 750-762`); material that passes where it is
stored and fails where it is used (`real_warp_integration.rs:156`). `PROJECT.json` has the full list under `hazards`, each with the properties
that would catch it going wrong or the reason why none does.

## The modules

```
RetryPolicy ──┬── RetryDiscipline ── RetryDisciplineProofs
              └── Registration ── RegistrationProofs       StateStore ── StateStoreProofs
RegistrationClient ──┘
       │                        ┌── ProbeCycle ──────────────── ProbeCycleProofs
AdapterMaterial ──┐             │                                    │
RuntimePump ── DataPlane    Classification ──────────── ClassificationProofs
                │ │             │                                    │
   DataPlaneProofs│             └── ProxyPool ────────────────── ProxyPoolProofs
                  │ implements          │                            │
                  ▼ (both ways)    ProxyServer ───────────────── ProxyServerProofs
             PacketChannel              │ implements
                                        ▼
                                   LeaseLedger
```

A plain line is `EXTENDS`; `implements` is `INSTANCE ... WITH` a refinement mapping. Every `MC*` module extends the module it instantiates with the definitions its
configurations need, and `MCRoundRobin` adds a history variable. An operator named after another
one with a word added (`ReleasedNever`, `ExchangeBlind`) is that operator with a plausible bug, put
before it; it is used by nothing. `PROJECT.json` pairs each property with one that violates it.

**ProxyPool** is `pool.rs`. `pool` is what `from_instances` was given; `ClassifyRow` is one turn of
its loop, with the locals `seen_exit_ips` and `serving_count`. An instance is its position in the
list, the field `sequence` of the code. A selection is `BeginSelection` (the mutex is taken),
`ReadInstance` for each instance (`min_by_key` locks one instance at a time), then `GrantLease`,
`SearchStandby` (the second search of a group under `standby_fallback`) or `RefuseSelection`.
`DropLease` may run between any two of them, `Released` is its saturating subtraction. `scan.start`
is a history field: the loads when the mutex was taken. A selector by identity uses
`find` and stops at the first match; it takes the same steps here, since at most one instance has
an identity (the primary key of the store). Exit IPs, groups and identities are values; the number of connections is unbounded.

**Classification** is the same loop as a function of the Exit IPs of the rows, for which it says
what a good choice of Serving instances is (`Diverse`, `Largest`). `ProbeCycle` builds its pools with
it, and `ProxyPool` is shown to compute it. It has no state.

**ProxyServer** is `proxy.rs` and `proxy_auth.rs` over `ProxyPool`. `pc[c]` is where the handler of
connection `c` waits, one value per await at which something can go wrong:

| pc | code | action |
|---|---|---|
| `greeting` … `readRequest` | the handshake and `read_http_request` | `ReadGreeting`, `ReadCredentials`, `ReadCommand`, `ReadHttpRequest`, `HandshakeFails` |
| `resolve`, `select` | `pool.lock().await`, `resolve_proxy_request` | `RejectRequest`, `StartSelection`, `ContinueSelection`, `Granted`, `Refused` |
| `refuse` | the error replies | `ReplyRefusal` |
| `connect`, `replyFailed`, `replyGranted`, `exchange`, `forward` | CONNECT and plain requests | actions of the same names |
| `bindRelay`, `openSession`, `replyRelay`, `drain`, `abort`, `release` | UDP ASSOCIATE | `BindRelay` … `ReleaseAssociation` |

The relay task is `relay[c]`, and `polled[c]` says that the executor is running it: a task that
was aborted is cancelled only when it is not being polled, so it may send once more after its
lease was dropped. `Accept` starts a connection in a free slot, `ClientGone` ends its client at any
moment; a write fails only to a client that is gone, and may succeed then. The data plane succeeds
or fails at will. Bytes, hosts and ports are left out.

**LeaseLedger** is abstract: connections, the instance each one holds, the instance that carries
its traffic, and a load that *is* the number of holders. `ProxyServer` implements it with
`held <- lease, carrying <- session, load <- active`.

**RetryPolicy** has the record that `retry.rs` keeps of a kind of operation, and what it answers.
`MultiplierBits` stands for the 32 bits of `2_u32.saturating_pow`. **RetryDiscipline** has one
record per kind and the permits: `TryAcquire` is the load and its comparison, `Exchange` the
`compare_exchange` with its retry, `DropPermit` the `fetch_sub`.

**AdapterMaterial** is what the material of an instance has to pass: `Normalizes` and
`normalize_registration_response` (a registration's answer), `Importable` (an imported document),
`ensure_supported` and `from_adapter_config` (the data plane, which reports the first field that does
not parse). A field is `good`, `bad` (text that its parser refuses), `blank` or `missing`: the four
things these functions tell apart.

**RegistrationClient** is the function from a response to the answer a caller gets; **Registration**
is the processes: `Start` (the gate, the store that opens or does not), `ListInLoop`, `CheckBudget`,
`CallRemote`, `ReadMaterial` (the document of an import), `Upsert`, `Evidence`, and `Crash`. Each is
one access of the store, one file or one remote call, and each may fail. `registered`, `imported` and
`remote` count rows and remote registrations; `unfit` counts the rows whose material no data plane can
be prepared with, and decides what the full path reports; `looped` is a history variable, the part of
`registered` that the loop of the full path created.

**StateStore** is `open`: `Begin`, `CreateTable`, `ReadVersion`, `ReadColumns` (`table_info`),
`AddColumn` per column, `ColumnsAdded`, `SetVersion`, each one statement, with `OpenFails` (the
statement fails or the process dies) and `Close`. An opener whose `alter table` finds a column that
another opener has added since is `duplicateColumn`.

**ProbeCycle** is a cycle of `probe.rs`: `CheckHealth`, `OpenSession`, `SendProbe` or `ProbeFails`,
`ApplyCycle`. The pool is an operator of the rows, `from_instances`: the code reads all rows at once
and keeps nothing of them, so a property of "the pool, whenever it is built" is a property of the
rows in every state. The transport in the source that runs a cycle is the one the tests of the crate
use; no daemon schedules cycles yet, so the module lets cycles of different instances overlap in any
order and has no fairness.

**RuntimePump** is `RuntimePacketPump` as a record, and its methods as functions of that record.
`pump_once` takes two arguments that say how its loops end: all packets, or all before the one an
engine or the transport fails for. `OutboundEnds` and `InboundEnds` are the ends that are possible:
the fake engine never fails, the BoringTun one at any packet, the transport at its first send when
it was told to. The loopback device is one queue, `device`: what is to leave waits in it, and what
arrives is pushed at its end and popped from its front (`Inbound`), as `deliver_from_wireguard` does.
A packet is a number, and keeps it through the engines.

**DataPlane** is `BoringTunDataPlane` and what it opens. A handle is a stream, a session or a pump,
each with a `RuntimePump`; a call is a step with the name of the method. `with_instances` takes any
config and opens nothing; `try_with_instances` prepares every instance or is not built. A datagram
goes through a pump of its own (`clone_for_session`), which is gone when the call returns, and
`default_send` opens, uses and drops. `offered` and `failures` are history: the packets that were
queued with a handle, and the errors that were answered for one.

**PacketChannel** is abstract: queues in which packets wait and pass in order, and a step may lose
one packet, the first that did not pass. `DataPlane` implements it twice: outward with
`waiting <- device, passed <- sent`, inward with `waiting <- inbound, passed <- stack`.

## The runs

Every run below finishes in at most about two minutes with two workers. `MC*.tla` has the
sets a configuration names.

| Run | Properties | Shows |
|---|---|---|
| `pool` | `PoolTypeOK`, `LeasesCounted`, `ServingPoolIsBest`; `GrantIsLeastLoaded`, `SelectionHonoursRoute`, `RefusedOnlyWhenUnavailable` | every list of 0, 1 or 3 rows is classified as it should, and no other choice of Serving instances would have been larger, with targets 1 and 2; four holders select and drop in every order, and a selection grants the least loaded instance its route is entitled to although leases go between its reads |
| `server` | `ServerTypeOK`, `LeaseHeldWhileServing`, `SessionIsLeased`, `AdmissionIsRight`, `UsernameHonoured`; `GrantedMeansOpen`, `ImplementsLedger`, `LeasesReleased`, `RelayStops`, `PoolAnswers` | two connections of every kind with a secret configured: they are admitted or denied for what they ask and nothing else, no early return keeps a lease, a cancelled relay outlives its lease only over the same instance and stops, the mutex of the pool is always given back |
| `retry` | `DisciplineTypeOK`, `PermitsCounted`; `RefusedOnlyWhenFull`, `LostOnlyToWinners`, `BlockedStopsRetry`, `NextRetryPredicts`, `BackoffGrows` | three tasks race for one and for two permits; both kinds fail up to the cap and past the width of the multiplier, and are asked about in between |
| `registration_runs` | `RegistrationTypeOK`, `RetainedWithinBudget`, `CreatedOnlyWhenNeeded`; `RunsEnd` | two processes, four runs of any job, a remote service that answers in every class or loses its answer, documents of every shape, a store that may fail at each access, crashes |
| `store_opens` | `StoreTypeOK`, `MigratedBeforeUse`, `SomebodyLeads`; `SomebodyMigrates` | three openers of every file a former opener may have left: what is open is migrated, and a race always has a leader |
| `probe_cycles` | `ProbeTypeOK`, `ServingIsHealthy`; `ExitNeedsConsensus`, `PlacesAreStable` | overlapping cycles of three instances for two places, with every set of observations |
| `data_plane` | `DataPlaneTypeOK`, `OpenMeansPrepared`, `PacketsAccounted`, `StreamsNeverFail`; `ImplementsChannels` | every order of calls over data planes that are lazy or prepared, from material that is good, unfit, of the mock adapter and of another version, with failures at every packet |
| `round_robin`, `open_server_selector`, `budget_remote`, `store_failure_class`, `unprepared_row` | one each, violated | [below](#where-the-code-and-its-documents-disagree) |

What some of the properties say, where their names do not:

- `GrantIsLeastLoaded` compares the load of the granted instance *when it is granted* with what
  every candidate had *when the selection started*. The loads a selection compares were never true
  at one moment, so "the least loaded" can only mean this.
- `RetainedWithinBudget` bounds the rows that registrations created by the budget plus the number
  of *other* processes: check and write are two steps, so this is what the code gives, and it is
  tight: the run reaches it, with a second process past the check when the first takes the last free
  place. It is more than the maximum the documents speak of
  ([below](#where-the-code-and-its-documents-disagree)). One process alone keeps the budget exactly. `CreatedOnlyWhenNeeded` is the same of the
  target.
- `SessionIsLeased` has one exception, the relay that was aborted and is not cancelled yet.
- `SomebodyMigrates`: racing openers fail each other with "duplicate column", but not all of them.
- `NextRetryPredicts`: `next_retry` counts the failure that `record_failure` has just recorded, so
  its answer is one step ahead of the last one; it is what the next transient failure will be
  answered, however often one asks.
- `LeasesReleased`: a lease ends if its client hangs up, and also without the client where the
  request is not an association.
- `PacketsAccounted` is three conjuncts: `LeaveInOrder`; `OneLossPerFailure`, the balance of a pump,
  queued = sent + delivered + waiting + errors answered; and `DeliveredAreReceived`, which is why the order of the two loops of `pump_once` matters: with the
  other order, packets that wait to leave would be handed to the stack.
- `OpenMeansPrepared` is about *all* instances of a data plane with anything open: one unfit row is
  enough for nothing to open.
- `PlacesAreStable`: a cycle never changes the place of an instance whose row comes before its own,
  and one that takes its instance out costs no other instance its place in the Serving Pool. (One
  that brings an instance in may: the rows after it give way.)
- `ServingPoolIsBest` is `ServingPoolIsDiverseAndFull` - one instance per Exit IP, at most the target,
  nobody left out without a reason - and `ServingPoolIsLargest`: of all choices of healthy instances
  with an Exit IP each, within the target, none is larger. The pass is first come, first served and
  never looks back, and still wastes no Exit IP.
- `AdmissionIsRight`: a lease means that method, command, password and route allow it
  (`Admissible`), a denial means that one of them does not. The route is judged by who is entitled to
  it, not by what a search found: no denial is an accident of other connections.
- `MigratedBeforeUse` is `VersionMeansColumns` (a file of version 2 has its columns) and
  `OpenMeansMigrated` (so has a store that somebody has open).
- `SomebodyLeads`: some opener has seen every column that is there, so nobody else can make it fail -
  unless the version is written or a statement failed for a reason of its own. It is why racing
  openers never all lose.

The bounds, and why they are enough:

- *Rows, targets, Exit IPs.* Three rows of six kinds contain every reason to serve, to stand by and
  to fail, in every order, with the target reached before, at and after the end of the list. One
  pool of four rows has three Serving instances and a Standby duplicate, so that four holders
  share, tie and free instances. What the loop of `from_instances` does is proved for every list and every target.
- *Holders and connections.* A race is between one selection and drops; four holders give one that
  selects while three leases come and go. In `server` each connection brings a handler and a relay,
  so two of them are four tasks; which requests are enumerated is said in `MCProxyServer`.
- *Tasks and permits.* Three tasks and limits 1 and 2: one holds, one loses, one wins. There is no
  bound on how often they do it.
- `MultiplierBits` = 2 stands for 32, `MaxDelay` = 150 for 30 000 ms: the delay is capped at the
  second failure and the multiplier saturates at the third, the last that `MaxAttempts` = 2 counts.
  Both are parameters of the formula, and the theorem about it holds of every width and cap.
- `MaxRuns` = 4 starts of a process, `Budget` = 3 and `Target` = 2: the overrun of either needs two
  processes past the check at the last free place, which takes three runs. `CHECK_DEADLOCK` is off
  since the bound ends the behaviours.
- `MaxOpens` = 3, one for each opener: a second open of the same process adds nothing to the files
  in `AnyStore`, which has those an opener leaves when it stops after any statement.
  `CHECK_DEADLOCK` is off for the same reason.
- *Instances, places, Exit IPs of `probe_cycles`*: three, two and three give duplicates, a full
  Serving Pool with one of an Exit IP of its own waiting for a place, and a place that falls free. `MaxCycles` = 2 cycles overlap: a
  cycle touches only its own row, so a third one adds no new order of two applications.
- *`data_plane`*: one handle, since pumps share nothing and an action names one handle; it is
  opened, used, dropped and opened as something else. Two instances, one of which may be unfit while
  the other is asked for. `MaxPackets` = 4: two packets wait to leave while two arrive, or four one
  way, with a failure at the first, a middle one and the last.
- *`unprepared_row`* has one process, good answers and one whose endpoint has no port: a single run
  suffices.
- *Symmetry* is used where a run has no temporal property that needs fairness: holders in `pool`,
  connections in `open_server_selector`, Exit IPs in `probe_cycles`.

## Fairness

Fairness is assumed only where something in the program provides it.

- `ProxyServer`: `WF` of a handler's own steps, since the executor polls a task that can go on and
  the data plane is taken to answer, with success or failure; `WF` of `RelayPends`, because tokio's
  cooperative budget makes a task that never blocks yield; `WF` of `RelayCancelled`, since a task
  that was aborted and is not being polled is dropped. `SF` of taking the mutex of the pool: the
  mutex of tokio is first come, first served, and with `WF` alone another handler could be lucky
  for ever. *Nothing* is assumed of clients: reading a request, and a control connection that stays
  open, have no fairness, and `LeasesReleased` therefore waits for the client of an association. Replies are
  small, a write of one is taken not to block.
- `RetryDiscipline`: `WF` of `Exchange`, the loop has no wait in it. Tasks need not acquire or drop.
- `Registration`: `WF` of a process that runs, calls of the remote service end. Starts are not fair.
- `StateStore`: `WF` of the statements of an opener.
- `DataPlane` and `ProbeCycle` have none: nobody is obliged to call them.

## The proofs

Each `*Proofs` module proves its component for every value of the constants its `ASSUME` allows,
and without the bounds of the runs.

**ClassificationProofs.** The pass over the rows is a recursive function, and what it computes is
shown by induction over the rows. The induction theorems of the library quantify over an operator,
which the provers cannot instantiate; `UpFromZero` says the same of a *set* (one that has 0, and
n + 1 with every n, has every number), and follows from `NatLessThanWellFounded`. `RecursionExists`
gives the function its existence, and with it the right to unfold it. `PassServesRightly`: the pass
is diverse, within the target, and leaves a healthy instance out only for an earlier one of its Exit
IP or for the target. `RightIsLargest`: whatever is so is as large as any other choice; either the
target is reached, or every Exit IP of the other choice serves already, which maps the other choice
one to one into this one. `PlacesAreKept`, `FirstRowsDecide` and `OthersGoOnServing` say that a place
is decided at its row, by the rows up to it, and survives the loss of another row: without one row
the pass has, after every row, either the same instances but that one, or one more that takes its
Exit IP or its place.

**ProxyPoolProofs.** The invariant of leases is `LeaseInv`: the type, the fact that whoever selects
holds no lease (otherwise a grant would overwrite one), and `LeasesCounted`. A grant adds the
selecting holder to the holders of one instance, a drop removes one from a nonempty set, so the
subtraction never saturates. `ServingInv` describes the loop of `from_instances` at a row:
`seen_exit_ips` is the set of Exit IPs of the rows that serve, `serving_count` their number, and
every row before the current one is where it belongs. `PassInv` adds that the rows that serve are those
of the pass of `Classification` (`LoopsAgree`), so that what is proved of the pass holds of the loop:
`ServingPoolsAreBest`. `ScanInv` is the state in the middle of a
selection: what was passed is no better than the candidate, and what was found is a candidate of the
tier; the second search of a group only starts when the first one has found nothing. From these
follow `PoolTypeCorrect`, `LeasesAreCounted`, `ServingPoolDiverseAndFull`, `ScanStaysWithinStart`,
`GrantsAreLeastLoaded` and `SelectionsHonourRoutes`. `RefusalsMeanUnavailable` rests on the last
one: a selection of an automatic route that finds nothing means that nothing serves, which is what
the readiness counts. `SelectionsRunOut` is the measure of a selection: the instances not read yet, and
all of them once more while the second search is ahead. `TiesAreBrokenByPosition`: a candidate that
is not the first one displaced all before it by a smaller load, so an instance is granted only when
every candidate before it was busier; that is all that the finding `round_robin` is about.

**ProxyServerProofs.** `ServerUsesPool` shows that every step of the endpoints is a step of the pool
or leaves it alone, which brings the theorems of the pool over (`ServerCountsLeases`, `ServerSelectsRightly`,
`ServerServesTheBest`, `ServerSelectionsRunOut`). `ServerInv` says that a handler holds
a lease exactly in the states between the grant and the drop, that the holder of the mutex is the
handler that selects, and that a session is the lease's, or that of an aborted relay. With it each
step maps to a step of `LeaseLedger` or to a stutter: a grant to `Assign`, an opened data plane to
`Open`, the end of a handler to `Release` (which may close too), the end of a relay to `Close`; the
load of the ledger is a count because `LeasesCounted` holds. `ConnectionsAreBound` is read off the
ledger: a connection goes from one instance to another only by way of none, and what carries its
traffic likewise.

What a client was asked, told and given needs a memory that the state of the handler only implies.
`HistoryInv` makes it explicit for every connection: `CheckedOf` (past the handshake the
credentials were read and found right, past the resolution the username is a route), `ToldOf` (which
reply can have been sent at which `pc`), `RoutedOf` (the selection under way, and the lease, are
those of the route the client wrote). It gives `LeasesNeedTheSecret`, `RepliesAreTrue` and
`RoutesAreHonoured`; the last one assumes `AuthRequired`, and the run `open_server_selector` shows
that it is false without. `OnlyOpenSocksLosesSelectors` needs no secret and says who is concerned: the
SOCKS5 clients of an open proxy, who get an instance that serves, and nobody else. `AnswerInv` adds the other direction, that a denial has a reason: a handler
that is past the command has read one the proxy serves, and one that refuses has a request that is
not `Admissible`. `AdmissionsAreRight` joins both, with `SelectionsHonourRoutes` for the case that the
search decides, and with `Built`, since what a route is entitled to changes while the pool is built.

`HandlersAreFinite` and `RelaysAreFinite` are what `LeasesReleased` and `RelayStops` rest on: a handler
that has a lease only goes forward, by at most six steps of its own, and nobody else moves it; the
relay of a handler that has returned was told to stop, is not polled again, and keeps its slot.

**RetryDisciplineProofs.** `PermitsAreCounted` needs, besides the type, that a task in the loop has
read a value below the limit: the exchange then writes at most the limit. `RefusalsMeanFull` follows
from it step by step. `LossesRunOut` is the reason why the loop of `acquire` makes progress: a task
that lost has the counter's value anew, and what it can still lose, once for an old value and
twice for each permit that may be dropped, only grows when another task *of the same kind* wins. The answers have an invariant of their own, `AnswersInv`: what was
answered last matches what is remembered - an answer "blocked" means a memory that is blocked, an
answered delay is at most the delay of the failures now counted, and the answer to a question is
what `next_retry` would answer again. `BlockedIsNotScheduled`, `DelaysGrow` and `QuestionsPredict`
follow from it. `DelaysGrow` needs that `2 ^ n` grows, which the SMT solver does not know and an
induction would show; `PowerCounts` gets it from the library's theorem on the number of subsets:
`2 ^ n` is the cardinality of `SUBSET (1..n)`, and a smaller set has fewer subsets.

**RegistrationProofs.** `BudgetOverrunIsBounded` and `LoopStopsAtTarget` need no stronger invariant
than the type: in the step that passes the check, fewer rows than the budget exist and at most all
processes are past their check; every other step takes a process away before it adds a row.
`RowsAreReal` counts the processes that are about to write what was created. `RunsHaveAMeasure`: four
steps a turn times the rows missing to the target, plus the place in the turn, falls with every step
of a run, and rows that other processes add only lower it. `ReportsInv` says what a process in each
place can have failed with; from it `OnlyLoopsHideErrors` gives the exact scope of the finding
`store_failure_class`: every error is reported as what it is, except by the full path, and there as a
failed registration. `NormalizedPrepares` states when the material of a response can be prepared,
field by field, and `GoodMaterialPrepares` that the fields taken unparsed are the only reason for the
finding `unprepared_row`: where none of them is wrong, every row of the store prepares.

**StateStoreProofs.** `VersionMeansColumns` is not inductive: an opener may write the version that
has read nothing of what others did. `StoreInv` adds `PassedColumnsExist`, what each opener knows of
the file, which stays true since no statement removes a column; `KnownColumnsExist` is that part. `FilesAreMigratedBeforeUse`
joins `VersionMeansColumns` with what it means for a store that is open. `RacesHaveALeader` needs
`RaceInv`: columns are added in their order (`AddedInOrder`), so the opener that added the last one has
passed, or seen, all that are there. A step of the leader keeps it the leader or ends its migration
with the version written; a step of another one that adds a column makes that one the leader.

**ProbeCycleProofs.** `ProbeInv` adds to the type that a row whose last cycle failed its Health
Check is disabled, and that endpoints are asked only after a Health Check that passed. From it
follow `PoolsAreHealthy`, `ExitsAreAgreed` and `NoConsensusNoChange`; the last needs of
`from_instances` only that it depends on `enabled` and the Exit IP of the rows. `PlacesStayStable`
needs what it computes: a cycle writes one row, and `ClassificationProofs` says what one row decides.

**DataPlaneProofs.** `PumpOnceMoves` is about one call of `pump_once` for every pump and every way its
loops can end: the first packets of each queue pass, at most one packet of both is lost, and it is
lost exactly when the call answers a failure. That one loop starts when the other has emptied its
queue is what makes arrivals go through the loopback device unharmed. `Accounted` says of one pump
what that preserves (order, balance, stack = delivered, and every number at most `packets`, so that a
new one is larger); `Undisturbed` says that a stream's or session's pump runs with the fake engine and
empty queues. `DataPlaneInv` is these for every handle, and that a prepared plane has prepared
material. The refinement takes `PumpOnceMoves` to `Pass`, queueing to `Offer`, `write_all` to `Pass` of
the extended queue, and `Drop` to `Close`. `PacketsAreAccounted` joins `OrderIsKept`, `LossesAreTold`
and `StackReceivesArrivals`.

Some properties are proved and belong to no run, because they are parts of an invariant above or
follow from what the runs check. The measures: `SelectionRunsOut`, `HandlersRunOut`, `RelaysRunOut`,
`LosingRunsOut` and `RunsComeCloser`. The scope of a finding: `OnlyTheFullPathHides`,
`TiesGoToTheFirst` and `OnlyOpenSocksIgnores`. And `ScanWithinStart` (the middle of a selection), `PassedColumnsExist`,
`NothingInvented` (every row that was created exists remotely), `NoConsensusKeepsPool` (a cycle
without consensus that leaves `enabled` as it was leaves the next pool as it would have been) and
`SuccessDrains` (a call of `pump_once` that
answers success leaves nothing waiting, and one that failed to send lets nothing arrive).

The assumptions the proofs rest on are the named `ASSUME`s, which TLC evaluates in the runs: finite
sets of processes, a "nobody" that is not one of them, well-formed rows and requests, and files of
version 2 that this code has written. Outside of them the model takes an atomic load to return the
latest value of its location, and one SQLite statement to be atomic.

Only model-checked: the liveness properties `LeasesReleased`, `RelayStops`, `PoolAnswers`,
`LostOnlyToWinners`, `RunsEnd` and `SomebodyMigrates`. They follow from fairness, whose definition has
an `ENABLED`, which is out of the prover's reach, as is the step from "falls each time" to "falls
only finitely often" for a temporal formula. Every other property of a passing run is a theorem, and
so is the argument that each of these rests on: in the order above, `HandlersAreFinite`,
`RelaysAreFinite`, `SelectionsRunOut`, `LossesRunOut`, `RunsHaveAMeasure`, `RacesHaveALeader`.

## Where the code and its documents disagree

| Run | The document | The code |
|---|---|---|
| `round_robin` | CONTEXT.md:116, round-robin breaks ties | `pool.rs:220` breaks them by position: of equally loaded instances the first one is granted every time |
| `open_server_selector` | CONTEXT.md:64, the selector is taken from the username for SOCKS5 and HTTP | `proxy.rs:123` negotiates "no authentication" when no secret is configured and goes on with an empty username |
| `budget_remote` | CONTEXT.md:160, the budget bounds the registrations created or retained | `warp_lifecycle.rs:112`: a registration that exists remotely and whose row was not written is not counted |
| `registration_runs`, as a bound | CONTEXT.md:160, the budget is a maximum | `warp_lifecycle.rs:94` counts the rows and `:112` writes one, with the call of the service in between and no transaction: of n processes that share a store each may pass the check before a row of the others appears, so up to n - 1 rows more than the budget are retained. `RetainedWithinBudget` states this bound, which the run reaches, and `BudgetOverrunIsBounded` proves it |
| `store_failure_class` | docs/public-warp-registration.md:78, store failures are not hidden as registration failures | `real_warp_integration.rs:225` gives every error of the service one class |
| `unprepared_row` | docs/public-warp-registration.md:21, the client's output has enough peer, interface, route, DNS and device material for a data plane to establish a connection later | `direct_public_warp_registration.rs:397` takes any text that is not blank for the endpoint, the key and the addresses; the data plane refuses the row later (`data_plane.rs:459`), and every other row with it |

## What is not modelled

- `data_plane.rs`: what an engine makes of a packet (its number stays), so neither the handshake of
  WireGuard nor a packet that answers the network; the smoltcp interface, which is polled without a
  socket; the mock data plane, which has no state and never fails. The endpoints and the probes take
  the data plane as calls that succeed or fail: `StreamsNeverFail` says that those of the runtime data
  plane in the source succeed, and the trait promises less.
- `status.rs`: a record of values; the readiness is `readiness` of `ProxyPool`. The classification by
  stored preference (`from_restored_instances`) is called by a test only, and every writer of rows
  stores the same preference. `management.rs` and `cli.rs` serve a value computed once, sequentially.
- `config.rs`, `security.rs`: validation of one file and redaction of strings, no state.
- `direct_public_warp_registration.rs`: key generation, headers, and the calendar of the time stamp in
  a request; a failure to make a key is a transient failure in `Response`.
- `state_store.rs`: the encoding of a row in columns and back.
- Panics, and with them poisoned mutexes. An error of `accept`, which ends both listeners and the
  process with them. Timeouts: the endpoints have none.
- Overflow of a load or of a counter of failures at 2^64 and 2^32.
- Removal of rows: no code removes one.

## What comes next

Everything that keeps state in the source has a module. What would add to it needs code that does
not exist yet: a daemon that schedules probe cycles and rebuilds the pool (`ProbeCycle` and `ProxyPool`
would be composed by it, with its fairness), a transport behind the packet pump (`DataPlane` would
get the engine's answers to the network and their timers), and a writer of the membership preference
(Pool Restoration, CONTEXT.md:172).
