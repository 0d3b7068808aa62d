# TLA+ models of sonic-dash-ha

This directory holds TLA+ models of the switch bus (swbus), its actor runtime
and the HA manager (hamgrd) of this repository, the TLC configurations that
check them on small instances, and TLAPS proofs of properties of the actor
runtime, of the bridges to Redis tables, of the edge runtime, of the connections
of a swbusd and to it, of its routing, and of hamgrd's actors and their view of
the DPU network.
`PROJECT.json` is the index: components, runs, the source lines each definition
stands for, hazards, findings and theorems.

## The system

* **swbusd** (`swbus-core`, `swbusd`): one per node. It dials its peers,
  accepts connections of services and other swbusds, and routes messages by
  service path over four prefixes: service, node, cluster, region.
* **Edge runtime** (`swbus-edge`): in each process a router between the handlers
  of the process and a client of the local swbusd. All channels are bounded.
* **Actor runtime** (`swbus-actor`): an actor has an incoming table, an outgoing
  table with ack and resend, and an internal table backed by Redis rows. A
  callback that returns `Ok` commits the internal table and then sends what was
  queued; one that returns `Err` drops both.
* **Bridges** (`swss-common-bridge`): a consumer bridge turns a Redis table into
  actor messages, a producer bridge does the opposite.
* **hamgrd**: an actor creator per actor type spawns an actor for each row of the
  type's table; DPU, vDPU, HA set and HA scope actors register with each other
  and publish their state to whoever registered.
* **Around it**: `swbus-config` (routes and peers from CONFIG_DB), `swbus-cli`,
  `container` (start and stop of feature containers), `swss-serde`,
  `sonicdb-derive`, `sonic-common`.

Where it can go wrong: the actor driver interleaves callbacks, responses and
resends; commits are not atomic; connect tasks, workers and the connection store
run concurrently; the router, the creator and the actors wait for room in each
other's channels; rehydration races notifications; actors are created, register,
change and stop in any order; hamgrd restarts with its rows in Redis; the router
waits for room in a queue with the lock held that reconnection needs. The list of
these hazards, each at its line, is in `PROJECT.json`.

## Modules

| Module | Part of the system |
|---|---|
| `InternalTable`, `MCInternalTable`, `TableProofs` | `state/internal.rs` and the commit or rollback around a callback |
| `ActorChannel`, `ActorChannelProofs` | `state/outgoing.rs`, `state/incoming.rs`, `driver.rs`: messages between two actors |
| `AtLeastOnce` | what `ActorChannel` promises its users: the abstract specification it implements |
| `MuxConnections`, `MCMuxConnections`, `MuxProofs` | connect tasks, workers, trackers and routes of a swbusd |
| `MuxRouting`, `MCMuxRouting`, `MuxProofs` | `route_message`, next hops and responses over several swbusds |
| `EdgeRuntime`, `EdgeRuntimeProofs` | edge router, actor creator, sink, actors, and the bounded channels between them |
| `CoreClient`, `CoreClientProofs` | `core_client.rs` between router and swbusd, with a `swbus-cli` ping or traceroute on top |
| `TableBridge`, `TableProofs` | consumer bridges on one table |
| `MCActor` | an actor's messages, internal table and table bridge (`ActorChannel`, `InternalTable`, `TableBridge`) for TLC, one at a time |
| `HaActors`, `MCHaActors`, `HaActorsProofs` | DPU, vDPU and HA set actors: registration and publication |
| `SwbusConfig` | `swbus-config`: endpoint, routes and peers computed from CONFIG_DB |
| `DpuNetwork`, `MCDpuNetwork`, `DpuNetworkProofs` | start of hamgrd, the DPU actors' bridges and BFD sessions, over `SwbusConfig` |
| `HaScope`, `HaScopeProofs` | the HA scope actor and its pending operations |

Each module's header names its files; `map` in `PROJECT.json` gives the lines of
every definition. Definitions called *Mutant* are altered copies of a definition,
used to show that a property notices the alteration; no specification uses them.
`TableProofs`, `MuxProofs` and `MCActor` extend several components each, so the names
of those components are distinct (`InternalSpec`, `BridgeSpec`, `RoutingSpec`, and so on).

How the code's state appears:

* `InternalTable`: `row`, `fvs`, `backup`, `mutated` are the fields of
  `InternalTableEntry` per table name; `db` is Redis. A commit is one step per
  entry, because `commit_changes` awaits the database for each.
* `ActorChannel`: `queued`, `unacked`, `sent` are the maps of `Outgoing`,
  `incoming` the receiver's table, `reqs` and `resps` the bus. Time is a count of
  `RESEND_TIME` periods. `resending` is the part of the resend iteration still to
  do, which an arriving message cancels (`select!`).
* `MuxConnections`: a generation is one connect task with the connection and the
  worker it leads to. `conn_established` and `start_connect_task` are split where
  other tasks can run between their effects.
* `MuxRouting`: one request and everything it gives rise to, over any contents of
  the route tables that registration can produce.
* `EdgeRuntime`: an update of a row travels bridge, router, creator, router, actor;
  a full channel blocks its sender, and a router that waits takes nothing from its
  queues. `raced` has the rows of which an update was sent while their actor was
  being created.
* `CoreClient`: `published` is whether `send_queue_tx` holds a sender, `router.pc`
  is `"sending"` while the router holds the lock for reading and waits for room.
  A message is its request id. swbusd, the stream and its flow control are
  external: a stream may stop moving, break, or deliver what an earlier one held
  after what followed it.
* `SwbusConfig`: a CONFIG_DB is a record of its rows, a service path the pair
  written `<ip>-dpu<id>`, a configuration a record of endpoint, path, routes and
  peers. Region and cluster are the same in all paths of one NPU.
* `DpuNetwork`: `bridges` are the consumer bridges of the process with the rows
  each found when it was spawned and the changed ones; `told` is the managed DPU
  actor's incoming table, `sessions` the BFD session table of the DPU. Only
  `handle_dpu_message` waits between its steps, for each bridge it spawns.
* `TableBridge`: a field's value is the number of the change that wrote it.
* `HaActors`: rows and configurations are versions; addresses are those of the
  row's version. One HA set with two vDPUs. A message to an actor that does not
  exist can be given up (`GiveUp`); `lost` has the links whose last message was.
* `HaScope`: `npu` is the internal entry, `stateDb` its row, `out` the message for
  the DPU's DASH_HA_SCOPE_TABLE; an operation id is a number, fresh like a Uuid.
  `backup` is what a failing handler sets the entry back to.

The modules are separate because each question needs its own granularity; they
meet at stated interfaces. `ActorChannel` takes its bus as lossy and its NoRoute
answers from `EdgeRuntime` and `MuxRouting`; `HaScope` and `HaActors` take
channels that deliver in order, which `ActorChannel` has for first
transmissions (`RegressionNeedsResend`, proved as `OrderKept`) as long as one connection lasts: after a
reconnect, what the old stream held may arrive later (`TransmitLate` of
`CoreClient`). They and `DpuNetwork` take the stop of an actor as final until hamgrd restarts:
`EdgeRuntime` keeps the route of a stopped actor, as the code does. `DpuNetwork`
takes a bridge to behave as `TableBridge` shows (`ViewCurrent`).

`ActorChannel` implements `AtLeastOnce` (`DeliversAtLeastOnce`): an id is issued
by `Outgoing::send`, pending while it is in `unacked_messages`, taken once the
receiver has it in its incoming table and has answered, given up when the failsafe
drops it, and acked when `sent_messages` shows it so. Losses, resends, bounced
requests, the clock and failed callbacks are stutters.

## Runs

Passing runs:

| Run | Checks | Instance |
|---|---|---|
| `actor_state` | `UnackedHasSent`, `AckSticky`, `RegressionNeedsResend`, `Settles`, `DeliversAtLeastOnce`; `NoDirtyWrite`, `RewrittenRestored`, `CommitComplete`; `ViewCurrent` | two keys, two messages, one fault; or two entries, two rows, two values; or two bridges, two rows, two fields, three changes |
| `mux_connections` | `OneDialler`, `RoutesInStep`, `Reconnects` | a peer and an accepted connection under its route key or one of its own, three generations |
| `mux_routing` | `Drains`, `Answered` | two swbusds in two clusters and an absent one; a ping, a traceroute of any ttl or an unknown management request; services may detach |
| `edge_runtime` | `ActorFollowsRow`, `Drains` | two rows set, changed and deleted, three updates, a request from here or elsewhere, queues of two, of one for the creator, four actors |
| `ha_actors` | `Consistent`, `DeletedUnregistered` | two DPUs, two vDPUs of which one moves, one further change, deletions |
| `ha_scope` | `RequestApproved`, `LeavesListRequested`, `NoPanic`, `ApprovedLeavesList`, `NewOperationListed` | two operation types, three operations, one restart, two database errors |
| `core_client` | `SendsOnPublished`, `OkWasReached`, `Reconnects`, `CommandEnds` | four rounds, queues of one, four answers, two broken streams or failed dials |
| `dpu_network` | `SessionsCurrent`, `PeersMutual`, `EventuallyMonitored` | two slots, one remote row of a dual-stack or IPv6-only NPU, dual-stack or IPv6-only loopback, two changes or exits |

One run of each module with variables (`AtLeastOnce` excepted) also checks its `TypeOK` (`InternalTypeOK`, `BridgeTypeOK`, `RoutingTypeOK`), which includes the bounds of its
queues and the relations between its fields.

Runs whose property, taken from a comment or a doc of the code, does not hold
(details and quotations under `findings`):

| Run | What the code does |
|---|---|
| `internal_rollback` | a failing callback sets entries it did not touch back to an older value |
| `dpu_network_remote` | a REMOTE_DPU row set after the managed DPU actor has spawned its own bridge on the table gets no actor |
| `edge_runtime_race` | two updates of a new row in quick succession give the row two actors |
| `ha_scope_restart` | after a restart of hamgrd an operation that is on the list is listed again under another id |

### Where the properties stop

Some properties are stated under a condition, because the code does not provide
them without it. The hazard at the line says what happens then.

* `ActorFollowsRow`: no update of the row was sent while its actor was being created
  for an earlier one (`raced`), and, for the actor to be there, no actor of the row
  has stopped before. Otherwise two updates of a new row give two actors
  (`edge_runtime_race`), or the one that the creator forwards arrives after a later
  one; a row deleted and set again gets no actor, because the route of the stopped
  actor stays and the creator is never asked.
* `Drains` of `EdgeRuntime`: the tasks do not jam (`Jammed`): the router waits for
  room at the handler of the message it has taken, and creator, sink or actor wait
  for room in the router's full queue. The property says that this is the only way
  for messages to stay. It does happen, in the run with queues of two; in the code
  the router's queue holds 10000 messages and the creator's 10.
* `CommandEnds`: the command is not blocked for ever in `runtime.send`, which has no
  timeout (`Blocked`): the router's local queue is full, and the router waits for
  room in a send queue that swbusd does not read or in the command's own queue.
* `Consistent`: no registration that the HA set rests on was given up and not sent
  again. A vDPU configured more than an hour before its DPU, or an HA set before its
  vDPU, sends its registration in vain (`drive_resend_loop` drops it) and does not
  send it again before its next configuration: all actors live, nothing is on its
  way, and the HA set has no state. The tables are also asked for only while the
  global configuration has a `vnet_name`; without one the handler fails. The route
  is the entry of the internal table: its row is named after the vip, and a
  configuration with another vip leaves the row of the earlier one in the database.
* `ViewCurrent`: the bridge runs. A second bridge on the table takes its route and
  thereby ends it; its actor hears of no further update (`dpu_network_remote`).
* `RoutesInStep`: keys that only one link has used and whose streams lasted until
  `conn_established` had run (`Orderly`). A stream that fails earlier leaves a
  route to a dead connection; of two connections with one key, the one that ends
  takes the other's route away.
* `Reconnects` of `MuxConnections`: no worker of the link has panicked.
* `Drains` and `Answered` of `MuxRouting`: the requester stays connected. Without
  it NoRoute responses can answer each other for ever. `Drains` also asks that the
  next hop of a cluster or a region has a node route of its own to every other
  swbusd there (`Gateways`). Two swbusds always satisfy this, as the run shows; the
  attempt to prove `Drains`' ranking for any number of them showed that four need
  not: let a and b be in one cluster, c and d in another, with cluster routes
  a to c, c to b, b to d and d to a and no others (each swbusd dials both of the
  other cluster, and `update_route` keeps the first of two registrations under the
  same key, as their hop counts are equal). A response of c to a service at a goes to b, which has no route to a and
  answers c with a NoRoute; that goes to d, which answers b with another, and so on
  round the ring, each with a full ttl. The comment in `route_message` (`multiplexer.rs:186`)
  has the second NoRoute end at the swbusd that sends it, which is so when it
  finds no route for a response of its own, and not when it is for another's.
* `SessionsCurrent`, `EventuallyMonitored`: the actor's bridges on the global config
  and on REMOTE_DPU were spawned and keep their address, and the slot of its row
  has been ours since its first row (`steady`). After a failed spawn the remaining
  bridges are never spawned; an HA set actor's bridge on the global config ends
  the DPU actor's; a row that leaves our slot and comes back misses the global
  configs of the meantime. Sessions of rows that are gone are never removed, so
  the properties ask for the sessions of the tables, not for no others.
* `PeersMutual`: both NPUs are configured alike (`Mirror`), and one peer has to
  match. A dual-stack NPU listens on its IPv4 address only, so the second peer
  made of its row is dialled in vain. A REMOTE_DPU row of another type than
  `cluster`, which a comment says is ignored (`swbus-config/src/lib.rs:177`), makes
  the whole load fail (`PeerRefused`). On an NPU without IPv4 loopback the
  configuration loads but the DPU actor fails on every row.
* `ApprovedLeavesList`: the approval finds the vDPU known and managed. An earlier one is
  requested from the DPU but stays in the list.
* `NewOperationListed`: the NPU state is populated. An operation reported earlier
  is not listed then or later.
* `NoPanic`: no database error has happened. After one, handlers find no entry.

### Bounds

Every bound is a constant with a name: `MaxId`, `MaxInFlight`, `MaxFaults`,
`MaxGen`, `MaxUpdates`, `MaxRequests`, `MaxSpawned`, `MaxChanges`, `MaxOps`, `MaxDpu`,
`MaxRestarts`, `MaxDbErrors`, `MaxAnswers`, `MaxBreaks`, `MaxEvents`, `MaxTtl`. They are the
smallest with which the interesting cases occur (`MaxSpawned` admits every actor
the run's creator spawns; one less, and it would wait for ever): two messages of one key for a
late response or a resend that overtakes; three generations for a loss while the
reconnect of an earlier loss is being established; queues of two in the edge
runtime, and of one for its creator, so that the cycle of waiting tasks closes; one change after the initial configuration in
every order with the registrations; a restart with an operation listed and
another one pending; four rounds and two breaks for answers of an earlier round,
and messages of an earlier stream, that arrive late; two changes of CONFIG_DB for
a row and a global config that cross, or an exit and a change. `DefaultTtl` is 3 instead
of 64: a route of two swbusds has at most two hops, so expiry only happens in
loops, as it does with 64. `MaxTtl` is 3 as well instead of 2^32 - 1: what wraps
around has ttl enough for every route. `DropTime` is 2 resend periods instead of one hour.
`SendCap`, `RemoteCap`, `HandlerCap`, `LocalCap` and `CreatorCap` are the code's
channel sizes (100, 10000, 1, 10000, 10) made small, so that queues fill up;
`CoreClientProofs` holds for all sizes.

The environment eventually has no changes left, so the passing runs have
`CHECK_DEADLOCK FALSE`. That tasks do not wait for each other for ever is what the
liveness properties say. Symmetry is used in `internal_rollback` only, where keys and
values are interchangeable and only safety is checked.

`actor_state` runs its three parts one at a time (`part` of `MCActor`), as no step of
one reads or writes the state of another. Its fairness is that of `ActorChannel`, the
only part with a liveness property.

### Fairness

* `ActorChannel`: time goes on, the sender's driver finishes its callbacks and
  returns to resends and responses again and again between them (strong fairness,
  as `select!` picks a ready branch at random), and requests that arrive are
  handled or bounced. A receiver that is down need not come back, and messages
  may be lost.
* `MuxConnections`: spawned tasks run on, and a peer that keeps being dialled
  answers at last. Losses, panics and shutdown are free.
* `MuxRouting`: connection workers route what they have received.
* `EdgeRuntime`: some task goes on as long as one can (weak fairness of all of them
  together); nothing is asked of the order in which they are scheduled.
* `CoreClient`: every task of the runtime runs on when it is not waiting, timers
  expire, and a stream whose client end is dropped closes. Nothing is asked of
  swbusd: it may stop reading the stream and never answer. A dial does not fail for
  ever (`MaxBreaks`).
* `DpuNetwork`: hamgrd is restarted by its supervisor, and its bridges and the DPU
  actor go on. Changes of CONFIG_DB, exits and failures to spawn are free.
* `HaScope`: bridges deliver, registrations are answered, the driver goes on and
  hamgrd is started again. Approvals, DPU changes and crashes are free.

## Proofs

TLAPS proves, for every value of the constants that satisfies the assumptions below:

* **`TableProofs`**, of `InternalTable`: `InternalTypeCorrect`, `NoDirtyWriteEver`,
  `RewrittenRestoredAlways`, `CommitCompleteAlways`. The inductive invariant
  (`TableInvariant`) adds to `TypeOK` what the flags mean (`FlagsInv`: in a callback,
  the mutated entries are those it has rewritten, their backups are the values it
  found, and the others still have those values), that rows, backups and cached
  values come from successful callbacks (`CleanInv`), and that the entries a commit
  has done equal their rows (`CommitInv`). `NoDirtyWrite` alone is not inductive:
  it says nothing of the backup that the next rollback brings back.
* **`ActorChannelProofs`**: `TypeCorrect`, `NoUnwrapPanic` (`UnackedHasSent`),
  `AckedMeansDelivered`, `NoMessageForgotten`, `AckNeverWithdrawn`, from
  `ChannelInvariant`: every response in flight that says Ok is to a request the
  receiver has answered, every pending message has been launched and has an entry
  in `sent`, and a message whose entry is acked is not pending, so no late
  response finds it.

  `ChannelDelivers` shows that every step of `ActorChannel` is a step of
  `AtLeastOnce` under the mapping above or a stutter. It needs `RefinementInv`
  besides: a request in flight has an id that was issued, and no two entries of
  `sent` have the same id, so that an ack shows one message only.

  `OrderKept` is the action property `RegressionNeedsResend`. Only the step that
  takes a request can set the receiver back, so the invariant must speak of what
  is in flight: a request that was never resent has a higher id than all requests
  before it and than all the receiver has (`FirstInOrder`). That a request joins
  the others in this order follows from the queue: what is still queued has a
  higher id than anything that has left it (`QueuedLast`).
* **`CoreClientProofs`**: `TypeCorrect` (with the capacity of every channel),
  `SendsOnPublishedAlways`, `OkWasReachedAlways`. `OkWasReached` says nothing of the
  answers still in the queues; the inductive invariant (`CoreInv`) adds that every
  answer between swbusd and the command, and every request swbusd has yet to
  answer, is that of a request that reached swbusd (`AnswersReached`).
* **`DpuNetworkProofs`**: `PeersMutualAlways`, from lemmas about the operators of
  `SwbusConfig`: a configuration is that of some row of its slot (`ConfigOfRow`),
  and whoever has a peer row with slot, port and addresses of a swbusd dials it
  (`RowDials`). `SessionsCurrentAlways`, from the inductive invariant `NetworkInv`:
  of each row that is in a table, either a bridge has still to forward it, or the
  last message about it in the actor's inbox has it as it is, or the actor was
  told so (`BridgesInv`); and the sessions are those of what the actor was told
  (`SessionsInv`). `SessionsCurrent` alone says nothing while anything is on its way.
  `TypeCorrect` needs two facts that `TypeOK` does not state:
  what the inbox carries is one row or none (`RowsInv`), and an exit of hamgrd
  leaves no bridge, no actor and no message (`DownInv`).
* **`TableProofs`**, of `TableBridge`: `TypeCorrect` (of `BridgeTypeOK`), `ViewCurrentAlways`. `ViewCurrent` says
  nothing of a bridge with notifications left to pop; the inductive invariant
  (`BridgeInv`) says what those notifications are good for: the last one about a
  row tells whether the row exists (`Tells`), and of a row that `rehydrate()` has
  read, the bridge has all if no notification is left about it, and no field too
  many unless one of them is a deletion (`Current`). So the merge of a row over
  what the cache has of it (`Over`) gives the row, and a row that is gone when its
  Set is popped has a deletion behind that Set. While the bridge rehydrates this
  is said of the rows read so far (`Held`), not of the cache.
* **`MuxProofs`**, of `MuxConnections`: `TypeCorrect`, `OneDiallerAlways`,
  `RoutesInStepAlways`. `OneDialler` does not say why a second dialler cannot
  appear: a new generation is made by the worker of the last one, which dies in
  the same step. The inductive invariant (`ConnInv`) says what is left of a
  generation when it has a successor (`SuccessorInv`: a dead worker and a task
  that no longer dials), how far task and worker can be apart (`StagesInv`), and
  when a connection is listed (`ListedInv`). `RoutesInStep` is inductive with
  these and `RouteInv`: a task that has still to register its connection could
  otherwise overwrite the route of its successor.
* **`MuxProofs`**, of `MuxRouting`: `RoutingTypeCorrect`, and `NearsEndAlways`, the
  ranking argument behind `Drains` for any number of swbusds, clusters and regions.
  A step takes one message off the bus, and whatever it puts there instead is
  `Nearer` its end: of a lower `Level` (the request, its answers, errors about
  answers, errors about those), or of the same with a lower ttl, or the same
  message past the traceroute answer of its hop. An error has a full ttl again, so
  the ttl alone shows nothing. That the level falls needs the invariant
  (`RoutingInv`): who answers whom (`Parties`: a service only answers the request, or a
  swbusd), and how far a response can be from where it is for (`Underway`: with
  `Gateways`, at its sender, at its end, or at a swbusd with a node route there, so
  that once it has left its sender it neither expires nor lacks a route). What is not proved is that
  each message is routed at last, which is the fairness of the run.
* **`EdgeRuntimeProofs`**: `TypeCorrect`, `ActorFollowsRowAlways` and
  `SpawnedOnceAlways`, through any bursts of changes, for rows of which no update was
  sent while their actor was being created. `ActorFollowsRow`
  says nothing of a row while an update is on its way. The inductive invariant
  (`RuntimeInv`) says where updates of such a row can be: one at most on its way to the
  creator, in its queue or in its hands, and none behind it (`PlaceInv`); of those in
  the router's queue, in the router's hands and in the inbox of the actor, the last one
  is about the row as it is (`FreshInv`). A spawned actor is the one its row's route
  leads to (`RouteInv`), and once nothing is on its way it has the row (`FollowInv`).
* **`HaScopeProofs`**: `TypeCorrect`, `RequestApprovedAlways`, `NoPanicEver` and
  the action property `LeavesListRequestedAlways`. The actor compares ids it holds
  with ids the controller approved, over restarts in between. The inductive
  invariant (`ScopeInv`) says that an id means one operation everywhere and is
  not used again (`IdsInv`); that the internal entry is the row in STATE_DB once the
  bridge for the DPU's state exists, so that a report of the DPU finds it, and that
  until then it has all operations of the row, and the backup that a failing handler
  brings back all of the entry (`EntryInv`). `NoPanic` rests on the latter.
* **`HaActorsProofs`**: `TypeCorrect`, `ConsistentAlways`,
  `DeletedUnregisteredAlways`. Both properties speak of the moments when all links
  are empty. The inductive invariant (`ActorsInv`) speaks of all others: of a
  link's queue only the last message counts, and if it is empty, what the
  receiver has (`Final`). Under it a registration has the value its sender's life
  calls for (`RegisteredInv`); a DPU that no registration is on its way to has
  sent its present state (`DpuStateInv`); a vDPU that has nothing left to hear has
  sent the HA set what it has (`VdpuStateInv`); and what the HA set wrote follows
  from what it was sent (`TableInv`). A new configuration of the HA set does not
  rewrite the route at once; `RouteInv` says that an old route is only there while
  an answer to the new registrations is still to come. Messages to actors that do not
  exist can be given up at any time, so all of this is said of links on which the
  last one was not (`Holds`, `Asked`, `Heard`), and `SpawnInv` that only an actor that
  was never there can have missed it: so no registration of a deleted actor stays.

The assumptions are the named `ASSUME`s of the modules:

* `Empty` is a value, `NoRow` is no row, `"none"` is no key and no role, the
  failsafe is at least one resend period, channels have room for a message, the
  managed row is a key of the DPU table, `Addresses` has every address of a
  loopback or a REMOTE_DPU row, and the bounds are natural numbers (`MaxChanges`
  of `TableBridge` at least one: the rows that are there at the start count as
  the first change).
* `MuxRouting`: the names `"local"` and `"none"` of the next hops that are no swbusd
  are no node's, `DefaultTtl` is at most `MaxTtl`, and at least 3 (64 in the code): a response is at
  most two hops from where it is for.
* `EdgeRuntime`: there is a row key.
* `MuxConnections`: there are finitely many peers, and `MaxGen` admits the
  connect task that each of them gets at the start.
* `HaScope`: there are finitely many types of operations, as the actor gives
  each newly pending one an id of its own.
* `HaActors`: DPUs, vDPUs and the HA set have different names; an HA set has two
  vDPUs, and those it prefers are among them (`VdpusAssumption`, stated of what
  `get_vdpus` returns). The code takes both for granted: it reads `vdpus[1]`, and
  a comment says that the preferred vDPUs are followed by the backups.

TLC finds each inductive invariant to hold on the instance of its module's run.

Only model-checked: all liveness properties, which are out of TLAPS' reach under
fairness: `Settles`, both `Drains`, `Answered`, both `Reconnects`, `CommandEnds`,
`ApprovedLeavesList`, `NewOperationListed` and `EventuallyMonitored`. The refinement
`ChannelDelivers` is that of the safety part.

## Not modelled

* `container`: its commands (start, stop, kill, wait) call docker, read and write
  Redis and keep nothing themselves; what a second command finds is the state of
  docker and Redis.
* In `DpuNetwork`: the two bridges of the managed DPU actor that bring the DPU's
  health, whose effect is in `HaActors`; a change of the row of another slot while
  hamgrd runs, which only that row's own actor reads; malformed addresses.
* The YAML file from which swbusd and swbus-cli can take their configuration
  instead of CONFIG_DB: it is read as it stands, its endpoint giving the NPU address.
* Management requests of actors, route export, the command line's output, path
  parsing, serialization (`swss-serde`, `sonicdb-derive`), logging
  (`sonic-common`) and generated code, which have no state or only report it.
* The lock of the DashMap that `route_message` holds over an await; it is the
  library's, and which shard two keys share is not determined by the code.
