# Rotonda in TLA+

Rotonda collects BGP routes from BMP routers, BGP speakers and MRT files, keeps
them in a RIB, validates their origins, and passes them on to targets and to
downstream BMP collectors. This directory specifies the parts of it in which
tasks share state or a component keeps state over several steps. TLC checks the
modules on small instances; TLAPS proves every safety invariant of the runs for
instances of any size.

All source paths below are relative to `src/src/`.

## The system

A running Rotonda is a pipeline of *units* and *targets* joined by *gates* and
*links*, put together by the *manager* from a configuration file. With a direct
link the sender awaits the receiver (`Gate::update_data`, `comms.rs`), so an
update passes through all units downstream before the task that produced it goes
on. There are as many such tasks as there are sessions.

| Part | State | Operations | Meets |
|---|---|---|---|
| ingress register (`ingress/register.rs`) | id -> info (type, parent, key, state), a counter | register, update_info, find-and-claim, remove, remove_if_disconnected | every ingress unit, RIB, bmp-tcp-out |
| peer statistics (`ingress/peer_stats.rs`) | per id: counters, gauges per family, an aggregate | count, clamp, reset, snapshot | bgp-tcp-in, bmp-tcp-out |
| bmp-tcp-in (`units/bmp_tcp_in`) | router_states, one state machine per connection, its peer states | accept, Initiation, Peer Up/Down, Route Monitoring, Statistics, Termination, re-key, teardown | register, gate |
| bgp-tcp-in (`units/bgp_tcp_in`) | live_sessions, session numbers, the configuration | accept, SessionNegotiated, UpdateMessage, ConnectionLost, collision, abort, cleanup, reload | register, gate |
| mrt-file-in (`units/mrt_file_in`) | queue of files | enqueue, replay record by record | register, gate |
| rtr-in (`units/rtr`) | connection and retry state, the VRPs | connect, reset, serial update, retry | gate |
| rib unit (`units/rib_unit`) | prefix store, withdrawn flag per id, sweep set, VRP cache, slots for dumps | insert, withdraw (per prefix, per id), reactivate, remove, sweep, walk, validate, search, dump | all producers, HTTP, bmp-tcp-out |
| bmp-tcp-out (`units/bmp_tcp_out`) | clients; per client phase, buffer, known peers, header cache, queue, disconnect flag; the aggregator of a dump | connect, dump, walk, pack, replay, go Live, live update, write, disconnect, terminate | gate, register, RIB |
| gates and links (`comms.rs`) | slots, clones, command channels | subscribe, unsubscribe, clone, reconfigure, terminate, update | everything |
| manager (`manager.rs`) | running components, prepared gates, start-up barrier | load, spawn, reconfigure, terminate | everything |
| targets (`targets/`: mqtt, file, null) | queue, connection, buffered writer | enqueue, publish, reconnect, write, flush | gate |

What is hard about it, and hard to test:

* an id outlives its session. It is marked, claimed again, withdrawn and swept by
  different tasks, each holding the register's lock only for one step;
* withdrawal in the RIB has two levels, a status per record and a flag per id
  that hides all records of that id at once. One insertion clears the flag;
* a collector is brought up to date from a walk over a RIB that is changing, from
  updates buffered meanwhile, and from live updates, by different tasks;
* the validation of routes reads records, computes and writes them back while
  route updates change them;
* a reload replaces command channels while commands, subscriptions and clones are
  under way;
* locks, bounded queues and buffers: who waits for whom, and what is given up
  when one is full;
* tasks are aborted, connections overlap, teardowns are late.

`PROJECT.json` lists these as hazards at the lines where they bite, with the
properties that watch them.

## Modules

| Module | What it is |
|---|---|
| `RibStore` | the prefix store as `rib.rs` uses it: records per (prefix, id), the withdrawn flag per id, compaction under `retain_withdrawn_attributes = false` |
| `BmpStream` | abstract: what a collector may legally see on one BMP connection |
| `BmpOut` | bmp-tcp-out with one collector, on top of `RibStore`, with the peer sessions and the register that feed it |
| `Aggregator` | the dump of bmp-tcp-out on the wire: `RouteAggregator`, attributes, headers, message lengths |
| `BmpSessions` | the connections of BMP routers, the register, the RIB and the sweep |
| `BmpMachine` | the BMP state machine of a connection: its states, peer states and End-of-RIB markers |
| `BgpSessions` | the connections of one BGP speaker, the register, live_sessions, statistics and the RIB |
| `BgpConfig` | the configuration of bgp-tcp-in and what a reload does to the sessions there are |
| `PeerStats` | the gauges of a BGP peer, the sessions that count and the emitter that reports |
| `RibQuery` | searches and dumps of the store while it changes, and the slots for dumps |
| `Rov` | rtr-in, the VRP cache, `check_rov` and the validation of stored routes |
| `Gate` | a gate with its clones, links and agent |
| `Manager` | the manager, the coordinator of the start-up, and the signal loop |
| `MqttTarget`, `FileTarget`, `MrtIn` | the targets with state, and mrt-file-in |
| `MCBmpOut` | a symmetry for TLC |
| `MCPipeline` | `Gate`, `Manager`, `MqttTarget`, `FileTarget`, `MrtIn`, `BgpConfig` for TLC |
| `MCRoutes` | `Rov`, `BmpMachine`, `RibQuery`, `PeerStats`, `Aggregator` for TLC |
| `*Proofs` | theorems and their proofs, see below |

`MCPipeline` and `MCRoutes` hold components that share no variable. A variable
(`part`, `side`) chosen in the initial state says which of them is run; the
others stay where they start. One run then asks the questions of each of them
without multiplying their states.

### RibStore

`active[p]` are the prefixes whose record for id `p` has status Active,
`withdrawn` the ids whose flag is set, and `Visible(p)` what a reader sees. The
operators follow `insert_prefix` (`InsertActive`, `InsertWithdrawn`),
`withdraw_for_ingresses`, `mark_ingress_active` and `remove_for_ingresses`. The
prefix tree is in the crate rotonda-store and appears by how `rib.rs` uses it.
An insertion is one step although the code tests and clears the flag first: the
task of a session awaits each of its updates, so two updates of one id meet only
when two sessions share it.

### BmpOut

One collector, from its connection to the moment it is gone, and any number of
peers. Three kinds of process:

* a *session* per peer (`sess[p]`): it changes the register, pushes an update,
  the rib unit applies it (`RibApply`), `direct_update` takes the clients
  (`Snapshot`), buffers or finds the client Live (`Deliver`), and sends the one or
  two messages of the update with try_send (`LiveSend`). BGP sessions then
  delete their register entry (`BgpCleanup`); entries of BMP peers stay until
  the sweep (`GcReclaims`);
* the *dump task* (`dump`): Initiation, Peer Up for each Connected peer, the walk
  (keys first, then the records of each key, packed by the `RouteAggregator`),
  End-of-RIB, and then batches from the buffer until it is empty, at which
  point the client is Live. Its sends wait for room. Without a RIB it replays one
  batch while it holds the phase lock;
* the *writer task* (`writer`): queue to socket; leaves the registry when the
  disconnect flag wakes it or a write fails.

`runner` is the accept loop of the unit, which on termination keeps the lock on
the clients while it sends. The collector is the triple `up`, `view`, `faults` of
`BmpStream`; it is updated when a message is enqueued, because queue and TCP keep
the order, and `qlen` counts what is in between. `known`, `cache`,
`dumpBuffer`, `pending`, `permit` are the fields of `ClientState`.

### Aggregator

The blocking task of a dump hands route after route to `RouteAggregator::add`,
which packs prefixes with equal header, family and attributes into groups keyed
by a hash. A group is sent when the next prefix no longer fits, when one with the
same hash and other attributes displaces it, when the memory budget is exceeded
(the largest first) or at the end (`flush_all`). The attributes of a route are a
sequence of records of kind and length, filtered and rewritten as
`filter_pa_from_raw` and `normalize_mrt_mp_reach` do; a message is what a
collector can read back from it. `Expected(r)` is what it should read for `r`.
An MP_REACH_NLRI that comes in a table dump in the form of an UPDATE is read as
one without a next hop and loses it, as in the code; `Legible`, under which
`RoutesConserved` is proved, leaves such tables out. A single route that exceeds
the length field is dropped with a warning, which is what a release build does
where a debug build stops at an assertion (`bmp_builder.rs:1060`).

### BmpSessions and BmpMachine

`BmpSessions` has connections of BMP routers that use the same names and headers.
An action is a stretch of a handler between two points at which another task can
see or change the register, `router_states` or the RIB: `Accept`; `Initiate`
(claim or name); `Rekey`; `PeerUp`; `RouteMonitoring` with the peer state
synthesized from a sibling; `PeerDown` and `Termination`; and the teardown
`Close`, `Flip` (one peer at a time), `WithdrawAll`, `Unmap`. `RibApply` is the
rib unit at work on the update a connection is waiting for. The sweep is
`GcSnapshot`, `GcPeers`, `GcStore`, `GcRouters`, in the steps of
`gc_disconnected_bmp_peers`.

`BmpMachine` has the same messages for one router, and what they do to the state
(Initiating, Dumping, Updating, Terminated), to the table of peer states, to the
width of AS numbers updates are parsed with and to the markers still owed (`owes`).
An UPDATE may announce several families, of which the code notes only that of the
first announcement (`machine.rs:1050`). The history variable `due` collects what
has been announced and not ended, `behind` the part of it that was announced only
behind another family.

### BgpSessions, BgpConfig and PeerStats

`BgpSessions` has all connections of one speaker. SessionNegotiated is six steps
in the code between which other tasks run: `Negotiate` (take over an entry),
`Collide` (take the old session out of live_sessions), `Replace` (abort it),
`Evict` (remove its entry), `Insert`, `MarkConnected`. `End` and `Cleanup` are the
two halves of the teardown with the withdrawal awaited between them; `Abort`
drops a task where it waits, with or without the update it was pushing. The
history variable `crossed` collects the connections that began to negotiate
before another had finished.

`BgpConfig` has the listener, the look-up of a peer by the longest matching key
and, per connection, the command queue of its clone of the gate, through which its
task hears of reloads. A reload that finds the queue full is dropped for that
clone; `missed` remembers that the latest one was.

`PeerStats` takes each access to the aggregate (an atomic) and to the families
(behind a lock) as a step, of the sessions that follow each other under one id
and of the emitter. `mixed` remembers that a session that had been replaced
still counted.

### RibQuery and Rov

A reader of `RibQuery` is a task with a program counter: take a slot by
compare-and-swap, copy the register, collect the keys, fetch node by node into
chunks, emit, give the slot back; or search, which is one read of the store here and one
call of `match_prefix` in the code: that the store walks its tree while others
write to it is left out. Meanwhile routes are inserted and
withdrawn, ids are flagged and compacted, peers enter and leave the register.
Histories record, per reader, what has been visible at some time or all the time
since its request.

`Rov` has the server, the RTR client (`upd`, the verbs of the update it works off),
the cache in the two forms the code keeps (origins and maximum lengths), the walk
over all routes after a reset, the validation of the routes a serial update
touches, and the insertion of a route with the check before it (`job`). `lost`
remembers that a record was written back over a newer one, `excused` the races
between checking and inserting that the code leaves open.

### Gate, Manager, targets and mrt-file-in

`Gate` numbers the command channels of a gate by generation, since a
reconfiguration replaces the channel. Links subscribe and unsubscribe through it,
clones attach, detach and are told of changes through queues of their own, from
which commands are dropped when they are full. Tasks spawned to send a command
are in `tasks`.

`Manager` knows an instance of a component by its name and the round that started
it. `Hup` is a whole `load` and `spawn`: parse, compile, prepare gates, keep,
reconfigure, start and terminate. An instance connects its links, waits at two
barriers, runs, and takes over a new gate and links when it is told to. `early`
collects components whose Reconfigure was dropped by `process_until` or overtaken.

`MqttTarget` has the bounded queue, the New/Running/Stopped life of the connection
and the cancellation of its future by `select!`. A retry delay of zero panics the
connection (`LoopPanics`) and a source that is gone at a reconfiguration ends the
target (`MqttSourceGone`, an unwrap), both as in the code. `FileTarget` has the
buffered writer, its timer, and a disk that may fail for a while: a failed write or
flush keeps part of the buffer and loses part, as tokio's `BufWriter` over its
`File` does. `MrtIn` has the queue of files and the task that works them off, which
a RIB entry with an index outside the peer table ends by a panic (`RibStray`).

## What TLC checks

| Run | Instance | Shows |
|---|---|---|
| `bmp_peer` | one BMP peer, one prefix, buffer and queue of one | the collector converges to the RIB, sees a legal stream, nothing of an earlier session comes back; a flagged client leaves, a dump ends; the inductive invariant of the wire |
| `bgp_peer` | one BGP peer, two prefixes, retained attributes, queue of two, termination | convergence with packed messages and deleted entries |
| `no_rib` | a BMP and a BGP peer, no RIB | known peers are those the collector has, nothing stranded in the buffer, no session held up by the phase lock |
| `sessions_overlap` | two connections of one router, one header, three ids | no id has two users, no id in use is marked or swept, the sweep reclaims what stays Disconnected |
| `sessions_sequential` | two connections one after the other, two headers, four ids | the RIB shows what the current connection announced, one entry per identity, `router_states` is right |
| `bgp_restart` | three connections of a restarting speaker | the live session keeps entry and statistics, nothing leaks, no stale routes, aborted tasks go |
| `pipeline` | `MCPipeline`: see the bounds | connected links are served, connecting returns, clones end with their gate; components start together, start-up and termination complete, configurations are followed; BGP sessions stay configured and dropped peers leave; MQTT terminates, records reach the file once the disk works and are lost only by a fault, MRT files are replayed up to one that ends the task |
| `routes` | `MCRoutes`: see the bounds | validation follows the server and settles; answers are faithful and slots counted; gauges agree; the aggregator conserves routes and accounts for octets; a BMP dump counts as finished only when the markers the code waits for have come |

Four runs are expected to fail. Each states what a comment in the code says, and
TLC finds the behaviour that contradicts it:

| Run | The comment | What the code does |
|---|---|---|
| `stuck_termination` | holding the clients' lock across an await deadlocks the writer's cleanup (`bmp_tcp_out/unit.rs:335`) | termination does that (`unit.rs:546`) |
| `sessions_late_withdraw` | a stale session cannot withdraw a live session's routes (`ingress/register.rs:614`) | ids are marked before the last WithdrawBulk, so it can |
| `bgp_stale_routes` | stale routes of the previous session are withdrawn (`bgp_tcp_in/router_handler.rs:472`) | with retained attributes, the default, the next announcement uncovers them again |
| `clone_after_reload` | process() fails only when all links and agents are gone (`comms.rs:369`) | a clone made after a reconfiguration attaches through the old channel, and its process() fails at once |

Every property of a passing run has a mutant in `PROJECT.json`: a plausible
mistake in one definition (marked "Mutant" in the modules) under which TLC finds
the property violated.

### Bounds

* One prefix distinguishes present from absent; a second is used where one
  route may uncover or be packed with another. Prefixes are interchangeable in
  `BmpOut`, and `bgp_peer`, which checks safety only, uses that as a symmetry.
* A buffer and a queue of one element make "full" as frequent as "empty" and
  force every ordering of producer and consumer. The sizes are constants, and the
  proofs hold for all of them.
* Ids in `BmpSessions` are never reused after removal, so their number bounds
  the length of a run. Three allow two connections, a claim and a peer;
  with four the second connection also brings a sibling.
* `sessions_overlap` has one header, since its liveness property is what costs
  time: overlapping connections that synthesize a peer from a sibling are not
  in this instance. For `UniqueOwner` and `OwnedConnected` the proofs cover any
  number of headers; `DisconnectedReclaimed` is checked with one header only.
* Three BGP connections are needed for a teardown to meet a takeover that meets
  another takeover. Each connection is used once.
* `Overlap` and `Restart` say how a remote side behaves: whether a router
  reconnects before its old connection is torn down, and whether a speaker
  stops using a connection before it opens another.
* `pipeline`: one link and one clone through a reload with a queue of two; two
  units and a target under five configuration files (a rib between input and
  mqtt; the rib removed and a file target; an unresolved link; a parse error; a
  compile error), two loads; queues of one for MQTT, with three messages, and the
  file target, with two batches of one or two records, so that full, empty, cut
  off and a partial loss all happen; a queue of six MRT files, among them table
  dumps, an update file, a broken and an absent one and one whose entry has no
  peer; two speakers, a key
  for one and a key for both, four configurations of the unit and two reloads,
  which is enough to remove a peer and to bring it back changed, but not to
  remove it a second time, with a queue of one so that a reload is dropped
  (`SessionsConfigured` is proved for any number of reloads and any queue,
  `BgpDroppedPeersLeave` is checked for two and one).
* `routes`: a covering and a covered prefix with a VRP each, two origins, two
  changes at the server, one reset after the first; two peers with two
  views, two families and six messages on two connections; two nodes, two ids, two
  readers over HTTP for one slot, a collector and a search, of which up to three
  are at work, or one with up to two changes of the store or the register under
  it; two
  families, two sessions and two updates; for the aggregator two upstreams with a
  session to the same neighbour and a table dump, attribute lengths at which two
  prefixes just fill an UPDATE or do not fit (4064, 4065), that are long (5000) or
  longer than a length field (65600), lists of equal length that hash alike, and
  a budget that two groups exceed. The readers over HTTP are interchangeable, and
  so are the monitored peers (`RoutesSymmetry`). The constraint `RoutesBound` leaves
  out what nothing depends on or the proofs cover: a listener that is bound anew
  while its connection goes on, and changes of the store under more than one
  reader, who share only the slots.

### Fairness

Weak fairness for each task that can go on, which is what tokio's scheduler
gives: sessions, dump and writer task, handlers, the rib unit, the timer that
starts the sweep, the steps by which a gate, an instance, a target or the MRT
reader goes on, and the passing of a second for the file target. Strong fairness
only for the terminating runner of `BmpOut`, which waits in the fair queue of a
tokio channel for room that comes and goes. `Abort` has a condition of its own,
since an aborted task is dropped at its next suspension point. Nothing obliges a
peer to send, a connection to close, a collector to connect or read, a reload to
come, or the unit to terminate. `MCRoutes` states no fairness: its properties
are safety properties.

## What is proved

Every invariant of a passing run, and the two action properties that state
safety (`LegalStream`, `DumpFinished`), for every value of the constants. The
assumptions on them are the named ASSUMEs of the modules: bounds and sizes
are naturals, options are Booleans, sets that are counted are finite, marker
strings are no elements of the sets they are used with, names of units and
targets differ (`ManagerAssumption`), configurations, VRPs and input tables are
well-formed. No assumption limits the length of a run: the bounds that keep
TLC's instances finite are constants of any value. Theorems that need an
option to have a certain value say so in their statement.

**`BmpOutProofs`**

* `TypeCorrect`: types; buffer and queue never exceed their limits.
* `WireInvariant`: the inductive invariant `WireInv`, which TLC checks too. Five
  parts: how far the tasks have got relative to each other (`Stages`), which
  updates a session may push given the register (`Feeding`), that nobody has
  heard of an unregistered peer (`NothingUnseen`), how the dump's sets relate to
  the wire (`DumpedPeers`), and that known peers are up and the converse unless
  the client is lost (`Mirrored`). `KnownMatchesWire` alone is not inductive: that
  a live message keeps it needs the cache to be right, that the dump
  establishes it needs the dump's sets, and that a failed send does no harm
  needs the precise meaning of `Lost`.
* `KnownPeersCorrect`, `CacheCorrect`, `DrainCorrect`: follow from it.
* `StreamRefinement`: BmpOut implements `BmpStream`, variables of the same name
  being mapped to each other. Every message sent is a legal step of the abstract
  stream and every other step a stutter.
* `NothingComesBack`: `StoreInv` says what the store shows of a peer given what
  its session has announced and has yet to have applied. Needs `NoneRetained`:
  with retained attributes a BMP peer that comes back shows the records of its
  last session, as `bgp_stale_routes` finds for BGP sessions on a kept entry. The
  BGP peers of `BmpOut` get a new entry each time, so for them either setting will do.
* `CollectorsConverge`: an argument for each prefix. The updates that concern it
  stand in line: the one in hand, the batch being replayed, the buffer, the
  session's own. The last of them agrees with the RIB. If there is none, the
  collector together with the records the dump has fetched and not yet sent
  agrees with it, or the walk has still to read the prefix. Each action moves an
  update one place on or reads the record, and with all places empty the
  collector has what the RIB has. Assumes a RIB (`HasRib`) and `NoneRetained`.

**`BmpSessionsProofs`**

* `OwnershipInvariant`: the inductive invariant `OwnInv`. For each connection:
  its provisional id's entry is a router without a name, its router's is
  Connected, the entry of a peer it works with is Connected and has its header as
  key, and an update that can revive an entry is about its own ids. And no two
  connections use one id. `StepOwn` reduces each action to what it does to its own
  connection and to a set of entries nobody else uses; `NotInUse` says which
  entries those are.
* `OwnersUnique`, `OwnedStayConnected`, `SessionsTypeCorrect`: follow from it.

**`BmpRoutesProofs`**, for routers that do not open a connection before the last
one is torn down (`~Overlap`; with overlap TLC refutes these properties)

* `IdentityInvariant`: `IdInv`. One connection is up at a time, its peers are filed
  under the router's entry, only what it uses is Connected, so that a claim finds
  the entry of the identity and no second one is made.
* `SessionsAreMapped`, `IdentitiesAreUnique`: follow from it.
* `RoutesAreTheSessions`: with `RouteInv`, which says for each id what the RIB
  shows given the update under way, also that the RIB shows what the connection
  announced. Assumes `~RetainAttrs`, see `bgp_stale_routes`.

**`BgpSessionsProofs`**

* `LiveInvariant`: the inductive invariant `LiveInv`. As long as connections
  negotiate one at a time, live_sessions is empty from the removal of the old
  session to the insertion of the new one, and names the connection that is about
  to mark its entry. So the entry that is evicted is not that of the live
  session, and a late teardown is stopped by its second look at live_sessions.
* `LiveStaysRegistered`, `BgpTypeCorrect`: follow from it.
* `NothingIsLeft`: when all connections are gone, so are their entries, statistics
  and routes. `LeakInv` names for each of them the task that has still to
  remove it. Assumes `Restart`: a speaker that goes on using its old
  connection can have a late announcement applied after the abort.
* `OldRoutesGone`: the routes shown are the live session's own. Assumes
  `Restart` and `~RetainAttrs`.
* `SessionsStayConfigured` (`BgpConfig`): `ConfigInv` relates the configuration a
  session was accepted under, its command queue, and what the unit has in force.
  It says nothing of a session whose queue was full at the latest reload.

**`PipelineProofs`**

* `LinksAreServed` (`Gate`): a connected link has a slot in the gate it believes it
  is connected to. `LinkInv` has to say where subscriptions and unsubscriptions
  are: in a channel, in the queue of a clone, with a task. The point of the
  argument is that one that arrives late carries an older generation than the
  link has and so harms nothing.
* `ComponentsStartTogether` (`Manager`): no component runs before all of its round
  have passed the barrier (`BarrierInv`).
* `FollowInvariant`, `ConfigurationsAreFollowed` (`Manager`): a component in charge
  has taken over the links and gate of the last round, or the Reconfigure that
  tells it to is on its way and nothing drops or overtakes it; one whose links are
  connected is served by gates of that round, which stay. `FollowInv` was checked
  by TLC with two and with three rounds first.

**`RovProofs`**

* `RovFollowsTheServer` (`Rov`): between updates `check_rov` fails no route that the server's
  VRPs authorise, and until a second reset it says exactly what RFC 6811 says of
  them. `CacheInv` relates the cache in its two forms to the server's VRPs and
  the verbs of the update in hand.
* `StatusesSettle` (`Rov`): once nothing is under way, stored statuses are those that
  `check_rov` gives now, and validation changes nothing else of a record. By
  `StatusInv` and `ContentInv` a route's status is right, or a walk or a validation
  has still to reach it, or a race the code leaves open has been recorded
  (`excused`, `lost`). Assumes `HasFilter`: without the filter nothing takes the
  lock between check and insertion.
* `DumpsEndComplete` (`BmpMachine`): the step from Dumping to Updating is taken
  only when nothing is still to be ended but families that were announced only
  behind another one in an UPDATE. That exception is needed: the comment on
  `Dumping` (`dumping.rs:39-46`) has the dump end when all peers able to send
  End-of-RIB have done so, and without the exception TLC finds a dump that ends with
  the second family of an UPDATE not ended.

**`QueryProofs`**

* `AnswersAreFaithful` (`RibQuery`): an answer has all routes that were visible
  throughout and none that never was. The invariant says where each such route is:
  still to be visited, in the chunk, or, if it passes the filter, written.
* `SlotsAreHeld` (`RibQuery`): the count of dumps in flight is the number of readers
  that hold a slot, and within the limit.
* `GaugeInvariant`, `GaugesAreConsistent` (`PeerStats`): the aggregate of the routes
  in Adj-RIB-In is the sum over the families, unless a session counts that has
  been replaced. `Balance` says by how much they differ at each step of a session.
  A sum is taken as the cardinality of a set of counted units, since sums over sets
  are defined by recursion and the provers cannot do induction over data.

**`AggregatorProofs`**

* `AggregatorInvariant`, `SizesAreAccounted`: groups are well-formed,
  the octets charged are those of the groups held and within the budget when `add`
  returns, every message states its length, and one made of several routes is within
  4096 octets.
* `ConservationInvariant`, `RoutesAreConserved`: what a collector reads
  back from the messages and the groups not yet sent is what the routes added so
  far should read as; at the end nothing is missing but what is too long for any
  message. Assumes `Legible`, which says what can be told back from a table: only the last
  attribute of a list may be cut off, the MP_REACH_NLRI of an IPv6 route is whole,
  in the format of its source and with one next hop, and two peers with a route to
  the same prefix have different headers. `MCLegible` has TLC check that the
  tables of the run satisfy it.

Only model-checked are the liveness properties, since TLAPS 1.4.5 proves neither
ENABLED nor arguments from fairness: `AbortedGone`, `FlaggedClientLeaves`,
`DumpEnds`, `IngestProgresses`, `DisconnectedReclaimed`, `GateConnectReturns`,
`GateClonesEnd`, `ManagerStartupCompletes`, `ManagerTerminateReturns`, `MqttTargetTerminates`,
`FileRecordsWritten`, `MrtFilesReplayed`, `BgpDroppedPeersLeave`. `MqttTarget`, `FileTarget`
and `MrtIn` have liveness properties only, and so no theorems. Induction over data and
RECURSIVE operators are out of the prover's reach; no module uses RECURSIVE.

`BmpRoutesProofs` extends `BmpSessionsProofs` for the invariant it builds on; the
other proof modules stand alone. `BgpSessionsProofs`, `PipelineProofs`, `QueryProofs`
and `RovProofs` each hold the proofs of two modules that share no state. Leaves
that a loaded machine may not prove in the default time name a longer limit, or a
second prover to try when the first has not answered.

## What is not modelled

Formatting and parsing of messages beyond what `Aggregator` and `BmpMachine` tell
apart, the roto filters (taken to accept, their default, but for the VRP filter
of `Rov`), metrics, logging, tracing, the TLS set-up of bmp-tcp-out, and of
the HTTP API all but the queries of the RIB. Several collectors of bmp-tcp-out
share the lock on the registry of clients and nothing else. Timers and deadlines
appear as steps that may happen at any time. `PROJECT.json` gives the reason for
each part.

Known limits of the models:

* all headers of a `BmpSessions` connection belong to one monitored peer, and
  `BgpSessions` has one speaker;
* the abort handle of a BGP session is taken to be stored before the session
  negotiates (`bgp_tcp_in/unit.rs:756`);
* no crash is modelled, since nothing is persisted;
* in `BgpConfig` reloads alone fill the command queue of a clone; the other
  commands a gate passes on share it in the code;
* `NothingResurrected` and `SessionRoutes` are checked and proved with no retained
  attributes; with them, `bgp_stale_routes` shows what happens;
* `SessionMapped` and `IdentityUnique` hold, and are checked, for connections that
  follow each other: the look-up of an entry and its claim by two connections at
  once are covered by `UniqueOwner` only;
* a peer's records in `RibStore` carry no attributes; attributes are in
  `Aggregator`, `RibQuery` and `Rov`, which each have a store of the form they need.

Open races the models make visible and the properties except, each by a history
variable or a constant named above: two BGP connections that negotiate at once
(`crossed`), a replaced BGP session that still counts (`mixed`), a record written
back over a newer one by a validation (`lost`), a route checked before a reset or
updated during a walk (`excused`), a Reconfigure dropped during start-up or
overtaken by the next (`early`), a reload dropped at a full queue (`missed`), VRPs
that stay in force after a second reset (`fulls`), overlapping BMP connections
(`Overlap`). What a property excepts it does not catch: the notes of the hazards in
`PROJECT.json` say where that is so.
