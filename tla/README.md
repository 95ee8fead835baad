# TLA+ models of the distributed key-value store

This directory holds TLA+ modules for the store in this repository, the TLC
configurations that check them on small instances, and proofs that TLAPS checks
for every size. Everything is translated from the C++ sources (`src/`,
`include/`) and from `scripts/start_nodes.sh`; `design.md` describes a larger
system than the code (hinted handoff, a membership service, background
migration) and is used only where it states what the program is supposed to do.
`PROJECT.json` lists the runs, the lines each definition stands for, the hazards
and the findings.

    tlc -workers 2 -config GossipRestart.cfg MCGossip      # one run
    tlapm GossipMembership_proofs.tla                      # the proofs of one *_proofs module

## 1. The system

A cluster is a fixed set of server processes named in `config/config.json`.
Clients talk to servers by RPC (Thallium); servers gossip among themselves.

| Part | State | Operations | Talks to |
|---|---|---|---|
| `GossipMembership` (every server) | `member_table_`, `running_`, `last_alive_set_`, generation file, a gossip thread | constructor, `start`, `stop`, `mergeView`, `gossipLoop`, `doGossipRound`, `detectFailures` | the same class on other servers by `gossip_exchange`; the server's ring by the change callback |
| `main_server` | shutdown flag, the engine | construction in a fixed order; shutdown watcher: `stop()`, `Sync()`, `finalize()`; `_exit` on a second signal | all of a server |
| `KVServer` | none | handlers `kv_fetch`, `kv_insert`, `kv_update`, `kv_delete`, `gossip_exchange`, `get_membership` | `KvStore`, `GossipMembership` |
| `KvStore` | a map in a shared memory segment or mapped file, a named mutex | construction, `Insert`, `Update`, `Delete`, `Find`, destruction | other processes on the machine that map the same segment |
| `ConsistentHashRing` | the sorted tokens | `rebuild`, `getPrimaryNode`, `getBuddyNode`, `getKeyRanges`, `getKeyRangeAssignments` | |
| `KVDistributor` (client) | `node_to_ip`, `hash_ring`, `ring_mutex_` | `get`, `insert`, `update`, `deleteKey`, `fetchMembershipFromServer` | `KVClient` |
| `KVClient` (client) | none | one RPC per operation, 2000 ms timeout | `KVServer` |
| `main_client` | a membership thread, the command loop | commands; a refresh of the membership every 10 s | `KVDistributor` |
| `start_nodes.sh` | | starts a server, waits for it, cleans its directory | |
| `MurmurHash3`, `Config`, `Timer` | none | pure functions, JSON, printing | |

What is hard about it, and what makes each part correct:

* **Gossip.** Two threads and the RPC handlers share the table and let go of its
  mutex around every exchange; exchanges are lost, executed after their caller
  gave up, and reordered; servers crash, and come back with a new generation.
  Correct means: records only move forward, nobody invents or outdates a record,
  a server is never talked out of its own life, an announced departure stands,
  the ring follows the table, and a shutdown ends.
* **Ring.** Positions wrap at 2^32, hashes collide. Correct means: every process
  with the same live set computes the same primary and a different buddy, and a
  change of the set does to each key what replication and fallback rely on.
* **Replication by clients.** A write is two independent RPCs, their failures are
  swallowed, each client routes by a ring of its own that lags, several clients
  write at a time, and a client works directly on the store of a node that is
  local to it. Correct means: a read finds what was written and does not find what
  was deleted, and the replicas of a key come to rest together.
* **Storage.** Several processes work on one map; any may die, even inside the
  critical section, and a server may be started anew under the clients' feet.
  Correct means: the operations are atomic, a server never shares its map with
  someone under another mutex, it is not blocked by the dead, and in persistent
  mode the data survives.

## 2. Modules

| Module | Models | Uses |
|---|---|---|
| `GossipMembership` | `GossipMembership.cpp` on all servers, the network between them, their starts, stops and crashes | |
| `GossipMembership_proofs` | theorems on its states and on its steps | `GossipMembership`, `TLAPS` |
| `GossipDetection` | failure detection in time: what all servers make of one of them | |
| `GossipDetection_proofs` | theorems | `GossipDetection`, `TLAPS` |
| `RingOperators` | the ring as operators: how it is built and searched, and the key ranges | |
| `RingOperators_proofs` | lemmas: what these operators compute | `RingOperators`, `TLAPS` |
| `ConsistentHashRing` | a ring object rebuilt from changing live sets, for every assignment of hashes | `RingOperators` |
| `ConsistentHashRing_proofs` | theorems | `ConsistentHashRing`, `RingOperators_proofs` |
| `KeyValueMap` | abstract: an atomic map; an operation takes effect at one moment between call and return | |
| `KVDistributor` | clients with `KVDistributor` and `KVClient`, the connections, `KVServer`'s handlers, crashes of servers, ring refreshes | `RingOperators`, refines `KeyValueMap` |
| `KVDistributor_proofs`, `KVReplicas_proofs`, `KVReads_proofs` | theorems: its types; why the two copies of a key agree, and the refinement; what reads find while nodes come and go | `KVDistributor`, `RingOperators_proofs` |
| `KvStore` | the storage of one node, its server's incarnations and the clients on the machine | refines `KeyValueMap` |
| `KvStore_proofs` | theorems | `KvStore`, `TLAPS` |
| `MCGossip`, `MCDetection`, `MCDistributor`, `MCStore` | values for TLC | |

### GossipMembership

`table[n]` is `member_table_`, without endpoints (an endpoint is determined by the
id); `Absent` stands for a missing entry. `pc[n]` has the place of two threads:
*main* (constructor, `start()`, later the shutdown watcher in `stop()`) and *loop*
(`gossipLoop()`). `call[n][t]` is the exchange thread `t` is blocked in, `late` the
requests whose caller gave up but that are still under way, `ring[n]` is
`last_alive_set_`, which is what the server's ring was last built from, and
`disk[n]` the generation file. `farewell` is a history variable: the heartbeat of
the mark `stop()` made.

One action is one critical section of `mutex_`. `start()` is `Start`, then for
each seed `ContactSeed` (snapshot and send) and `SeedReply` (overwrite), then
`Started`; one turn of the loop is `Wake`, `Beat` (heartbeat and
`detectFailures()`) and a gossip round, `NoPeer` or `RoundSend` then `RoundReply`;
`stop()` is `Stop`, the same round, and `Leave` when the loop has been joined.
`Serve` is the handler, `GiveUp` the timeout, after which the request is lost or
executed later by `ServeLate`. `Crash` may strike anywhere. There is no clock: an
entry's age at each `detectFailures()` is chosen among below, between and above
the thresholds, which covers every timing of the real one.

### GossipDetection

`mergeView()`, `doGossipRound()` and `detectFailures()` treat the entries of a table one
by one, so one server, the `Subject`, is watched alone: `entry[n]` is what `n` holds of
it, with the age `now - last_updated_ms` in ticks, `hb` its heartbeat counter. The gossip
thread of every server is there, as `Beat` (the sleep is over: own heartbeat and
`detectFailures()`), `Send` or `Skip` (`pickRandomPeer()`), `Serve` (the peer merges and
answers), `Reply` and `GiveUp`. `Tick` lets time pass when nothing is due; a sleep takes
`gossip_interval_ms_`, an exchange at most as much, and the threads start out of step.
`cluster` is chosen once and holds the members, the three times of `config.json`, and
whether exchanges may be lost and the subject may die. Whether the other servers hold
each other ALIVE is not kept: a server may contact any of them, or none.

### RingOperators and ConsistentHashRing

`RingSize` stands for 2^32. `TokenSet` and `Tokens` are `rebuild()`, `FindToken` is
`findToken()` with its wrap, `NextNode` the search of `getBuddyNode()`, `RangesOf`
and `Unwrapped` the arithmetic of the two range functions, `RingSize - 1` being
`UINT32_MAX` wherever the code writes that. Hash values are a variable that is
chosen once, so a run covers every assignment of hashes to node ids, collisions
included; a key is its position. The state is the ring object, the only step a
`Rebuild` from any set of nodes.

### KVDistributor

A command is a record that says which RPC is next: the primary's, the buddy's, or
the migration's. `Begin` takes `ring_mutex_` (a command in progress keeps
`Refresh` out), `Send` puts a request on the FIFO connection to the target,
`Handle` is a handler of `KVServer.cpp`, `Answer` and `TimeOut` continue the command
as `get()` or the writing functions do with an answer or an exception. A request
whose caller timed out stays on its connection. `Ask` and `Refresh` are the two
halves of `fetchMembershipFromServer()`; `view[c]` is `node_to_ip` and `place[c]` the
`hash_ring` built from it, kept as where it places each key. `expect` is a history
variable: the map as the completed commands would leave it, and `fresh[c]` another one:
what a get that runs may return, namely what completed commands left when it began and
what the writes that overlap it make of that.

A client whose `local_ip` is the endpoint of a node does not call that node but the
`KvStore` it has attached to: `Direct` is that path of `readFromNode()`, `writeToNode()`
and `deleteOnNode()`. It works on the store of `First`, the node of endpoint 0, because
that is the segment `main_client.cpp` attaches to whatever its local node is.

What happens around the clients is chosen once per behaviour: `env` is one of the
`Environments` of the run and says which nodes are configured, which sets of live
nodes a server may answer a refresh with (membership itself is the gossip module's
subject), who may die and come back, whether RPCs to a live server may time out,
which stored values `isMissOrError()` takes for errors, which node is local to which
client, and the orders (`load`) users may give to each client. One run so covers
several kinds of trouble one at a time, and a property can say what it needs of
the environment.

### KvStore

As for the clients, `env` is one of the run's `Environments`: the storage mode, the
processes that are started, who may die or be shut down, and whether a server or a
client may be started too early (`hasty`, `eager`). Names and the objects behind them are separate, as they are for the operating
system: `name` and `mutexName` say what the names lead to now, `seg[p]` which
segment process `p` has mapped, `holder[m]` who has locked mutex `m`. A server
process goes through `CreateStorage`, `ConstructMap` and `CreateMutex` (the constructor;
it may die in between and leave a file without a map), `Close`, `DestroyMap` and `RemoveMutex` (the destructor); each restart is a new process.
An operation is `Begin` (open the mutex by name), `Lock`, `Find`, `Work`,
`Unlock`. Refusing a write for lack of memory is a free choice in `Work`. A map
that a server destroyed under a client is read through a dangling pointer and may
yield anything.

## 3. Runs

Passing runs:

| Run | Shows | Instance and why it is enough |
|---|---|---|
| `GossipRestart` | `TypeOK`, `OwnRecordIsOwn`, `NeverAheadOfOwner`, `FarewellIsFinal`, `MonotoneTables` | 2 servers, 2 generations each: one restart after a stop, one after a crash, at any point, with a request of the old incarnation still under way; one beat is enough for the beat after the mark of `stop()` and one late request for a view that arrives after it |
| `GossipThree` | `RingFollowsView`, `SplitIsPermanent` | 3 servers, one seed: the smallest instance where a view travels by a third party |
| `GossipLiveness` | `ShutdownCompletes` | 2 servers stopping at the same time, either waiting for the other, one may crash |
| `RingLookup` | `TypeOK`, `PrimaryIsNearest`, `BuddyIsSecondNode`, `RangesAgree`, `LeavePromotesBuddy`, `JoinDemotesToBuddy` | 3 nodes with 3 tokens each on 7 positions, all 343 assignments of hashes, all changes of the live set: collisions of every kind, and an interval that does not divide the ring |
| `GossipDetection` | `TypeOK`, `DetectedInTime`, `NoFalseAlarm`, `DeadForGood` | times in the proportion of `config.json` (1 : 3 : 10): three servers, one of which dies at any time, with exchanges lost at will (an interval is one tick, two heartbeats); and two servers whose exchanges arrive, with an interval of two ticks, so that exchanges differ in length and threads are out of step |
| `KVChanges` | `TypeOK`, `ReplicasImplementMap`, `LateRequestsSettle`, `BothHoldTheKey`, `ReadsAreRegular`, `ReadsFallBack`, `DeletedStaysDeleted`, `CommandEnds` | two clients, 3 servers, 2 keys with different primaries, 2 values, in nineteen environments. One client alone: nothing goes wrong, by RPC or with a local node; the server of its local node dies; slow servers (up to 3 requests on a connection, so two abandoned ones ahead of the awaited one, and a value that looks like an error); a third node joins and takes the key over; the primary or the buddy dies or is suspected wrongly; the same, and it comes back empty. Two clients, of which one writes: a node dies, also with a value that looks like an error, or is slow, or their rings differ, or a node returns; both write; the node of one of them is local |
| `StoreLives` | `TypeOK`, `ServerWorksAlone`, `ServerStorageIntact`, `ImplementsMap`, `DataSurvivesCrashes`, `ServerOperationReturns` | a server and two clients on one key with two values (find-then-write races of three processes); and two incarnations of a server beside a client, in both modes, each of which may die at any point, in its critical section too; in persistent mode also with a restart before the old server has ended, and a client started before the server is ready |

Runs that TLC refutes, each a disagreement between the code and what the
repository says of it:

| Run | Property | What happens |
|---|---|---|
| `GossipStaleSeed` | `StaleGenerationIgnored` | while `start()` waits for a seed, the handler merges a newer generation; the seed's answer then overwrites it (`GossipMembership.cpp:85` against its comment at 160) |
| `RingCover` | `RangesCover` | position `UINT32_MAX` is in no printed range (`ConsistentHashRing.cpp:147`) |
| `StoreShutdown` | `DataSurvivesRestarts` | a clean shutdown in persistent mode destroys the data that a crash would keep (`KVStore.cpp:891`, `start_nodes.sh:107`) |
| `KVDelete` | `DeletesAreKept` | a get has missed at the primary and found the key on the buddy; another client deletes the key; the get's lazy migration inserts it at the primary again (`KVDistributor.cpp:299` against the success printed at `main_client.cpp:467`) |
| `KVBothDown` | `InsertReachesBuddy` | the primary is down when a key is inserted and so is the buddy: the insert that reached nobody is reported as a success (`KVClient.cpp:80`, `design.md:744`). A buddy that fails alone is documented (`design.md:746`), so the property asks for the buddy only when the primary does not have the key |

Some disagreements are conditions of the properties instead of runs of their own:
`RingFollowsView` leaves out `start()`, which fills the table without notifying, so
a server that is ready may have an empty ring (against `main_server.cpp:218`); it says that
any news of another node makes good for that, because `notifyChange()` compares with the set the
ring was built from and not with the table before the change; `DeletedStaysDeleted` leaves out nodes that
return, because a replica that was away during a delete brings the key back (the
hinted handoff of `design.md:580` does not exist), where a ring that changes more than once
counts as a return; `ReadsFallBack` is about one node that
comes or goes while the others stay (`OneComesAndGoes`), because two joins between two
refreshes of a client can move both replicas of a key, and about values that are not taken for
errors (`Legible`); `ReadsAreRegular` is about one client that writes, as nothing
orders the two RPCs of one client with those of another, and leaves out nodes that join
(`ReadsFallBack` says that the key is found then, not with which value: a second insert,
which a store that has the key refuses, is accepted by a new primary); where the ring may
change it is about a client alone and `Legible` values: a value that looks like an error
stays at the primary when an insert finds the key there, and the new buddy has only what was inserted;
`LateRequestsSettle` is about a client alone, because another one's migration can give a
late update a key to change on one replica only, and `BothHoldTheKey` is what remains
for several clients: presence, as nothing makes the values agree. `Estranged` leaves out clients that work on a segment that is not
their node's store, or no longer: one whose local node is not that of endpoint 0, so that its own node's copy goes to
node 0 (`main_client.cpp:338` against its comment at 336), and one
whose server died while others go on without the node.
These conditions were first found on the environments of the run; proving the three
properties for every environment showed where the conditions were still too weak, and TLC
confirmed each case with an environment made for it.
`ServerWorksAlone` is about memory mode and processes that are started one after the
other: a server that reopens a mapped file replaces the mutex under the clients that
have the file mapped, a client that is started too early opens the mutex that the
server is about to replace, and a server that ends removes the names of its successor.

The bounds on time (`DetectedInTime`) are those of the worst schedule. A dead server's
last heartbeat may be passed on just before its holder would suspect it, once per
watcher (`AliveBound`); and a suspicion of it starts the clock of whoever adopts it anew,
again once per watcher (`DeadBound`), which may begin a little late when the suspicion
meets a watcher in the middle of its turn with the heartbeat (`Overlap`; none with the
times of `config.json`). An earlier `DeadBound`, with one such turn only, held in the run,
which has two watchers, and does not hold for three: the proof for any number of servers
failed there, and TLC gave the schedule. The bounds need that an exchange that has timed out
is not merged later; that case, which `GossipMembership` has (`ServeLate`), is left out
here, as it has no bound. `NoFalseAlarm` needs a threshold of three intervals, as
configured; with two and a half, TLC finds a server that runs and is suspected.

The bounds: `MaxGen`, `MaxHb` and `MaxLate` cap incarnations, heartbeats and
abandoned exchanges, `MaxWire` the requests on one connection; all are guards of
the action that would pass them. A heartbeat bound of 1 lets every server beat at
least once, and once more after `stop()`, so records of one incarnation differ. In
`GossipDetection` time ends when the subject would beat more often than `beats`; a
subject that died beats no more, so what follows a death is not cut off. The
node sets are the smallest in which the property's actors can all be different.
Symmetry is used only where nodes are interchangeable (equal roles in `Seeds`,
`MayStop`, `MayCrash`), and in no run with a liveness property.

Deadlock checking is off where the system stops: in gossip runs when all servers
are down and no generation is left, or the heartbeat bound is reached; in storage
runs when all processes have ended; in `GossipDetection` when time ends. The client
runs never stop, and check it.

## 4. Fairness

* `GossipMembership`: weak fairness per thread. A thread sleeps for a bounded time,
  the mutex is free after every critical section, an exchange returns or times
  out (`.timed(...)`). Nothing is assumed of delivery: `Serve` and `ServeLate` are
  not fair, and neither are starts, stops and crashes.
* `GossipDetection`: weak fairness of each thread and of time, which passes when nothing
  is due.
* `KVDistributor`: weak fairness for a client's steps, the timeout of an RPC whose
  answer will not come among them (`KVDistributor.cpp:42`), and for the handlers of
  the servers that are up.
* `KvStore`: weak fairness inside the critical section, strong fairness for taking
  the mutex: an interprocess mutex that is free again and again is got in the
  end. A client that dies in the critical section of a running server blocks it
  until the server is started anew, as nothing in the code releases the lock:
  `ServerOperationReturns` excepts that case and no other.
  Starts, shutdowns and crashes are not fair.

## 5. Proofs

All theorems are about every value of the constants, and rest on the named assumptions of
the modules alone: finite sets of nodes and clients, node ids that are naturals, a ring of at
least one position, and that the words for *nothing*, *missing* and *failed* are no values.
Each needs an invariant stronger than what it states.

**Gossip: states** (`GossipMembership_proofs`)

* `TypeCorrect`, `OwnRecordCorrect`, `NeverAheadCorrect`, `FarewellCorrect`:
  `Spec => []TypeOK`, `[]OwnRecordIsOwn`, `[]NeverAheadOfOwner`, `[]FarewellIsFinal`;
* `Invariance`: `Spec => []Inv`, from which the last three follow.

None of the three properties is inductive alone. That no record is ahead of its
owner needs that the owner's own entry is the latest word, that is
`OwnRecordIsOwn`; it also needs that a process that is down holds nothing
(`OwnState`) and has no thread or call (`DownIsIdle`), or a restart could leave an
old heartbeat standing beside a new incarnation. `Inv` is the conjunction. The
argument splits a step in two: `Moves(m)` says how the owner's side may change
(generation in the file and heartbeat only grow, a farewell is only set once), and
`ToldStable` that whatever could be said of `m` before such a step can be said
after it; `Provenance` says that each record after the step was already held or
sent before it, or is its owner's. `NextInv` establishes both for each action;
`Combine` puts them together. The merge enters by two facts only: it never touches
the own entry and takes every record from one of the two views (`AbsorbTold`).

**Gossip: steps** (`GossipMembership_proofs`)

* `TablesMonotone`: `Spec => MonotoneTables`; `RingFollows`: `Spec => RingFollowsView`;
* `SplitPermanent`: `Spec => SplitIsPermanent`, for every division of the nodes.

These need types only. `ForwardStep` goes through the actions: a merge moves every entry
forward (`AbsorbForward`), so does one pass of `detectFailures()` (`BeatForward`).
`SplitStep` shows that nothing crosses the gap: what a process sends, it takes from a
table that holds no node of the other side ALIVE (`AbsorbApart`).

**Failure detection in time** (`GossipDetection_proofs`), for every number of servers, all
times and any loss of exchanges

* `TypeCorrect`: `Spec => []TypeOK`;
* `Detected`: `Spec => []DetectedInTime`; `DetectionInvariance`: the invariant behind it;
* `NoAlarm`: `Spec => []NoFalseAlarm`.

The argument counts the watchers that have heard of a heartbeat. They only become more, and
a message that is adopted adds one (`HeardGrows`), so when `gone` time has passed since the
death, a heartbeat that still passes for a sign of life has been heard by enough watchers to
pay for it, one turn each: that is `EntryInv` for what is held, `RecordInv` for what is on its
way. `SourceInv` is needed for the latter: who sent a record still has it or a later one. A suspicion is
counted in the same way, with a longer turn; where it meets an entry that is still held
ALIVE, two watchers are there at least (`HeldFacts`, `TwoTurns`), which bounds `Overlap`. `PairInv`
for two servers bounds the age of an entry by where the two threads are.

**Ring** (`RingOperators_proofs`, `ConsistentHashRing_proofs`), for every size of the ring,
every number of virtual nodes and every assignment of hashes

* `TypeCorrect`: `Spec => []TypeOK`; `PrimaryCorrect`: `Spec => []PrimaryIsNearest`;
  `BuddyCorrect`: `Spec => []BuddyIsSecondNode`; `RangesCorrect`: `Spec => []RangesAgree`;
* `LeaveCorrect`: `Spec => LeavePromotesBuddy`; `JoinCorrect`: `Spec => JoinDemotesToBuddy`.

The invariant is only that the ring is `rebuild()` of the live nodes; the work is in the
lemmas, which state what the operators compute without their way to it. `SortedFacts`: the
sort yields every token once, in order. `PrimaryIsOfNearest` and `BuddyIsOfNearestOther`:
the searches with their wrap find the tokens that minimise the distance clockwise, by
position, then node. `LookupWithout`: taking a node away changes the lookups of its keys
only, and makes their buddy the primary. `RangeOwner`: a position in a range that
is printed for a token finds that token. They hold with collisions, and when several tokens of a node coincide.

**Clients: replicas** (`KVDistributor_proofs`, `KVReplicas_proofs`), for every set of clients, nodes,
keys, values and environments

* `TypeCorrect`: `Spec => []TypeOK`;
* `LateSettle`: `Spec => []LateRequestsSettle`;
* `BothHold`: `Spec => []BothHoldTheKey`;
* `MapImplemented`: `Spec => ReplicasImplementMap`, the refinement of `KeyValueMap`.

`CommonInv` holds whatever happens: above all, what a client waits for is the last request
on the connection (`AwaitedIsLast`), so an answer is to this request and not to one it gave
up. `RingStaysInv` says what does not change while the ring stays.

For a client alone, `Leads(m, w, k, v)` says that the requests `w`, executed in turn on the map
`m`, leave `v` for `k`; `SoloInv` that each replica's store with its connection leads to what
that replica was promised, which is what the commands leave, those in progress as far as
they have asked it. It does not matter when the requests are executed, hence `LateSettle`.
For several clients nothing so strong is true. `PresenceInv` follows only whether the key is
there, or in a request that inserts it: a key at the primary is at the buddy too, or the
client that brought it to the first is still to send it to the second (`Paired`), and a get that
migrates has seen it there (`Evidence`); hence `BothHold`. The refinement adds `OneRequest`: on servers that
answer in time a client alone has one request at most, so the abstract operation takes effect when the
primary executes it (`Executes`), and nothing else of the command is visible.

**Clients: reads** (`KVReads_proofs`), while nodes die, come, go and return

* `DeletedStay`: `Spec => DeletedStaysDeleted`;
* `FallBack`: `Spec => ReadsFallBack`;
* `ReadRegular`: `Spec => ReadsAreRegular`.

`BaseInv` joins what holds in every environment: who is not up may have died, a ring is
the configured one or an answer (`WorldInv`), and a server that is not slow has the one
request its client waits for or none (`PromptInv`). A deleted key has two arguments.
If nobody deletes, an expected absence means the key was never written: `UnbornInv`,
that it is then in no store, request or reply. For a client alone that deletes, `MissInv` follows
each node that must not hold the key: a replica, by `Leads` as above, and any node
while the client still has its first ring, so that a node it goes to next has nothing old.
For fallback there is one node that matters, `Keeper(k)`: the primary of `k` among the nodes that
never leave. It is the primary or buddy of `k` for every client in every ring
(`KeeperFacts`, from `LookupWithout` of the ring), so `FallInv` has only to follow that store: it holds the key
whenever the writes it has acknowledged leave one (`Told`), and a get that is going to
miss elsewhere has still to ask it.
What a read returns follows from `RegularInv`. `Exact`: the node that stays, and both
first replicas while the writer has its first ring, hold what the one writer has been told
by them (`Told`), so one of them is always up to date. `Current` and `Honest`: what a `get()`
has read so far is a value it may return, and it asks the buddy only because the primary may have died or
because a value it may return cannot be read as one. `Evident`: what it migrates is at the
primary already, so a read never changes a store here. When the ring shrinks, the node that becomes a replica has
nothing old, by `MissInv`.

**Storage** (`KvStore_proofs`), for every set of processes, keys and values and every
environment

* `TypeCorrect`: `Spec => []TypeOK`;
* `StorageIntact`: `Spec => []ServerStorageIntact`;
* `WorksAlone`: `Spec => []ServerWorksAlone`;
* `MapImplemented`: `Spec => ImplementsMap`, the refinement of `KeyValueMap`;
* `DataSurvive`: `Spec => DataSurvivesCrashes`;
* `Invariance`: `Spec => []Inv`, from which they follow.

`Inv` says why two processes exclude each other although names are removed and made
anew all the time. `LockHeld`: who is in its critical section holds the mutex it opened,
which may not be the mutex another one opened. `StorageInv`: servers follow one another,
so what the living one has made is what the names lead to. `SegmentInv`: a client that
has a server's segment attached when that server was ready, so the mutex it opens is the
server's; a client left behind by a predecessor has another segment. The two together
give `ServerWorksAlone`. `MapInv` is the same argument for a server that stays, with the
consequence that what `find()` returned is still in the map when the operation writes:
that makes the write the moment at which the abstract operation takes effect. `DataInv`
says that a server constructs a map where none is, and that what is written is a value: a
key cannot be lost by being overwritten.

Only model-checked: liveness (`ShutdownCompletes`, `DeadForGood`, `CommandEnds`,
`ServerOperationReturns`), as fairness and ENABLED are outside what the prover handles.
Every other property of the passing runs is stated by a theorem.

## 6. What is not modelled

* A full store on one node only (`KVStore.cpp:584`): `KvStore` refuses writes freely, but
  the servers of `KVDistributor` are never full.
* Several rings of clients on which two nodes join at once, and a ring that shrinks to
  an island of the gossip: both lose the way to a key by construction of the code.
* Late delivery of a gossip exchange in `GossipDetection`, and restarts there.
* `start_nodes.sh` around the server: its cleanup in memory mode deletes the
  generation file, which the model keeps across restarts. It would break
  `NeverAheadOfOwner`, as would a torn write of that file.
* A crash inside Boost's allocator.
* The recovery branch of `KvStore`'s constructor: it is reached only when creating the
  storage fails, which it then tries once more. The byte accounting. `GetMapSize` and
  `ListAllKeys`, which nothing calls.
* The second `stop()` that the destructor of `GossipMembership` makes after the
  engine is finalized: what the RPC library does then is not in this repository.
* `findNodeId`'s fallback to node id 0, which takes a configuration that does not name
  the server.
* `MurmurHash3` (a vendored pure function; the ring is checked for every assignment of
  hashes), `Timer`, command parsing and benchmarks.

## 7. Plan

1. Gossip, failure detection, ring, storage: done; all their safety properties are theorems.
2. Clients: done, all their safety properties are theorems; next, a full store on one of
   two replicas, which the model leaves out.
3. A composition `Cluster`: gossip's tables as the answers to clients' refreshes,
   for the question whether a ring that shrinks and heals keeps keys reachable; the
   script's cleanup.
