# A verification project for tursoraft

`tursoraft` replicates SQLite databases with hashicorp/raft and synchronises
them with Turso Cloud. This directory holds TLA+ models of it, the instances on
which TLC checks them, and theorems about them that TLAPS checks. Everything is
translated from the Go source; line numbers are those of the repository.

- [1. The system](#1-the-system)
- [2. The models](#2-the-models)
- [3. The runs](#3-the-runs)
- [4. What is proved](#4-what-is-proved)
- [5. Disagreements between the code and its documents](#5-disagreements-between-the-code-and-its-documents)
- [6. What is not modelled](#6-what-is-not-modelled)
- [7. Plan](#7-plan)
- [8. How to run it](#8-how-to-run-it)

## 1. The system

### Components, state, operations

| Component | Source | State | Operations |
|---|---|---|---|
| Replicated state machine | `internal/raft/fsm.go` | the `*sql.DB` of each key, paths of the database files; `fsmSnapshot` while a snapshot is written | `Apply`, `applyExec`, `applyWAL`, `Snapshot`, `Persist`, `Restore` |
| Raft node | `internal/raft/raft.go` | the `*raft.Raft`, two Bolt stores, a file snapshot store, a transport | `StartCluster`, `StartClusterWithTransport`, `WaitForLeader`, `ApplyLog`, `AddPeer`, `RemovePeer`, `GetPeers`, `IsLeader` |
| Peer addresses | `internal/raft/peer.go`, `raft.go:110-173` | none | `DiscoverAndValidatePeers`, `NormalizePeerAddress`, `RemoveSelfFromPeers`, `ResolveAdvertiseAddress` |
| Manager | `manager/manager.go` | `mu`, `isRunning`, `stopCh`, `lastSync`, `lastWrite`, `lastSnap`, `fileHashes` | `NewManager`, `Exec`, `Query`, `Database`, `SyncAll`, `maybeSyncOnSchedule`, `AddPeer`, `RemovePeer`, `GetPeers`, `GetLeader`, `IsLeader`, `Shutdown`, the `onApplied` callback |
| Leadership watch | `manager/manager.go:608-658` | `syncTicker`, `syncStop`, shared by closures | the `select` loop, one sync goroutine per term of leadership |
| Connector manager, handles | `connectors/connector_manager.go`, `database/database_handle.go` | a map from keys to handles, fixed once the manager runs | `AddConnector`, `GetAllKeys`, `SyncDatabase`, `Close` |
| Connectors | `connectors/connector_embed.go`, `connector_remote.go` (build tags) | an open database, a sync function | `MakeConnectorForServer` |
| Turso provisioning | `internal/turso/*.go` | databases and groups at the Platform API | `EnsureAllDBs` |
| Configuration | `manager/manager.go` | one record | `Validate`, `DefaultConfig` |

`internal/connectors/connector_manager.go` is an unused copy. The examples and
`manager/ENCRYPTION.md` have no state of their own.

### How they interact

`Manager.Exec` takes `mu` for reading and calls `ApplyLog`, which proposes an
entry to Raft and waits for its future. Raft commits the entry and hands it, on
every node, to the *FSM goroutine*, which runs `MultiFSM.Apply` and, at its end,
the callback `onApplied` of the manager, which takes `mu` **for writing** to set
`lastWrite`. Raft's *snapshot goroutine* asks the FSM goroutine for
`MultiFSM.Snapshot` and then runs `Persist` beside further calls of `Apply`.
`Restore` runs when a node starts with a snapshot or receives one. The *watcher*
reads Raft's `LeaderCh` and starts a *sync goroutine* for each term of
leadership, which calls `SyncAll` when the schedule says so; `SyncAll` pulls from
Turso and has Raft take a snapshot if a file changed. `Shutdown` takes `mu` for
writing, stops the watcher, waits for Raft's goroutines and closes the
connectors. `NewManager` provisions and opens the databases, reads the peers from
an environment variable, starts Raft, and waits thirty seconds for a leader.

### What is hard, and what makes each component correct

- *State machine.* Snapshots copied while statements run; restarts that replay
  the log; installed snapshots; failures on one node only. Correct if no applied
  statement is lost, answers are true, only committed statements run, snapshots
  cover their index, and replicas agree.
- *Manager.* One lock shared by all calls, the background loop and a callback on
  the goroutine those calls wait for. Correct if every call returns, nothing is
  closed while in use, the schedule skips no write, shutting down is idempotent.
- *Leadership watch.* Goroutines that share variables with no lock, merged
  notifications, two ways to end. Correct if nothing is closed twice or leaked,
  a leader synchronises, and the process survives.
- *Formation and membership.* Nodes that start in any order, time out, end, start
  again over their stores, under addresses that are only strings. Correct if one
  cluster comes into being, keeps its members and gets a leader.
- *Provisioning and connectors.* Nodes that look up and create the same databases
  at once, answers that are lost, attempts that start again. Correct if nodes that
  are configured alike open each database alike, nothing is created that nobody
  configured, and a node that can start is not kept from it by an earlier failure.
- *Addresses.* Strings that are trimmed, checked, completed, compared, in different
  orders by different callers. Correct if a node never keeps itself as a peer and
  can be named by the address it advertises.
- *Synchronisation across the cluster.* Schedules, snapshots and restarts of nodes
  that take over from each other. Correct if every node knows what it would have
  to synchronise, pulled data ends up in snapshots, nothing older replaces it, and
  a leader with something to synchronise does.

`PROJECT.json` lists each hazard with its line, and the properties that cover it
or the reason why none does.

## 2. The models

Modules named `MC...` only give TLC its instances. Definitions marked
`\* Faulty:` are not part of a specification: each is a plausible bug of the
definition before or after it, used to see that the properties can fail.

### MultiFSM: the replicated state machine and ApplyLog

State: the committed `log`; per node the phase of its FSM (`down`, restoring at
`boot`, `run`, restoring an installed snapshot), the index `applied`, the `disk`,
the snapshot being persisted and the newest complete one; per call what its
caller was told. A file is abstracted to *how often each statement was executed
on it* and *whether its bytes mix two contents*: enough to tell loss, repetition,
and a torn copy apart. `Apply` is split into what executes, what fails on this
node alone, and what no node can execute; `Persist` into opening a file, having
copied it, failing and completing, so that `Apply` runs in between; `Restore`
into one step per archive member, each of which may fail after `os.Create` has
truncated the file. `Home` says where a statement takes effect: in the local file,
or at the Turso primary for a key whose connector is remote. An error of `ExecContext`
on a local file is rolled back by SQLite; one of a connection to a primary may come
after the primary executed the statement, when only its answer is lost
(`ApplyExecFails`).

`Apply` ends in the callback of the manager. `ApplyExec` executes the statement and
starts it (`inCb`); `Callback` is its end, which takes the manager's lock for writing
and so has to wait while an `ApplyLog` of this node waits: `Manager.Exec`, the only
caller, holds that lock for reading until it is answered. For the same reason no new
call gets as far as `ApplyLog` while a callback waits. An entry that executes on its
proposer thus never gets its success told, here as in `Manager` (section 5), which has
the lock itself.

The file of an embedded replica counts as a local file. Its engine also commits writes
at the Turso primary (`connector_embed.go:57, 193`) and pulls from there; these are not
part of this module, and pulls are what `TursoSync` is about.

External: Raft as one agreed sequence, at most one committing leader, the order
of the calls it makes. A crash keeps files and the newest snapshot.

### ReplicatedStore and StoreRefinement: what the state machine promises

`ReplicatedStore` is the abstract specification: one history of statements that
only grows; per replica a position in it, data and whether the data is sound; per
statement the answer its caller got. A replica moves along the history entry by
entry (`Advance`), forward in one step with data that covers it (`Transfer`), or
goes bad or back to the start (`Spoil`, `Disturb`); an answer comes together with
the entry it is about. `StoreRefinement` maps `MultiFSM` to it: the log is the
history, `applied` the position, the rows of a node's own intact files its data;
how often a statement ran, the phases of restoring, snapshots and their copies
are forgotten. `ImplementsStore` says that every behaviour of `MultiFSM` is one
of the abstract store.

### Manager and RWMutex: one node's API and its lock

`RWMutex` is `sync.RWMutex` as its documentation describes it: a waiting writer
stops new readers. `Manager` has a program counter per goroutine: clients with
one call each, callers of `SyncAll` (one of them the background loop, which passes
the gate of `maybeSyncOnSchedule`), callers of `Shutdown`, and the FSM goroutine
with the entry it applies and its callback. A step lies between two points at
which another goroutine can get in: an acquisition of the lock, a wait for a
future, the sync of one database. `due` is the comparison
`lastWrite.After(lastSync)`, the only thing the code does with the two times.
`unsynced` and `missed` are history: databases written since they were last
synchronised, and databases whose last synchronisation failed.

### LeaderWatch: the watcher and its sync goroutines

The variables the closures share, the one-slot `LeaderCh` in which a newer
notification replaces an unread one, and one sync goroutine per term. The
`select` of a sync goroutine reads `syncStop` and `syncTicker` in two steps, in
the order Go evaluates its operands; the watcher clears them in two steps too.

### ClusterFormation: how a cluster comes into being and changes

Per node: where `NewManager` is (`prepare` for configuration, provisioning and
connectors, `open` for stores and transport, `boot` for bootstrap or join,
`waiting` for `WaitForLeader`), whether the process holds the log store, whether
a Raft instance runs in it, the latest configuration in its log, its term and
role. A server is an *address*, a string: `Own[n]` is the one a node knows
itself by, `At[i]` the node that answers at an address. `Peers` is the whole chain of
`DiscoverAndValidatePeers`, `NormalizePeerAddresses` and `RemoveSelfFromPeers` on
such members of a set; `PeersAsCoded` shows that it is what `PeerAddress` computes
from strings, for both constructors. A node that was in a term and has no manager is
`Stranded` if it names no peer; `Orphaned` is a process that holds the stores and has no
manager to use them.

An operator may add a node under a host name, as the comments of `Manager.AddPeer`
(`manager.go:919, 931`) and `ARCHITECTURE.md:152` do. The server ID in the configuration
is then that string (`raft.go:282`), which is not the one the node knows itself by:
it serves, it votes, but it never finds itself among the servers and never campaigns
(`Misnamed`). A leader that is a server under a second string sends itself
requests, and deposes itself (`Deposed`).

External: Raft, reduced to configurations with their order, terms, elections in
which any majority may answer, replication of a configuration, the lease of a
leader. A voter refuses while it has a leader, if the candidate's log is older,
or if the candidate is not in its configuration, as hashicorp/raft does. The
winner of an election reaches its voters before one of them starts another
(election timeouts are randomised and begin anew with a vote). Nodes that are up
reach each other: a partition is not modelled, a node that is down is.

### Provisioning: from NewManager to the start of Raft

Per node: the key it is at, in the order of the configuration, in the loop of
`EnsureAllDBs` or in the one that opens connectors; what `dbInfo` says of each
key (has it a URL, is its version 0.x); and the connector made. `remote` is the
organisation at Turso: for each *name*, the group its database is in, since the
API looks a database up by its name alone. What a node is configured, called and
built with (`UseEmbedded`, credentials of the API, `NewManagerWithTransport`, the
tag `libsql_embed`), what
a group's fields are and which server hosts a name are chosen in the initial
state. `Connector` is the choice `MakeConnectorForServer` makes in the two builds.
`CreateLost` is a creation whose answer does not arrive. `made` records which keys a
node has created itself.

External: the Platform API; the operator, who starts a node again that failed.
`turso.go:27` provides for an answer without a version. Which answers carry one is
chosen in the initial state: those to a lookup, those to a creation, both or
neither (`tells`). That this does not change from one request to the next is an
assumption.

### PeerAddress and Addressing: addresses as strings

A string is the text before the last colon outside of brackets, the text after it,
and where it has white space: what `strings.Split`, `TrimSpace` and
`net.SplitHostPort` tell apart. Each function of `peer.go` is an operator, and so
are the ones of `raft.go` that derive the advertised address. `ManagerPeers` and
`TransportPeers` are the two orders in which the constructors normalise and remove
the node itself.

`Addressing` puts `ClusterFormation` over these strings: each address of the formation
is spelled by a text (`Spelled`), and each node has the list of texts of its environment
variable, the hosts it finds in its environment, and the bind address of its
configuration. The address a node knows itself by is the one `ResolveAdvertiseAddress`
makes of these, and `Env` the set that `DiscoverAndValidatePeers` makes of the variable;
`AddressingAssumption` says so, and `PeersAsCoded` and `OwnIsAccepted` compare what
`ClusterFormation` then does with what the code computes. `MCClusterFormation` gives an
instance: nodes bound to the wildcard `:7331`, one known by its name to its platform,
lists with spaces, an own entry, an entry without a port and an empty one. The second
node is known by its name, and added by it; the third is added by the address it
advertises.

### TursoSync: synchronisation across the cluster

Composes, for several nodes, what `Manager` and `MultiFSM` have in detail for one
lock and one log, coarsely: `Exec` waiting under the read lock, the FSM goroutine
that executes a statement and waits in `onApplied`, `SyncAll` in its steps (one
database at a time, the snapshot it asks for, its completion), the newest
snapshot of each node, its installation on a node that has fallen behind, and the
end and start of a process. A replica is reduced to the version of its primary
that it last pulled; version 0 also stands for a file that `Restore` has emptied or
written in part. `due` is `lastWrite.After(lastSync)`; whether `SyncInterval` or
`SnapMinGap` has passed is open at every step, except that a node without a
snapshot in this life is never too early for one.

What can fail is in the model, and its failures are bounded: `HashFails` is a database
of which one hash, or both, cannot be computed, which `SyncAll` does not look at
(`manager.go:688, 693`): two hashes that fail are equal. `PullFails` is a sync that
returns an error, before or after it wrote the file. `InstallFails` and `StartFails` are
a `Restore` that returns one, with each file as it was, restored, or destroyed
(`PartRestored`); `torn` records it until a `Restore` or a snapshot succeeds. A
statement that was executed since `SyncAll` began may also make the two hashes differ.

`unsynced` and `owed` are history: statements executed since the last sync, and
databases with data that is known to be in no snapshot. A sync clears from `unsynced`
what it has seen, not the statement whose callback is still to come.

The model shows a pattern of the code: `Exec` leaves the leader's FSM goroutine
stuck with the first statement it executes (section 5), so a leader never stamps
its own writes, and it is the callbacks of the followers that open the gate of
the schedule, for the time when one of them leads.

### How they fit together

`Provisioning` ends where `ClusterFormation`, whose `PrepareFails` is its failure,
begins. `Manager` abstracts `MultiFSM` to a goroutine that applies one entry after the
other; `LeaderWatch` abstracts `SyncAll` to one step, `Manager` its watcher to a
loop that may come at any time; `ClusterFormation` abstracts all of them to
"running". These share no variable; composing them would add interleavings of
goroutines that do not interact. Where they do interact, through snapshots, restarts and
changes of leadership, `TursoSync` composes them. `PeerAddress` is composed with
`ClusterFormation` in `Addressing`.

A module `...Proofs` has the theorems about the module it is named after, and the
inductive invariants that only the proofs need; `AnswerProofs` continues
`MultiFSMProofs`.

## 3. The runs

| Run | Question | Instance and bounds | Size |
|---|---|---|---|
| `MCMultiFSM_safety` | Do answers, files and snapshots stay true to the log, and does it all implement the abstract store? `TypeOK AnswerIsTrue FirstLifeExact NoLostWrite SnapshotCovers ImplementsStore` | 2 nodes, 1 database, 2 statements, a local failure of one or a crash or installed snapshot (with a failing `Restore`), 1 snapshotter at a time | 386 k states |
| `MCMultiFSM_live` | Which proposals come back, and what does a remote database do to its primary, whose answers may be lost, and to the snapshots? `PrimaryCounts RemoteStopsSnapshots ApplyLogReturns` | 2 nodes, a local and a remote database, a statement nobody can execute | 312 k |
| `MCManager_all` | Is the lock used well, and which calls return? `TypeOK SafeClose StopOnce GateCoversWrites StaysWedged ReturnsUnlessWedged` | 1 client that executes or reads, the loop, a caller of `SyncAll`, 2 of `Shutdown`, 1 entry of another leader | 320 k |
| `MCTursoSync_cluster` | Does every node know what to synchronise, is what was pulled saved and kept, does a leader synchronise? `TypeOK GateFollowsWrites PulledIsSaved FileCoversSnapshot StuckForLife LeaderSynchronises` | 2 nodes, 2 databases, 1 change at a primary, 1 statement, any elections, 1 crash or failure (of a hash, a pull, a snapshot, a `Restore`) | 548 k |
| `LeaderWatch_terms` | Are goroutines, tickers and channels handled well over several terms? `TypeOK NoDoubleClose OneTicker LeaderSyncs WatcherEnds` | 4 changes of leadership, cancel and shutdown at any point | 24 k |
| `MCClusterFormation_join` | One cluster, its members kept, a leader and managers for them, from addresses as the code computes them, and what can a process or a node never do again? `TypeOK OneCluster AddedStays PeersAsCoded OwnIsAccepted FounderIsLost ManagerOncePerProcess LeaderReturns MemberStarts` | 3 nodes, 2 joiners, one added by its host name, 3 configurations, the seed may be removed, 1 node that ends or starts again; strings of 0 to 3 colons with and without white space | 93 k |
| `MCProvisioning_start` | Do nodes provision alike, make nothing unasked, and start in the end? `TypeOK NodesAgree OnlyWorkable NoStrayDatabase StartHeals` | 2 nodes, 5 settings, 5 kinds of group, 2 groups with a database each that share a name, there before or not, the version in the answers to lookups, creations, both or neither, 1 failure | 385 k |
| `MCMultiFSM_replay`, `MCMultiFSM_same_name`, `MCManager_exec`, `LeaderWatch_crash`, `MCClusterFormation_restart` | see section 5 | the smallest instance that shows it | |

### Why the bounds are enough

- Two statements are the fewest for which order, loss of one and repetition of
  the other differ; two nodes the fewest of which one lags, restarts from a
  snapshot or receives one while the other goes on. One disruption already
  reaches every action, a restart with and without a snapshot, a crash inside
  `Restore` and inside `Persist`. The theorems of section 4 have no such bounds.
- One client suffices for the manager: it executes a statement or reads (the other
  calls that wait for Raft, `AddPeer` and `RemovePeer`, take the steps of an
  execution, and one that is refused those of an execution that fails), its entry may
  race with the entry of another leader, the loop, another `SyncAll` and two
  shutdowns, and clients do not interact but through the lock.
- Four changes of leadership give two whole terms after a first; the hazards of
  the watcher need two.
- Three servers are the fewest for which a majority survives one node.
  Three configurations are two additions, or an addition and a removal.
- One statement, one change at a primary and one fault reach every action of
  `TursoSync`: a change of one of two databases shows whether one visit of a loop
  forgets another; the statement is executed by a follower that then leads, pulls
  and snapshots, and by a node that ended and is sent the snapshot; a deposed
  leader's `SyncAll` goes on beside its successor's.
- Two nodes are enough for a race of creations, since a database is created once;
  one failure for a lost answer; two groups with one key each for a shared name and
  for a loop that goes on after a creation.
- A node is added under its host name or under the address it advertises, not under
  both: under both it would, once elected, depose itself again and again in ever newer
  terms, which no bound on the configurations stops.

`AtMostOneDisruption` and `AtMostOneDisturbed` are constraints that, once
false, stay false: every behaviour with at most one disruption lies within the
explored states, and no fair action of one leads out of them, so they are sound
for the liveness properties too. `OneSnapshotter` drops behaviours in which two
nodes persist at once (their snapshots do not interact), `SkipOrDisruption` those
in which a statement that failed on one node meets a crash or an installed
snapshot; both are used for invariants only, as is symmetry.

Deadlock is not checked: when no call is left and nothing fails, these systems
rest.

### Fairness

- `MultiFSM`: the FSM goroutine applies an entry when it can; a leader commits what a
  caller waits for or, without a majority, steps down. Nothing is assumed of the
  callback, which needs a lock; nobody has to crash, start or be elected.
- `Manager`: each goroutine takes its next step if it can; a lock that stays free
  for a goroutine is granted (Go's `RWMutex` admits the waiting writer after the
  readers before it). Elections, commits of other leaders and calls need not come.
- `TursoSync`: FSM goroutines and `SyncAll` go on when they can, the ticker comes
  while its gate is open, a leader commits what it was given or, without a
  majority, steps down. Nobody has to be elected, crash, start, or call `SyncAll`.
- `LeaderWatch`: goroutines run, tickers tick. Leadership need not change.
- `Provisioning`: a call goes on, and a node that failed is started again; failures
  are bounded, so they end.
- `ClusterFormation`: a call of `NewManager` goes on, leaders reach their
  servers, a candidate that can win an election does. Nobody need start, add,
  remove or end anything. `Timeout` waits until no election or heartbeat is under
  way (`SoonLed`): thirty seconds are many election timeouts. It may still come
  before the operator adds the node.

## 4. What is proved

49 theorems in eight modules, each for every value of the constants and every
bound: every invariant and every action property that the runs of section 3 check, that
`MultiFSM` implements `ReplicatedStore`, and some consequences that no run checks
(`NoSeedNoCluster`, `RunsAreCommitted`, `FirstLivesAgree`, `OwnEntriesWedge`,
`ExecNeverSucceeds`, `OnlyLossCrashes`, `PeersOfAnyList`, `AdvertisedByAny`), each checked
by TLC before it was proved. The proofs use no assumption but those of the modules, which
say what the constants are (TLC evaluates them on each run), and those that three
theorems state: `AtMostOneCluster` and `AddedMembersStay` are about clusters in which at
most one node starts without peers, as in the run `MCClusterFormation_join` (two such
nodes make two clusters), `NoSeedNoCluster` about those in which none does.
`ScopeAssumption` and no other asks for finitely many nodes; only `PrimaryCounts`,
which counts them, needs it.

Each inductive invariant was first checked by TLC on the instances of section 3;
`MembersInv` on two larger instances, where no constraint bounds the disturbances and
any node may be added and removed, as far as some hundred thousand states each.

### MultiFSM

`MultiFSMProofs` (927 obligations): `TypeCorrect`, `NoWriteIsLost`,
`SnapshotsCover`, and `Inductive`, the invariant they rest on.

`NoLostWrite` alone is not inductive: `Restore` replaces the files, so what it
writes has to be known good, which is `SnapshotCovers`; a snapshot is completed
from copies made over many steps, so half-made copies have to be good
(`CopiesCover`: what is copied already covers the index the snapshot will have);
`Restore` itself takes many steps, after which `applied` jumps (`RestoredCover`); and
the indexes must be in order (`IndexesOrdered`): a restore never goes back behind what
a running node has applied. Each of these needs the others. The key lemma is
that `Covers` is stable: the log only grows, and the exempt statements (skipped
by some node) only become more.

`AnswerProofs` (1279), what callers and counters are told, and the refinement:

- `RunsAreCommitted`: `Spec => []OnlyCommittedRuns`, by itself inductive with the
  types: a file, a snapshot or a copy gets what another one has, or an entry of
  the log whose database exists.
- `AnswersAreTrue`: `Spec => []AnswerIsTrue`, which is about the files: a call that was
  refused as "not the leader" ran nowhere; one that got an error of the FSM is in the
  log, ran nowhere if no database can execute it, and is not in the local file of the
  node that answered. The last holds until that node starts again or is restored: the
  log then executes the entry once more (`MCMultiFSM_replay`), or a snapshot of another
  node has it. And no caller is told of a success.
- `FirstLivesExact`: `Spec => []FirstLifeExact`. Both come from `HistoryInductive`: an
  entry is in the log once (`EntriesOnce`), so that a node which applies the entry at its
  index has not executed that statement before; what is in the log was proposed and not
  refused (`Proposed`); a node that restores is not in its first life (`LivesCounted`), so
  nothing but `Apply` has touched the files of one that is; it has skipped nothing it has
  not applied (`FirstLifeInOrder`); and an error was told of an entry that the node
  skipped or nobody can execute (`Answers`).
- `FirstLivesAgree`: `Spec => []AgreeAtFirst`. Of two nodes that were neither restarted
  nor restored, the one behind has no effect that the other lacks, and two that have
  applied as much hold the same, but for statements that failed on one of them alone.
  `MCMultiFSM_replay` (section 5) shows what is left of this after a restart.
- `RemoteStops`: `Spec => []RemoteStopsSnapshots`. A snapshot in the making always
  has a remote database left to open (`RemoteBlocks`).
- `PrimaryRunsOncePerNode`: `Spec => []PrimaryCounts`. The executions at a primary lie
  between the number of nodes that executed the statement without an error and the number
  of those that applied it: one that got an error, an answer of the primary being lost,
  may have added an execution or not (`AppliedCounts`).
- `Refinement`: `Spec => ImplementsStore`. The initial
  state maps to the initial state, and each action to one action of the store or to a
  stutter: `ApplyLog` to `Submit`, `Commit` to `Agree`, each outcome of `Apply` to
  `Advance`, each step of `Restore` to `Transfer` (one that fails to a `Transfer` that
  spoils the data), a crash and the loss of leadership to `Disturb`. That a restored
  node holds what is due at its new position is `NoLostWrite` and its companions;
  that an answer comes with its entry is `HistoryInductive`: this is where the invariants
  are used together.

### Manager and its watcher

`ManagerProofs` (1833), from `ManagerAssumption`: `ManagerTyped`, `ClosesSafely`
(`SafeClose`), `StopsOnce` (`StopOnce`), `NoWriteIsHidden` (`GateCoversWrites`), and
`ManagerInductive`. `SafeClose` needs that a goroutine in the body of its call holds
the lock (`LockHeld`), because `StopClose` then knows that nobody is, and that Raft
stops before the connectors close (`StopOrder`). `GateCoversWrites` needs to know of
a sync in its middle which databases it has still to visit (`SyncCatchesUp`,
`Visited`). The lemmas about the lock (`RLockFacts` and the next three) are the only
place where the definitions of `RWMutex` are opened; after that one lemma says what a
step of one goroutine preserves, and each action is an instance of it or has its own.

Four more theorems say what becomes of a manager whose callback and whose callers wait
for each other:

- `NothingUnwedges`: `Spec => StaysWedged`. A wedged manager stays so, whatever is
  called, elected or shut down afterwards. The holder of the lock that waits cannot go
  on, the writer in front of it keeps everyone else out, and Raft cannot stop.
- `OneFuture`: `Spec => []Futures`, the invariant of the next two: a proposer waits, its
  entry is queued at most once or is the one being applied, and is never at the same
  time among those whose future has been answered.
- `OwnEntriesWedge`: `Spec => []OwnEntryWedges`. The proposer of an entry that is in its
  callback still waits, and holds the lock (`LockHeld`).
- `ExecNeverSucceeds`: `Spec => []NoExecSucceeds`. No call of `Exec` is ever answered with
  success, with any number of callers, elections and shutdowns: an entry that succeeds
  has a callback, whose caller is answered only after it (`Kinds`: the entry in hand is
  of the kind its proposer asked for). `MCManager_exec` shows one execution that does
  not return; this is the statement for all of them.

What liveness needs beyond these, that every call returns unless the manager is wedged,
is `ReturnsUnlessWedged`, which TLC checks. It says `[]<>(returned \/ Wedged)`: since
nothing unwedges a manager, that is each call returns, or the manager is wedged for ever.

`LeaderWatchProofs` (544): `WatchTypeCorrect`, `ClosedOnce` (`NoDoubleClose`),
`OnlyOneTicker` (`OneTicker`), `OnlyLossCrashes` (`CrashNeedsLoss`), from
`WatchInductive`. The closures share `syncTicker`
and `syncStop` without a lock, and the watcher clears them in two steps. The
invariant says what they are at each of its steps (`SharedInOrder`), and that the
sync goroutines are numbered without gaps, each for a notification of its own
(`Numbered`): a ticker that runs is then the last one that was made, and its channel
has not been closed. `OnlyLossCrashes` says what `LeaderWatch_crash` needs: before the
leadership has been lost, `syncTicker` is set once a sync goroutine was started
(`Lossless`), so neither the first term nor the end of the manager brings the process
down.

### ClusterFormation

`ClusterFormationProofs` (1996), from `FormationAssumption` (typing of the constants,
and that a node answers at its own address):

- `FormationTyped`: `Spec => []TypeOK`.
- `AtMostOneCluster`: with at most one node without peers, `Spec => []OneCluster`,
  whatever fails, times out, ends and starts again. This is what the removal of a
  node from its own list of peers is for. The invariant: a configuration goes back
  to a bootstrap of a node without peers. It needs that candidates and leaders have
  a configuration, which is why `Candidate` and `Committed` appear in its steps.
- `FoundersAreLost`: `Spec => FounderIsLost`. A node without peers that has once been in
  a term, and has no manager, never has one again, whatever the rest of the cluster and
  the operator do: its next `NewManager` bootstraps, which a log store that is not
  empty refuses. `MCClusterFormation_restart` shows one such start; this says that
  starting it again does not help. Only terms that never go back are needed of Raft.
- `OneManagerPerProcess`: `Spec => ManagerOncePerProcess`. A process whose manager was
  shut down, or could not be made, keeps the log store open, so that a further
  `NewManager` in it hangs: only its end frees the store.
- `NoSeedNoCluster`: if every node names a peer, no node ever has a
  configuration: the documented three-node environment (section 5) cannot work on
  any instance.
- `AddedMembersStay`: with at most one node without peers, `Spec => []AddedStays`:
  no answer of `AddPeer` is ever taken back, on clusters of any size, under several
  addresses of one node, through any number of elections and changes.

The last one is the argument that changing a configuration by one server at a time,
when the change before is committed, is safe, for the way the code leaves it to
Raft. A configuration is *active* while a majority of it is not past it. The
invariant `MembersInv` has five parts: terms and versions order and identify
configurations and leaders (`TermsOrdered`, `Identified`); any two majorities of
active configurations meet, and each majority of an active one has a server in every
term there is a configuration of (`ActiveMeet`); a leader that has been overtaken
can no longer commit, or has the same servers as the newer configuration
(`StaleLeader`); what was added is in every active configuration, what is being added
in that of the leader that adds it (`AddedActive`). `CommittedRules` draws the
consequence that the actions need: a leader that has committed its configuration knows
the servers of every active one. The lemmas about majorities (`MajoritiesOneApart`,
`MeetOneApart`, `MeetBlocks`) are stated of any configurations and use only
cardinalities.

Two things were found on the way. `AddedStays` used to speak of every leader whose
term is the newest among the *leaders*; that is false, and TLC shows it once two nodes
may be disturbed: after an election one leader of the old term, whose configuration
lacks what the new leader added, is the only one left when the new one ends. It
is now stated of leaders whose term is the newest of all nodes, or that have
committed their configuration, which are the ones that can answer a call. And
`Replicate` left a call pending on the leader it overwrites; Raft answers such a call
with an error, and so does the action now.

### Provisioning and synchronisation

`ProvisioningProofs` (740): `ProvisioningTypeCorrect`, `StartedNodesAgree`
(`NodesAgree`), `OnlyWorkableStarts` (`OnlyWorkable`), from `ProvisioningInductive`, and
`OnlyOwnDatabases`: `Spec => NoStrayDatabase`. What `dbInfo` says of a key is a URL and,
if the answer that the node got carries one, the version of the server that hosts its
name (`InfoIsExact`); a handle is what `Connector` makes of that (`HandlesAsMade`). Two
finished nodes that are configured alike thus agree, with one exception, which
`NodesAgree` states: the build with embedded databases opens a database of an old server
as a remote one and any other as a replica, so the node that created it and those that
found it differ if only one of the two kinds of answers has the version (`Lopsided`). A
test of the repository answers a lookup without one (`turso_test.go:24`).

`TursoSyncProofs` (924): `SyncTypeCorrect`, `GateOpens` (`GateFollowsWrites`),
`PulledDataIsSaved` (`PulledIsSaved`), `ReplicaCoversSnapshot` (`FileCoversSnapshot`),
from `SyncInductive`, and `StuckUntilTheEnd`: `Spec => StuckForLife`.

- `PulledIsSaved` is about a finished `SyncAll`: what a replica has and the newest
  snapshot has not is owed to a loss that is named, a snapshot left out, failed or
  outdated, a process that ended, a pull that failed after it wrote, two hashes that
  failed, a `Restore` that failed under a newer snapshot. Its meaning is that there is no
  other. While a `SyncAll` runs, what it has not changed is saved (`UnchangedIsSaved`), and
  the snapshot it waits for has the data the replica still has (`CopyIsCurrent`), unless
  a newer snapshot from the leader has replaced both (`SyncInOrder`, `NotNewer`).
- `FileCoversSnapshot` holds while no `Restore` has failed since the last that succeeded
  or the last snapshot (`torn`). It compares a replica with the snapshot in its node's
  store; that a restart takes both back behind what the replica once held is the code's
  behaviour (section 5).
- `GateFollowsWrites` is about the statements that the last finished sync has not seen,
  and needs that an entry is in the log once: a statement executed again after a restart
  is the same statement.

### Peer addresses

`AddressingProofs` (598), from `AddressAssumption` (what tells a name from an IPv6
address, what resolving a host gives) and `AddressingAssumption` (section 2):

- `PeersOfAnyList`: whatever texts the environment variable holds, and however many,
  exactly the plain ones that are not the node itself become its peers, whichever
  constructor goes through them. `AnyTwoStrings` is the bounded form that TLC evaluates.
- `AdvertisedByAny`: what `ResolveAdvertiseAddress` makes of any bind address and any
  environment is no wildcard, unless the environment names one, and is accepted by
  `AddPeer` and in lists of peers exactly if it is not IPv6. `AdvertisedByBounded` is
  its bounded form.
- `PeersAreCoded`: `Spec => []PeersAsCoded`, and `OwnAddressAccepted`:
  `Spec => []OwnIsAccepted`: the two carried over to the cluster that forms from these
  addresses.

The lists are filtered (`Keep`), which takes an induction on their length.
The library's induction theorem has an operator for a parameter, which the provers
cannot instantiate, so `Induction` is stated for a *set* of numbers and derived from the
pigeonhole principle for finite sets: if some `m` were not in a set that contains 0 and
the successor of each of its members, adding one would map its members up to `m`
one-to-one into those other than 0, which are fewer.

What the texts mean is the abstraction of section 2: two texts with the same parts are
the same address, and a name does not change what it resolves to.

### What is only model-checked

- Every liveness property (`ApplyLogReturns`, `ReturnsUnlessWedged`, `LeaderSyncs`,
  `WatcherEnds`, `LeaderReturns`, `MemberStarts`, `StartHeals`, `LeaderSynchronises`):
  fairness is defined with `ENABLED`, which the prover does not treat.
- The properties of section 5, which are violated.

## 5. Disagreements between the code and its documents

Shown by a run each:

- `MCMultiFSM_replay` (`ReplicasAgree`): a node that restarts before its first
  snapshot replays the log over files that already hold it and executes every
  statement twice.
- `MCMultiFSM_same_name` (`ReplicaIsCurrent`): members of the snapshot archive
  carry base names only; with `core/app.db` and `edge/app.db` `Restore` writes one over
  the other.
- `MCManager_exec` (`ExecReturns`): `Exec` on the leader waits, with the read lock
  held, for an entry whose callback needs the write lock: it never returns. That no
  `Exec` on any node ever succeeds is proved (`ExecNeverSucceeds`, and in `MultiFSM` the
  last conjunct of `AnswerIsTrue`); what does come back, entries that are lost, fail or
  can be executed by no node, is `ApplyLogReturns`.
- `LeaderWatch_crash` (`NeverCrashes`): leadership lost during a sync leaves
  `syncTicker` nil, and the sync goroutine dereferences it.
- `MCClusterFormation_restart` (`Starts`): a node without peers cannot be started
  again over its own stores, since `BootstrapCluster` refuses. Proved for every
  cluster, and for ever: `FoundersAreLost`.

Proved: if every node names the others, as the three-node example of
`ARCHITECTURE.md` shows (lines 327-343), nobody bootstraps, no node ever has a
configuration (`NoSeedNoCluster`), and every `NewManager` times out.

Present in the models, without a run of their own:

- `EnsureAllDBs` looks a database up by its name alone: of two groups with a
  database of the same name the second gets the first one's, although "all
  databases in all configured groups exist" (`turso.go:86`).
- With `UseEmbedded` no URL is ever looked up, so a group with a token makes
  `NewManager` fail and one without is purely local: the replica with Turso sync of
  the comment at `manager.go:393` is never made. `NewManagerWithTransport` looks the
  URL up, but fails for a pure-local group with a token, and without the credentials
  that "In embedded mode, it's optional" (`manager.go:168`) says it can do without.
- A node that loses the race to create a database fails with `unexpected status
  code`, and its next attempt succeeds (`StartHeals`).
- A snapshot is not a point in time: it holds effects of entries beyond its index,
  which are then applied again; a file copied during a write is torn
  (`fsm.go:178-217`). `NoLostWrite` exempts torn files for this reason.
- A local failure of `ExecContext` leaves a replica behind (`fsm.go:90`) until a restart
  executes the statement late or a snapshot brings it: `FirstLifeExact` says that the
  replica is behind by exactly these statements, not that it is not behind.
- An error that `ApplyLog` returns does not mean that nothing happened: other nodes may
  have executed the statement, and so may this one after a restart; for a remote database
  the primary may have. A caller that tries again may execute it twice. `AnswerIsTrue` and
  `PrimaryCounts` state what is left.
- In the remote-only build each node executes each statement on the one primary.
- `Shutdown` and `SyncAll` deadlock with `onApplied` as `Exec` does: they are the
  other two cases of `Wedged`, and `ReturnsUnlessWedged` says there is no fourth.
- `SyncAll` takes no notice of an error of `hashFile` (`manager.go:688, 693`), nor of what
  a pull that failed has written: such data is in no snapshot before the file changes
  again. `PulledIsSaved` exempts both.
- `SyncAll` returns nil if a database could not be synchronised
  (`manager.go:690`) and forgets a snapshot it left out because of `SnapMinGap`
  (`manager.go:700`) or that failed: the next sync finds the file unchanged, and the
  data stays out of snapshots until a file changes again. `PulledIsSaved` exempts these cases.
- "New snapshot distributed to all nodes" (`ARCHITECTURE.md:304`): a snapshot is
  only sent to a follower that lacks entries; one that keeps up never sees what
  the leader pulled, so replicas of a database that changes at its primary differ.
- A restart puts the newest snapshot back over files that a later pull had made
  newer, and since `lastWrite` and `lastSync` start at zero, the gate stays shut until
  the next statement (the exempt case of `GateFollowsWrites`).
- "Only syncs if local database changed" (`ARCHITECTURE.md:302`): the gate opens
  after a statement, not after a change at the primary, so a leader whose cluster only
  reads never pulls.
- A node that advertises an IPv6 address, as `raft_test.go:31` expects on one
  platform, can neither be listed as a peer nor be added: `ValidatePeerAddress` wants
  exactly one colon (`peer.go:43`). `OwnIsAccepted` states the exception.
- An encryption key that cannot be decoded leaves the database unencrypted, with a
  line in the log (`connector_embed.go:231`), although `ENCRYPTION.md` describes a key
  as always used.
- `SyncAll` writes shared fields under the read lock, the schedule reads them
  with none (`manager.go:668, 695`).
- Leadership lost and won again during a sync leaves two sync goroutines;
  cancelling `ctx` leaves one for ever (`manager.go:620, 637`).
- A second `NewManager` in a process whose first one failed, or was shut down,
  hangs on the lock of `logs.db` (`raft.go:51`).
- A node added by a host name, as the comments of `Manager.AddPeer` recommend, is not
  in its own configuration, whose server IDs are the strings given, and can never lead. If
  the other nodes are down or lag behind, a majority of such nodes has no leader:
  `LeaderReturns` and `MemberStarts` state this as an exception (`Misnamed`), without which
  TLC finds them violated on the instance of section 3.
- A server whose answers to creations have no version, where those to lookups have one
  of 0.x, or the reverse, is opened differently by the node that created the database
  and the others (`Lopsided`, the exception of `NodesAgree`).
- In a cluster of two a leader that removes itself and ends before the other node
  has the change leaves a cluster that cannot elect a leader.
  `LeaderReturns` speaks of configurations a majority holds.

## 6. What is not modelled

- Raft itself: log matching, terms of entries, commitment, snapshots older than
  the newest one, partitions between nodes that are up, non-voters.
- SQLite: page cache, WAL side files, the content of statements. A torn file
  stands for any damage. A statement takes effect as a whole or not at all: an SQL text of
  several statements of which the first succeed is not modelled.
- The primaries of embedded replicas in `MultiFSM`: each node that executes a statement on
  one also commits it there, as with a remote database.
- The fallback of Raft to an older snapshot when it cannot restore the newest one.
- An API whose answers of one kind carry the version at one time and not at another.
- The arguments of a statement (a JSON round trip that changes some values), and
  `Query` results: the handles it returns are used after the lock is released.
- Times: only comparisons the code makes, as Booleans.
- The encoding of requests, DSNs and encryption keys; what a connector does beyond
  being local, remote or a replica; connectors left open by a failed attempt; the
  checks of the configuration other than of tokens; examples.
- Addresses: zones of IPv6 addresses and other text that no colon or space
  distinguishes; names that change what they resolve to.
- Snapshots and pulls in `TursoSync` are atomic per database; the mixed contents a
  copy may have are in `MultiFSM`.

## 7. Plan

The order in which the modules were, and will be, written: what can lose data
first, then what can block, then how it starts, then the sequential parts.

1. `MultiFSM`, `MultiFSMProofs` - done.
2. `Manager`, `RWMutex`, `LeaderWatch` - done.
3. `ClusterFormation`, `ClusterFormationProofs` - done.
4. `ManagerProofs`, `Provisioning` - done.
5. `ReplicatedStore` and `StoreRefinement` - done.
6. `PeerAddress` composed with `ClusterFormation`, `TursoSync` - done.
7. `AnswerProofs` with the refinement, `LeaderWatchProofs`, `ProvisioningProofs`,
   `TursoSyncProofs`, `AddedMembersStay` - done.
8. `Addressing`, `AddressingProofs`, what a wedged manager, a lost founder and an
   orphaned process can never do again - done: no invariant and no action property that
   a passing run checks is left without a theorem.
9. That the abstraction of `Manager` in `TursoSync` is sound is argued (section 2), not
   shown as a refinement: `TursoSync` has one `SyncAll` per node and the time that passes
   open, `Manager` several and one node, so neither is a behaviour of the other as
   they stand.
10. The argument conversion and the decoding of encryption keys, as pure operators.

## 8. How to run it

    tlasany MultiFSM.tla
    tlc -workers 2 -config MCMultiFSM_safety.cfg MCMultiFSM
    tlapm MultiFSMProofs.tla

The longest run takes about three minutes on two cores, the proofs of a module a few
minutes at most.
