------------------------------ MODULE TursoSync -----------------------------
(***************************************************************************)
(* Synchronising with Turso across the cluster: what the nodes' schedules, *)
(* SyncAll calls, Manager locks, FSM goroutines and snapshots make of data *)
(* that changes at the primaries.  Every database is an embedded replica,  *)
(* whose sync function pulls from its primary.                             *)
(*                                                                         *)
(* Manager has the lock of one node in detail, MultiFSM the files of the   *)
(* log; here both are coarser and several nodes are composed.  External:   *)
(* Raft, as in MultiFSM, and the primaries, which others change.           *)
(***************************************************************************)
EXTENDS Naturals, Sequences, FiniteSets

CONSTANTS
  Node,
  Key,        \* the databases
  Call,       \* calls of Exec, each with one statement
  None,
  MaxCloud,   \* bound: the version at which the primaries stop changing
  MaxFaults   \* bound: processes that end; hashes, pulls, snapshots and
              \* installations that fail

ASSUME SyncAssumption ==
  /\ None \notin Node
  /\ MaxCloud \in Nat /\ MaxFaults \in Nat

VARIABLES
  log,       \* committed statements
  leader,    \* the leader, or None
  res, via,  \* what Exec c has returned, the node it was called on
  up,        \* up[n]: the process of n runs
  again,     \* again[n]: it has been started again
  applied,   \* applied[n]: entries of the log n has applied in this life
  inCb,      \* inCb[n]: its FSM goroutine waits for the lock in onApplied
  cloud,     \* cloud[k]: the version of k at its primary
  file,      \* file[n][k]: the version the replica of n has
  snap,      \* snap[n]: the index and the versions of its newest snapshot
  due,       \* due[n]: lastWrite.After(lastSync)
  snapped,   \* snapped[n]: lastSnap is set
  pc,        \* pc[n]: where SyncAll is on n
  left,      \* left[n]: databases it has still to visit
  changed,   \* changed[n]: the local variable of SyncAll
  persist,   \* persist[n]: the snapshot it waits for
  unsynced,  \* unsynced[n]: statements n has executed since its last sync
  owed,      \* owed[n]: databases with data that is known to be in no snapshot
  torn,      \* torn[n]: the last Restore of n failed, no snapshot was made since
  faults

raftVars == <<log, leader>>
callVars == <<res, via>>
nodeVars == <<up, again>>
fsmVars == <<applied, inCb>>
dataVars == <<cloud, file>>
gateVars == <<due, snapped>>
syncVars == <<pc, left, changed, persist>>
vars == <<raftVars, callVars, nodeVars, fsmVars, dataVars, snap, gateVars,
          syncVars, unsynced, owed, torn, faults>>

\* The content of a file when the nodes start, and of one that Restore has
\* emptied or written in part.
Oldest == [k \in Key |-> 0]
NoSnap == [index |-> 0, ver |-> Oldest]

Init ==
  /\ log = << >> /\ leader = None
  /\ res = [c \in Call |-> "idle"] /\ via = [c \in Call |-> None]
  /\ up = [n \in Node |-> TRUE] /\ again = [n \in Node |-> FALSE]
  /\ applied = [n \in Node |-> 0] /\ inCb = [n \in Node |-> FALSE]
  /\ cloud = Oldest /\ file = [n \in Node |-> Oldest]
  /\ snap = [n \in Node |-> NoSnap]
  /\ due = [n \in Node |-> FALSE] /\ snapped = [n \in Node |-> FALSE]
  /\ pc = [n \in Node |-> "idle"] /\ left = [n \in Node |-> {}]
  /\ changed = [n \in Node |-> FALSE] /\ persist = [n \in Node |-> NoSnap]
  /\ unsynced = [n \in Node |-> {}] /\ owed = [n \in Node |-> {}]
  /\ torn = [n \in Node |-> FALSE] /\ faults = 0

-----------------------------------------------------------------------------
Committed(c) == \E i \in 1..Len(log) : log[i] = c
Index(c) == CHOOSE i \in 1..Len(log) : log[i] = c
Majority == 2 * Cardinality({n \in Node : up[n]}) > Cardinality(Node)

\* Exec calls that hold the read lock of n, and everybody who holds it.
Waiting(n) == {c \in Call : res[c] = "waiting" /\ via[c] = n}
Unlocked(n) == Waiting(n) = {} /\ pc[n] = "idle"

Elect(n) ==
  /\ leader = None /\ up[n] /\ Majority
  /\ leader' = n
  /\ UNCHANGED <<log, callVars, nodeVars, fsmVars, dataVars, snap, gateVars,
                 syncVars, unsynced, owed, torn, faults>>

StepDown(n) ==
  /\ leader = n
  /\ leader' = None
  /\ res' = [c \in Call |-> IF c \in Waiting(n) /\ ~Committed(c) THEN "lost" ELSE res[c]]
  /\ UNCHANGED <<log, via, nodeVars, fsmVars, dataVars, snap, gateVars, syncVars,
                 unsynced, owed, torn, faults>>

Commit(c) ==
  /\ leader # None /\ Majority
  /\ res[c] \in {"waiting", "lost"} /\ ~Committed(c)
  /\ log' = Append(log, c)
  /\ UNCHANGED <<leader, callVars, nodeVars, fsmVars, dataVars, snap, gateVars,
                 syncVars, unsynced, owed, torn, faults>>

\* Somebody else changes a database at its primary.
CloudWrite(k) ==
  /\ \A j \in Key : cloud[j] < MaxCloud
  /\ cloud' = [cloud EXCEPT ![k] = @ + 1]
  /\ UNCHANGED <<raftVars, callVars, nodeVars, fsmVars, file, snap, gateVars,
                 syncVars, unsynced, owed, torn, faults>>

(* Exec, and the FSM goroutine with its callback *)

\* Exec gets the read lock unless a callback waits for the write lock.
Exec(n, c) ==
  /\ res[c] = "idle" /\ up[n] /\ leader = n /\ ~inCb[n]
  /\ res' = [res EXCEPT ![c] = "waiting"] /\ via' = [via EXCEPT ![c] = n]
  /\ UNCHANGED <<raftVars, nodeVars, fsmVars, dataVars, snap, gateVars, syncVars,
                 unsynced, owed, torn, faults>>

CanApply(n) == up[n] /\ ~inCb[n] /\ applied[n] < Len(log)

\* The statement is executed; its future completes only after the callback.
Apply(n) ==
  /\ CanApply(n)
  /\ applied' = [applied EXCEPT ![n] = @ + 1]
  /\ inCb' = [inCb EXCEPT ![n] = TRUE]
  /\ unsynced' = [unsynced EXCEPT ![n] = @ \cup {log[applied[n] + 1]}]
  /\ UNCHANGED <<raftVars, callVars, nodeVars, dataVars, snap, gateVars, syncVars,
                 owed, torn, faults>>

\* Faulty: the time of the last write is kept by the leader only.
Callback_LeaderOnly(n) ==
  /\ inCb[n] /\ Unlocked(n)
  /\ inCb' = [inCb EXCEPT ![n] = FALSE]
  /\ due' = [due EXCEPT ![n] = @ \/ leader = n]
  /\ UNCHANGED <<raftVars, callVars, nodeVars, applied, dataVars, snap, snapped,
                 syncVars, unsynced, owed, torn, faults>>

\* Faulty: an Exec that waits does not keep the callback out.
Callback_PassesExec(n) ==
  /\ inCb[n] /\ pc[n] = "idle"
  /\ inCb' = [inCb EXCEPT ![n] = FALSE]
  /\ due' = [due EXCEPT ![n] = TRUE]
  /\ UNCHANGED <<raftVars, callVars, nodeVars, applied, dataVars, snap, snapped,
                 syncVars, unsynced, owed, torn, faults>>

\* onApplied gets the write lock when no Exec and no SyncAll holds it.
Callback(n) ==
  /\ inCb[n] /\ Unlocked(n)
  /\ inCb' = [inCb EXCEPT ![n] = FALSE]
  /\ due' = [due EXCEPT ![n] = TRUE]
  /\ UNCHANGED <<raftVars, callVars, nodeVars, applied, dataVars, snap, snapped,
                 syncVars, unsynced, owed, torn, faults>>

(* SyncAll *)

Begin(n) ==
  /\ pc[n] = "idle" /\ up[n] /\ leader = n /\ ~inCb[n]
  /\ pc' = [pc EXCEPT ![n] = "sync"]
  /\ left' = [left EXCEPT ![n] = Key]
  /\ UNCHANGED <<raftVars, callVars, nodeVars, fsmVars, dataVars, snap, gateVars,
                 changed, persist, unsynced, owed, torn, faults>>

\* A tick that maybeSyncOnSchedule lets through.  SyncInterval, like SnapMinGap
\* below, may or may not have passed between any two steps.
Schedule(n) == due[n] /\ Begin(n)

\* Faulty: a change of one database is forgotten with the next one.
Pull_LastOnly(n, k) ==
  /\ pc[n] = "sync" /\ k \in left[n]
  /\ left' = [left EXCEPT ![n] = @ \ {k}]
  /\ changed' = [changed EXCEPT ![n] = file[n][k] # cloud[k]]
  /\ file' = [file EXCEPT ![n][k] = cloud[k]]
  /\ UNCHANGED <<raftVars, callVars, nodeVars, fsmVars, cloud, snap, gateVars, pc,
                 persist, unsynced, owed, torn, faults>>

\* SyncDatabase between two hashes of the file.  They differ if it has brought
\* something, and may if a statement was executed since SyncAll began (its
\* callback, which SyncAll keeps out, is then still to come).
Pull(n, k) ==
  /\ pc[n] = "sync" /\ k \in left[n]
  /\ left' = [left EXCEPT ![n] = @ \ {k}]
  /\ \E written \in {FALSE, inCb[n]} :
       changed' = [changed EXCEPT ![n] = @ \/ file[n][k] # cloud[k] \/ written]
  /\ file' = [file EXCEPT ![n][k] = cloud[k]]
  /\ UNCHANGED <<raftVars, callVars, nodeVars, fsmVars, cloud, snap, gateVars, pc,
                 persist, unsynced, owed, torn, faults>>

\* SyncAll ignores the error of hashFile.  One hash that fails differs from the
\* other; two that fail are equal, whatever was pulled between them.
HashFails(n, k) ==
  /\ pc[n] = "sync" /\ k \in left[n]
  /\ faults < MaxFaults /\ faults' = faults + 1
  /\ left' = [left EXCEPT ![n] = @ \ {k}]
  /\ file' = [file EXCEPT ![n][k] = cloud[k]]
  /\ \/ /\ changed' = [changed EXCEPT ![n] = TRUE] /\ UNCHANGED owed
     \/ /\ owed' = [owed EXCEPT ![n] = IF file[n][k] # cloud[k] THEN @ \cup {k} ELSE @]
        /\ UNCHANGED changed
  /\ UNCHANGED <<raftVars, callVars, nodeVars, fsmVars, cloud, snap, gateVars, pc,
                 persist, unsynced, torn>>

\* SyncDatabase fails, before or after it has written the file: SyncAll goes on
\* to the next database without a second hash.
PullFails(n, k) ==
  /\ pc[n] = "sync" /\ k \in left[n]
  /\ faults < MaxFaults /\ faults' = faults + 1
  /\ left' = [left EXCEPT ![n] = @ \ {k}]
  /\ \/ UNCHANGED <<file, owed>>
     \/ /\ file[n][k] # cloud[k]
        /\ file' = [file EXCEPT ![n][k] = cloud[k]]
        /\ owed' = [owed EXCEPT ![n] = @ \cup {k}]
  /\ UNCHANGED <<raftVars, callVars, nodeVars, fsmVars, cloud, snap, gateVars, pc,
                 changed, persist, unsynced, torn>>

\* Databases of n with data that its newest snapshot does not have.
Newer(f, s) == {k \in Key : f[k] > s.ver[k]}
Unsaved(n) == Newer(file[n], snap[n])

\* SyncAll returns and releases the read lock.
Return(n) ==
  /\ pc' = [pc EXCEPT ![n] = "idle"]
  /\ changed' = [changed EXCEPT ![n] = FALSE]
  /\ persist' = [persist EXCEPT ![n] = NoSnap]

\* lastSync = time.Now().  A statement whose callback is still to come may have
\* been executed after its database was synchronised.
Stamp(n) ==
  /\ due' = [due EXCEPT ![n] = FALSE]
  /\ unsynced' = [unsynced EXCEPT ![n] = IF inCb[n] THEN @ \cap {log[applied[n]]} ELSE {}]

\* Faulty: a sync that changed nothing does not count.
Finish_OnlyChanged(n) ==
  /\ pc[n] = "sync" /\ left[n] = {} /\ (changed[n] => snapped[n])
  /\ Return(n)
  /\ IF changed[n] THEN Stamp(n) ELSE UNCHANGED <<due, unsynced>>
  /\ owed' = IF changed[n] THEN [owed EXCEPT ![n] = Unsaved(n)] ELSE owed
  /\ UNCHANGED <<raftVars, callVars, nodeVars, fsmVars, dataVars, snap, snapped, left,
                 torn, faults>>

\* No snapshot: nothing changed, or the last one was taken too recently.
Finish(n) ==
  /\ pc[n] = "sync" /\ left[n] = {} /\ (changed[n] => snapped[n])
  /\ Return(n) /\ Stamp(n)
  /\ owed' = IF changed[n] THEN [owed EXCEPT ![n] = Unsaved(n)] ELSE owed
  /\ UNCHANGED <<raftVars, callVars, nodeVars, fsmVars, dataVars, snap, snapped, left,
                 torn, faults>>

Ask(n) ==
  /\ pc[n] = "sync" /\ left[n] = {} /\ changed[n]
  /\ pc' = [pc EXCEPT ![n] = "snapshot"]
  /\ UNCHANGED <<raftVars, callVars, nodeVars, fsmVars, dataVars, snap, gateVars, left,
                 changed, persist, unsynced, owed, torn, faults>>

\* The FSM goroutine, when it is free, notes the index; the snapshot goroutine
\* copies the files (one by one: MultiFSM) and completes the snapshot later.
Snapshot(n) ==
  /\ pc[n] = "snapshot" /\ ~inCb[n] /\ applied[n] > 0
  /\ pc' = [pc EXCEPT ![n] = "persist"]
  /\ persist' = [persist EXCEPT ![n] = [index |-> applied[n], ver |-> file[n]]]
  /\ UNCHANGED <<raftVars, callVars, nodeVars, fsmVars, dataVars, snap, gateVars, left,
                 changed, unsynced, owed, torn, faults>>

Persisted(n) ==
  /\ pc[n] = "persist"
  /\ Return(n) /\ Stamp(n)
  /\ snapped' = [snapped EXCEPT ![n] = TRUE]
  /\ IF persist[n].index >= snap[n].index
     THEN /\ snap' = [snap EXCEPT ![n] = persist[n]]
          /\ owed' = [owed EXCEPT ![n] = {}]
          /\ torn' = [torn EXCEPT ![n] = FALSE]
     ELSE /\ owed' = [owed EXCEPT ![n] = Unsaved(n)]
          /\ UNCHANGED <<snap, torn>>
  /\ UNCHANGED <<raftVars, callVars, nodeVars, fsmVars, dataVars, left, faults>>

\* Raft has nothing to put into a snapshot, or Persist fails: SyncAll returns
\* the error and leaves lastSync as it was.
SnapshotFails(n) ==
  /\ \/ pc[n] = "snapshot" /\ ~inCb[n] /\ applied[n] = 0 /\ UNCHANGED faults
     \/ pc[n] = "persist" /\ faults < MaxFaults /\ faults' = faults + 1
  /\ Return(n)
  /\ owed' = [owed EXCEPT ![n] = Unsaved(n)]
  /\ UNCHANGED <<raftVars, callVars, nodeVars, fsmVars, dataVars, snap, gateVars, left,
                 unsynced, torn>>

(* Restore, and the end and start of a process *)

\* Raft stores the leader's snapshot on a node that has fallen behind.
FetchSnapshot(n) ==
  /\ up[n] /\ ~inCb[n] /\ leader \notin {n, None}
  /\ snap[leader].index > applied[n] /\ snap[leader].index >= snap[n].index
  /\ Waiting(n) = {}
  /\ snap' = [snap EXCEPT ![n] = snap[leader]]

\* Faulty: the snapshot is stored, and the files are left as they are.
Install_KeepsFile(n) ==
  /\ FetchSnapshot(n)
  /\ applied' = [applied EXCEPT ![n] = snap[leader].index]
  /\ owed' = [owed EXCEPT ![n] = {}] /\ torn' = [torn EXCEPT ![n] = FALSE]
  /\ UNCHANGED <<raftVars, callVars, nodeVars, inCb, dataVars, gateVars, syncVars,
                 unsynced, faults>>

\* It then has the FSM goroutine restore it (file by file: MultiFSM).
Install(n) ==
  /\ FetchSnapshot(n)
  /\ file' = [file EXCEPT ![n] = snap[leader].ver]
  /\ applied' = [applied EXCEPT ![n] = snap[leader].index]
  /\ owed' = [owed EXCEPT ![n] = {}] /\ torn' = [torn EXCEPT ![n] = FALSE]
  /\ UNCHANGED <<raftVars, callVars, nodeVars, inCb, cloud, gateVars, syncVars,
                 unsynced, faults>>

\* What a Restore of v that returns an error may leave of the files f.
PartRestored(f, v) == {g \in [Key -> 0..MaxCloud] : \A k \in Key : g[k] \in {f[k], v[k], 0}}

\* Restore fails: the snapshot stays in the store, and the node goes on with the
\* applied index it had.
InstallFails(n) ==
  /\ FetchSnapshot(n)
  /\ faults < MaxFaults /\ faults' = faults + 1
  /\ \E g \in PartRestored(file[n], snap[leader].ver) :
       /\ file' = [file EXCEPT ![n] = g]
       /\ owed' = [owed EXCEPT ![n] = Newer(g, snap[leader])]
  /\ torn' = [torn EXCEPT ![n] = TRUE]
  /\ UNCHANGED <<raftVars, callVars, nodeVars, fsmVars, cloud, gateVars, syncVars,
                 unsynced>>

\* lastWrite, lastSync and lastSnap are gone with the process.
Crash(n) ==
  /\ up[n] /\ faults < MaxFaults /\ faults' = faults + 1
  /\ up' = [up EXCEPT ![n] = FALSE]
  /\ leader' = IF leader = n THEN None ELSE leader
  /\ res' = [c \in Call |-> IF c \in Waiting(n) THEN "lost" ELSE res[c]]
  /\ applied' = [applied EXCEPT ![n] = 0] /\ inCb' = [inCb EXCEPT ![n] = FALSE]
  /\ due' = [due EXCEPT ![n] = FALSE] /\ snapped' = [snapped EXCEPT ![n] = FALSE]
  /\ Return(n) /\ left' = [left EXCEPT ![n] = {}]
  /\ owed' = [owed EXCEPT ![n] = Unsaved(n)]
  /\ UNCHANGED <<log, via, again, dataVars, snap, unsynced, torn>>

\* Faulty: the last entry of the snapshot is applied again.
Start_Again(n) ==
  /\ ~up[n]
  /\ up' = [up EXCEPT ![n] = TRUE] /\ again' = [again EXCEPT ![n] = TRUE]
  /\ applied' = [applied EXCEPT ![n] = snap[n].index - 1]
  /\ file' = [file EXCEPT ![n] = snap[n].ver]
  /\ owed' = [owed EXCEPT ![n] = {}] /\ torn' = [torn EXCEPT ![n] = FALSE]
  /\ UNCHANGED <<raftVars, callVars, inCb, cloud, snap, gateVars, syncVars, unsynced,
                 faults>>

\* A snapshot is restored over the files; without one they are as they were.
Start(n) ==
  /\ ~up[n]
  /\ up' = [up EXCEPT ![n] = TRUE] /\ again' = [again EXCEPT ![n] = TRUE]
  /\ applied' = [applied EXCEPT ![n] = snap[n].index]
  /\ IF snap[n] = NoSnap THEN UNCHANGED <<file, owed, torn>>
     ELSE /\ file' = [file EXCEPT ![n] = snap[n].ver]
          /\ owed' = [owed EXCEPT ![n] = {}] /\ torn' = [torn EXCEPT ![n] = FALSE]
  /\ UNCHANGED <<raftVars, callVars, inCb, cloud, snap, gateVars, syncVars,
                 unsynced, faults>>

\* Restore fails, and with it NewRaft and the start of the node, any number of
\* times.
StartFails(n) ==
  /\ ~up[n] /\ snap[n] # NoSnap
  /\ \E g \in PartRestored(file[n], snap[n].ver) : file' = [file EXCEPT ![n] = g]
  /\ torn' = [torn EXCEPT ![n] = TRUE]
  /\ UNCHANGED <<raftVars, callVars, nodeVars, fsmVars, cloud, snap, gateVars, syncVars,
                 unsynced, owed, faults>>

Sync(n) ==
  \/ \E k \in Key : Pull(n, k) \/ HashFails(n, k) \/ PullFails(n, k)
  \/ Finish(n) \/ Ask(n) \/ Snapshot(n) \/ Persisted(n) \/ SnapshotFails(n)

Next ==
  \/ \E n \in Node :
       \/ Elect(n) \/ StepDown(n) \/ Install(n) \/ InstallFails(n)
       \/ Crash(n) \/ Start(n) \/ StartFails(n)
       \/ \E c \in Call : Exec(n, c)
       \/ Apply(n) \/ Callback(n)
       \/ Begin(n) \/ Schedule(n) \/ Sync(n)
  \/ \E c \in Call : Commit(c)
  \/ \E k \in Key : CloudWrite(k)

Spec == Init /\ [][Next]_vars

\* Goroutines go on, time passes and the ticker ticks, a leader commits what it
\* was given or, without a majority, gives up.
Fairness ==
  /\ \A n \in Node : /\ WF_vars(Apply(n) \/ Callback(n))
                     /\ WF_vars(Schedule(n) \/ Sync(n))
                     /\ WF_vars(~Majority /\ StepDown(n))
  /\ \A c \in Call : WF_vars(res[c] = "waiting" /\ Commit(c))

FairSpec == Spec /\ Fairness

-----------------------------------------------------------------------------
(* Properties *)

Snap == [index : Nat, ver : [Key -> Nat]]

\* The variables stay within their types.
TypeOK ==
  /\ log \in Seq(Call) /\ leader \in Node \cup {None}
  /\ res \in [Call -> {"idle", "waiting", "lost"}] /\ via \in [Call -> Node \cup {None}]
  /\ up \in [Node -> BOOLEAN] /\ again \in [Node -> BOOLEAN]
  /\ applied \in [Node -> Nat] /\ inCb \in [Node -> BOOLEAN]
  /\ cloud \in [Key -> Nat] /\ file \in [Node -> [Key -> Nat]]
  /\ snap \in [Node -> Snap] /\ persist \in [Node -> Snap]
  /\ due \in [Node -> BOOLEAN] /\ snapped \in [Node -> BOOLEAN]
  /\ pc \in [Node -> {"idle", "sync", "snapshot", "persist"}]
  /\ left \in [Node -> SUBSET Key] /\ changed \in [Node -> BOOLEAN]
  /\ unsynced \in [Node -> SUBSET Call] /\ owed \in [Node -> SUBSET Key]
  /\ torn \in [Node -> BOOLEAN] /\ faults \in Nat

\* On every node, leader or not, a statement that it has executed and that its
\* last finished SyncAll did not see opens the gate of its schedule (so that a
\* node can take over at once when it is promoted), unless the callback is still
\* to come or the process has ended since: then the statement is either
\* replayed, or in the snapshot the node was started from, which is the one case
\* in which the gate hides it.
GateFollowsWrites ==
  \A n \in Node : up[n] /\ ~due[n] /\ ~inCb[n] =>
    \A c \in unsynced[n] : again[n] /\ (Index(c) <= snap[n].index \/ Index(c) > applied[n])

\* When no SyncAll runs, data of a replica that its newest snapshot does not
\* have is owed to one of the losses that SyncAll accepts: the snapshot left out
\* (SnapMinGap), failed, or older than one whose Restore failed; the process that
\* ended before it; a pull that failed after it wrote, or that no hash saw.
\* Nothing else loses it, and one snapshot is enough for several databases.
PulledIsSaved ==
  \A n \in Node : pc[n] = "idle" => Unsaved(n) \subseteq owed[n]

\* A replica is not older than the newest snapshot in its node's store, whatever
\* syncs, snapshots and installed snapshots of other leaders come between, as
\* long as no Restore has failed since the last that succeeded or the last
\* snapshot.  (Both may be older than what the replica once held: a restart
\* goes back to the snapshot.)
FileCoversSnapshot ==
  \A n \in Node, k \in Key : ~torn[n] => file[n][k] >= snap[n].ver[k]

\* The FSM goroutine waits for an Exec, or for the SyncAll that asked for a
\* snapshot, which waits for the FSM goroutine.
Stuck(n) ==
  inCb[n] /\ (pc[n] = "snapshot" \/ \E c \in Waiting(n) : Committed(c))

\* Nothing frees a node in that state but the end of its process: no election,
\* lost leadership, sync or snapshot does.
StuckForLife == [][\A n \in Node : Stuck(n) => Stuck(n)' \/ ~up'[n]]_vars

\* A leader with unsynchronised statements, one that was promoted with them too,
\* synchronises, unless it loses the leadership, ends, or gets stuck.
LeaderSynchronises ==
  \A n \in Node :
    leader = n /\ due[n] ~>
      ~due[n] \/ leader # n \/ Stuck(n)
=============================================================================
