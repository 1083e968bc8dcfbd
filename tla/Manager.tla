------------------------------ MODULE Manager -------------------------------
(***************************************************************************)
(* The Manager of one node: the calls of its API, SyncAll from callers and *)
(* from the background loop, Shutdown, and the FSM goroutine of Raft whose *)
(* onApplied callback takes the same lock as all of them.                  *)
(*                                                                         *)
(* External: Raft, which leads or follows, commits proposals, hands the    *)
(* committed entries to the FSM goroutine one by one, has that goroutine   *)
(* start a snapshot, and on shutdown waits for that goroutine to exit; and *)
(* sync.RWMutex (module RWMutex).                                          *)
(***************************************************************************)
EXTENDS Naturals, Sequences, FiniteSets

CONSTANTS
  Client,     \* goroutines that make one API call each
  Syncer,     \* goroutines that call SyncAll
  Loop,       \* the one of them that is the background sync goroutine
  Stopper,    \* goroutines that call Shutdown
  Fsm,        \* Raft's FSM goroutine
  Key,        \* the databases
  Ask,        \* kinds of call the clients may make
  CanLead,    \* whether this node may become the leader
  MaxRemote,  \* bound: entries that arrive from another leader
  None

Thread == Client \cup Syncer \cup Stopper \cup {Fsm}

ASSUME ManagerAssumption ==
  /\ None \notin Thread /\ Fsm \notin Client \cup Syncer \cup Stopper
  /\ Client \cap Syncer = {} /\ Stopper \cap (Client \cup Syncer) = {}
  /\ Ask \subseteq {"exec", "reject", "peer", "read"}
  /\ Loop \in Syncer \cup {None}
  /\ CanLead \in BOOLEAN /\ MaxRemote \in Nat

Rw == INSTANCE RWMutex WITH NoThread <- None

VARIABLES
  mu,         \* Manager.mu
  pc,         \* pc[t]: where goroutine t is
  op,         \* op[t]: the kind of call client t makes
  ans,        \* ans[t]: what the call of t has returned
  isRunning,  \* Manager.isRunning
  stopCh,     \* how often Manager.stopCh was closed
  connected,  \* the connectors are open
  due,        \* lastWrite.After(lastSync)
  unsynced,   \* databases written since SyncDatabase last succeeded on them
  missed,     \* databases whose last SyncDatabase failed
  left,       \* left[t]: databases SyncAll of t has still to visit
  changed,    \* changed[t]: the local variable of SyncAll
  leading,    \* raftNode.State() == Leader
  raft,       \* "up", "stopping" or "stopped"
  pending,    \* proposers whose entry is not committed yet
  queue,      \* committed entries waiting for the FSM goroutine
  cur,        \* the entry that goroutine is applying
  remote      \* entries received from another leader so far

syncVars == <<due, unsynced, missed, left, changed>>
raftVars == <<leading, raft, pending, queue, cur, remote>>
vars == <<mu, pc, op, ans, isRunning, stopCh, connected, syncVars, raftVars>>

\* An entry of the log: its proposer, if that is one of ours, and its kind.
Entry == [who : Client \cup {None}, kind : Ask \cup {"exec", "none"}]
NoEntry == [who |-> None, kind |-> "none"]

Init ==
  /\ mu = Rw!Unlocked
  /\ pc = [t \in Thread |-> "idle"]
  /\ op = [t \in Client |-> "none"]
  /\ ans = [t \in Thread |-> "none"]
  /\ isRunning = TRUE /\ stopCh = 0 /\ connected = TRUE
  /\ due = FALSE /\ unsynced = {} /\ missed = {}
  /\ left = [t \in Syncer |-> {}] /\ changed = [t \in Syncer |-> FALSE]
  /\ leading = FALSE /\ raft = "up" /\ pending = {} /\ queue = << >>
  /\ cur = NoEntry /\ remote = 0

-----------------------------------------------------------------------------
Goto(t, label) == pc' = [pc EXCEPT ![t] = label]

Answer(t, a) ==
  /\ ans' = [ans EXCEPT ![t] = a]
  /\ pc' = [pc EXCEPT ![t] = "answered"]

Reading(t) == t \in mu.readers
Writing(t) == mu.writer = t

\* The deferred RUnlock of every call that took the read lock.  The background
\* loop goes back to its select.
Return(t) ==
  /\ pc[t] = "answered"
  /\ mu' = Rw!RUnlock(mu, t)
  /\ Goto(t, IF t = Loop THEN "idle" ELSE "done")
  /\ UNCHANGED <<op, ans, isRunning, stopCh, connected, syncVars, raftVars>>

(* Exec, AddPeer and RemovePeer propose; Query, Database, GetPeers, GetLeader
   and IsLeader read *)

Call(t, o) ==
  /\ pc[t] = "idle"
  /\ op' = [op EXCEPT ![t] = o]
  /\ mu' = Rw!RLock(mu, t)
  /\ Goto(t, "rlock")
  /\ UNCHANGED <<ans, isRunning, stopCh, connected, syncVars, raftVars>>

NotRunning(t) ==
  /\ pc[t] = "rlock" /\ Reading(t) /\ ~isRunning
  /\ Answer(t, "not running")
  /\ UNCHANGED <<mu, op, isRunning, stopCh, connected, syncVars, raftVars>>

Read(t) ==
  /\ pc[t] = "rlock" /\ Reading(t) /\ isRunning /\ op[t] = "read"
  /\ Goto(t, "reading")
  /\ UNCHANGED <<mu, op, ans, isRunning, stopCh, connected, syncVars, raftVars>>

ReadDone(t) ==
  /\ pc[t] = "reading"
  /\ Answer(t, "ok")
  /\ UNCHANGED <<mu, op, isRunning, stopCh, connected, syncVars, raftVars>>

\* ApplyLog, AddPeer and RemovePeer of package raft: refuse or propose, and
\* wait for the future with the read lock held.
Propose(t) ==
  /\ pc[t] = "rlock" /\ Reading(t) /\ isRunning /\ op[t] # "read"
  /\ IF leading
     THEN /\ pending' = pending \cup {t}
          /\ Goto(t, "waiting")
          /\ UNCHANGED ans
     ELSE /\ Answer(t, "not leader")
          /\ UNCHANGED pending
  /\ UNCHANGED <<mu, op, isRunning, stopCh, connected, syncVars, leading, raft,
                 queue, cur, remote>>

(* SyncAll *)

SyncCall(t) ==
  /\ pc[t] = "idle" /\ t # Loop
  /\ mu' = Rw!RLock(mu, t)
  /\ Goto(t, "rlock")
  /\ UNCHANGED <<op, ans, isRunning, stopCh, connected, syncVars, raftVars>>

\* maybeSyncOnSchedule: the gate reads lastSync and lastWrite without the lock.
LoopGate ==
  /\ pc[Loop] = "idle" /\ leading
  /\ Goto(Loop, "gate")
  /\ UNCHANGED <<mu, op, ans, isRunning, stopCh, connected, syncVars, raftVars>>

LoopSkip ==
  /\ pc[Loop] = "gate" /\ ~due
  /\ Goto(Loop, "idle")
  /\ UNCHANGED <<mu, op, ans, isRunning, stopCh, connected, syncVars, raftVars>>

LoopSync ==
  /\ pc[Loop] = "gate" /\ due
  /\ mu' = Rw!RLock(mu, Loop)
  /\ Goto(Loop, "rlock")
  /\ UNCHANGED <<op, ans, isRunning, stopCh, connected, syncVars, raftVars>>

SyncStart(t) ==
  /\ pc[t] = "rlock" /\ Reading(t)
  /\ IF leading
     THEN /\ left' = [left EXCEPT ![t] = Key]
          /\ changed' = [changed EXCEPT ![t] = FALSE]
          /\ Goto(t, "sync")
          /\ UNCHANGED ans
     ELSE /\ Answer(t, "not leader")
          /\ UNCHANGED <<left, changed>>
  /\ UNCHANGED <<mu, op, isRunning, stopCh, connected, due, unsynced, missed, raftVars>>

\* SyncDatabase succeeds, and the file's hash may be another one now.
SyncKey(t, k) ==
  /\ pc[t] = "sync" /\ k \in left[t]
  /\ left' = [left EXCEPT ![t] = @ \ {k}]
  /\ unsynced' = unsynced \ {k} /\ missed' = missed \ {k}
  /\ changed' \in {changed, [changed EXCEPT ![t] = TRUE]}
  /\ UNCHANGED <<mu, pc, op, ans, isRunning, stopCh, connected, due, raftVars>>

\* SyncDatabase fails: the error is printed and the loop continues.
SyncKeyFails(t, k) ==
  /\ pc[t] = "sync" /\ k \in left[t]
  /\ left' = [left EXCEPT ![t] = @ \ {k}]
  /\ missed' = missed \cup {k}
  /\ UNCHANGED <<mu, pc, op, ans, isRunning, stopCh, connected, due, unsynced,
                 changed, raftVars>>

\* Ask Raft for a snapshot if something changed and SnapMinGap has passed.
SyncSnapshot(t) ==
  /\ pc[t] = "sync" /\ left[t] = {}
  /\ \/ Goto(t, "stamp")
     \/ changed[t] /\ Goto(t, "snapshot")
  /\ UNCHANGED <<mu, op, ans, isRunning, stopCh, connected, syncVars, raftVars>>

\* lastSync = time.Now(), with only the read lock held.
SyncStamp(t) ==
  /\ pc[t] = "stamp"
  /\ due' = FALSE
  /\ Answer(t, "ok")
  /\ UNCHANGED <<mu, op, isRunning, stopCh, connected, unsynced, missed, left,
                 changed, raftVars>>

(* Shutdown *)

StopCall(t) ==
  /\ pc[t] = "idle"
  /\ mu' = Rw!Lock(mu, t)
  /\ Goto(t, "lock")
  /\ UNCHANGED <<op, ans, isRunning, stopCh, connected, syncVars, raftVars>>

\* Faulty: the early return of a second Shutdown leaves the lock held.
StopAgain_KeepsLock(t) ==
  /\ pc[t] = "lock" /\ Writing(t) /\ ~isRunning
  /\ Goto(t, "done")
  /\ UNCHANGED <<mu, op, ans, isRunning, stopCh, connected, syncVars, raftVars>>

StopAgain(t) ==
  /\ pc[t] = "lock" /\ Writing(t) /\ ~isRunning
  /\ mu' \in Rw!Unlock(mu)
  /\ Goto(t, "done")
  /\ UNCHANGED <<op, ans, isRunning, stopCh, connected, syncVars, raftVars>>

\* Faulty: isRunning is left set.
StopRaft_StaysRunning(t) ==
  /\ pc[t] = "lock" /\ Writing(t) /\ isRunning
  /\ stopCh' = stopCh + 1
  /\ raft' = "stopping" /\ leading' = FALSE
  /\ Goto(t, "raftwait")
  /\ UNCHANGED <<mu, op, ans, isRunning, connected, syncVars, pending, queue, cur,
                 remote>>

\* isRunning = false, close(stopCh), raftNode.Shutdown(): then wait, with the
\* lock held, until the goroutines of Raft have exited.
StopRaft(t) ==
  /\ pc[t] = "lock" /\ Writing(t) /\ isRunning
  /\ isRunning' = FALSE
  /\ stopCh' = stopCh + 1
  /\ raft' = "stopping" /\ leading' = FALSE
  /\ Goto(t, "raftwait")
  /\ UNCHANGED <<mu, op, ans, connected, syncVars, pending, queue, cur, remote>>

\* Faulty: closes the connectors without waiting for Raft to stop.
StopClose_Early(t) ==
  /\ pc[t] = "raftwait"
  /\ connected' = FALSE
  /\ mu' \in Rw!Unlock(mu)
  /\ Goto(t, "done")
  /\ UNCHANGED <<op, ans, isRunning, stopCh, syncVars, raftVars>>

\* connectorManager.Close() and the deferred Unlock.
StopClose(t) ==
  /\ pc[t] = "raftwait" /\ raft = "stopped"
  /\ connected' = FALSE
  /\ mu' \in Rw!Unlock(mu)
  /\ Goto(t, "done")
  /\ UNCHANGED <<op, ans, isRunning, stopCh, syncVars, raftVars>>

(* Raft (external) and the FSM goroutine *)

Elect ==
  /\ CanLead /\ raft = "up" /\ ~leading
  /\ leading' = TRUE
  /\ UNCHANGED <<mu, pc, op, ans, isRunning, stopCh, connected, syncVars, raft,
                 pending, queue, cur, remote>>

\* Completes the futures of the goroutines in T that wait on one.
Complete(T, a, pcNow) ==
  LET waits(t) == t \in T /\ pc[t] = "waiting"
  IN /\ pc' = [t \in Thread |-> IF waits(t) THEN "answered" ELSE pcNow[t]]
     /\ ans' = [t \in Thread |-> IF waits(t) THEN a ELSE ans[t]]

\* The futures of entries that are not committed fail.
StepDown ==
  /\ leading
  /\ leading' = FALSE /\ pending' = {}
  /\ Complete(pending, "lost", pc)
  /\ UNCHANGED <<mu, op, isRunning, stopCh, connected, syncVars, raft, queue, cur,
                 remote>>

Commit(t) ==
  /\ t \in pending /\ leading
  /\ pending' = pending \ {t}
  /\ queue' = Append(queue, [who |-> t, kind |-> op[t]])
  /\ UNCHANGED <<mu, pc, op, ans, isRunning, stopCh, connected, syncVars, leading,
                 raft, cur, remote>>

RemoteCommit ==
  /\ raft = "up" /\ ~leading /\ remote < MaxRemote
  /\ remote' = remote + 1
  /\ queue' = Append(queue, [who |-> None, kind |-> "exec"])
  /\ UNCHANGED <<mu, pc, op, ans, isRunning, stopCh, connected, syncVars, leading,
                 raft, pending, cur>>

\* The future of the entry in hand completes and the goroutine is free.
Respond(a) ==
  /\ Complete({cur.who}, a, [pc EXCEPT ![Fsm] = "idle"])
  /\ cur' = NoEntry

FsmTake ==
  /\ pc[Fsm] = "idle" /\ queue # << >>
  /\ cur' = Head(queue) /\ queue' = Tail(queue)
  /\ Goto(Fsm, "apply")
  /\ UNCHANGED <<mu, op, ans, isRunning, stopCh, connected, syncVars, leading, raft,
                 pending, remote>>

\* An entry that no database executes, an ExecContext that fails, or a change
\* of the membership: no callback.
FsmReject ==
  /\ pc[Fsm] = "apply"
  /\ Respond(IF cur.kind = "peer" THEN "ok" ELSE "failed")
  /\ UNCHANGED <<mu, op, isRunning, stopCh, connected, syncVars, leading, raft,
                 pending, queue, remote>>

\* ExecContext returns; onApplied asks for the write lock.
FsmExec(k) ==
  /\ pc[Fsm] = "apply" /\ cur.kind = "exec"
  /\ unsynced' = unsynced \cup {k}
  /\ mu' = Rw!Lock(mu, Fsm)
  /\ Goto(Fsm, "callback")
  /\ UNCHANGED <<op, ans, isRunning, stopCh, connected, due, missed, left, changed, raftVars>>

\* Faulty: followers do not track the time of the last write.
FsmStamp_LeaderOnly ==
  /\ pc[Fsm] = "callback" /\ Writing(Fsm)
  /\ due' = (due \/ leading)
  /\ mu' \in Rw!Unlock(mu)
  /\ Respond("ok")
  /\ UNCHANGED <<op, isRunning, stopCh, connected, unsynced, missed, left, changed,
                 leading, raft, pending, queue, remote>>

\* Faulty: writes lastWrite and returns without the lock it asked for.
FsmStamp_Unlocked ==
  /\ pc[Fsm] = "callback"
  /\ due' = TRUE
  /\ mu' = [mu EXCEPT !.next = None]
  /\ Respond("ok")
  /\ UNCHANGED <<op, isRunning, stopCh, connected, unsynced, missed, left, changed,
                 leading, raft, pending, queue, remote>>

\* lastWrite = time.Now(), Unlock, and Apply returns.
FsmStamp ==
  /\ pc[Fsm] = "callback" /\ Writing(Fsm)
  /\ due' = TRUE
  /\ mu' \in Rw!Unlock(mu)
  /\ Respond("ok")
  /\ UNCHANGED <<op, isRunning, stopCh, connected, unsynced, missed, left, changed,
                 leading, raft, pending, queue, remote>>

\* The FSM goroutine calls MultiFSM.Snapshot for the SyncAll of t.
FsmSnapshot(t) ==
  /\ pc[Fsm] = "idle" /\ pc[t] = "snapshot"
  /\ Goto(t, "persist")
  /\ UNCHANGED <<mu, op, ans, isRunning, stopCh, connected, syncVars, raftVars>>

\* The snapshot goroutine has called Persist: the future of t completes.
Persisted(t) ==
  /\ pc[t] = "persist"
  /\ Goto(t, "stamp")
  /\ UNCHANGED <<mu, op, ans, isRunning, stopCh, connected, due, unsynced, missed,
                 left, changed, raftVars>>

\* Faulty: returns a value that is no answer of SyncAll.
PersistFails_Raw(t) ==
  /\ pc[t] = "persist"
  /\ Answer(t, "persist")
  /\ UNCHANGED <<mu, op, isRunning, stopCh, connected, syncVars, raftVars>>

PersistFails(t) ==
  /\ pc[t] = "persist"
  /\ Answer(t, "snapshot error")
  /\ UNCHANGED <<mu, op, isRunning, stopCh, connected, syncVars, raftVars>>

\* The FSM goroutine sees the shutdown between two entries.
FsmExit ==
  /\ pc[Fsm] = "idle" /\ raft = "stopping"
  /\ Goto(Fsm, "done")
  /\ raft' = "stopped"
  /\ UNCHANGED <<mu, op, ans, isRunning, stopCh, connected, syncVars, leading,
                 pending, queue, cur, remote>>

Sync(t) ==
  \/ SyncCall(t) \/ SyncStart(t) \/ SyncSnapshot(t) \/ SyncStamp(t)
  \/ \E k \in Key : SyncKey(t, k) \/ SyncKeyFails(t, k)
  \/ FsmSnapshot(t) \/ Persisted(t) \/ PersistFails(t) \/ Return(t)

Serve(t) ==
  NotRunning(t) \/ Read(t) \/ ReadDone(t) \/ Propose(t) \/ Commit(t) \/ Return(t)

Stop(t) == StopAgain(t) \/ StopRaft(t) \/ StopClose(t)

FsmStep == FsmTake \/ FsmReject \/ (\E k \in Key : FsmExec(k)) \/ FsmStamp \/ FsmExit

Next ==
  \/ \E t \in Client : Serve(t) \/ \E o \in Ask : Call(t, o)
  \/ \E t \in Syncer : Sync(t)
  \/ Loop \in Syncer /\ (LoopGate \/ LoopSkip \/ LoopSync)
  \/ \E t \in Stopper : StopCall(t) \/ Stop(t)
  \/ FsmStep
  \/ Elect \/ StepDown \/ RemoteCommit

Spec == Init /\ [][Next]_vars

\* Each goroutine runs when it can; nobody has to call anything.
Fairness ==
  /\ \A t \in Client : WF_vars(Serve(t))
  /\ \A t \in Syncer : WF_vars(pc[t] # "idle" /\ Sync(t))
  /\ Loop \in Syncer => WF_vars(LoopSkip \/ LoopSync)
  /\ \A t \in Stopper : WF_vars(Stop(t))
  /\ WF_vars(FsmStep)

FairSpec == Spec /\ Fairness

-----------------------------------------------------------------------------
(* Properties *)

Label == {"idle", "rlock", "reading", "waiting", "answered", "gate", "sync",
          "snapshot", "persist", "stamp", "lock", "raftwait", "apply", "callback",
          "done"}
Result == {"none", "ok", "failed", "lost", "not leader", "not running",
           "snapshot error"}

\* The variables stay within their types.
TypeOK ==
  /\ mu \in Rw!Mutex
  /\ pc \in [Thread -> Label] /\ ans \in [Thread -> Result]
  /\ op \in [Client -> Ask \cup {"none"}]
  /\ isRunning \in BOOLEAN /\ stopCh \in Nat /\ connected \in BOOLEAN
  /\ due \in BOOLEAN /\ unsynced \subseteq Key /\ missed \subseteq Key
  /\ left \in [Syncer -> SUBSET Key] /\ changed \in [Syncer -> BOOLEAN]
  /\ leading \in BOOLEAN /\ raft \in {"up", "stopping", "stopped"}
  /\ pending \subseteq Client /\ remote \in 0..MaxRemote
  /\ queue \in Seq(Entry) /\ cur \in Entry

\* Shutdown closes the connectors only when nothing can use them any more: no
\* entry is being applied or is in its callback, no query and no sync runs.
SafeClose ==
  ~connected => /\ pc[Fsm] = "done"
                /\ \A t \in Client \cup Syncer :
                     pc[t] \notin {"reading", "waiting", "sync", "snapshot",
                                   "persist", "stamp"}

\* However many callers shut the manager down together, stopCh is closed at
\* most once (closing it twice panics) and never while the manager runs.
StopOnce == stopCh = (IF isRunning THEN 0 ELSE 1)

InSync(t) == pc[t] \in {"sync", "snapshot", "persist", "stamp"}

\* The gate of maybeSyncOnSchedule never hides a write: while it is closed,
\* each database written since its last sync is one whose sync failed, is
\* being synced, or has its stamp still to come.
GateCoversWrites ==
  ~due => \/ unsynced \subseteq missed
          \/ pc[Fsm] = "callback"
          \/ \E t \in Syncer : InSync(t)

\* The FSM goroutine waits in onApplied for the lock while a holder of the lock
\* waits for that goroutine: a proposer for its entry, SyncAll for the
\* snapshot, Shutdown for the end of Raft.
Wedged ==
  /\ pc[Fsm] = "callback"
  /\ \/ \E t \in mu.readers : \/ pc[t] = "waiting" /\ t \notin pending
                              \/ pc[t] = "snapshot"
     \/ \E t \in Stopper : Writing(t) /\ pc[t] = "raftwait"

\* Nothing undoes it: no election, step down, shutdown or later call.
StaysWedged == [][Wedged => Wedged']_vars

\* Every call returns unless the manager is wedged in that way, for each
\* goroutine is again and again outside of its calls: no other order of calls,
\* elections, snapshots and shutdowns blocks a caller for ever.
ReturnsUnlessWedged ==
  \A t \in Client \cup Syncer \cup Stopper :
    []<>(pc[t] \in {"idle", "done"} \/ Wedged)

(* Statements of the comments and documents that the code does not keep *)

\* Exec returns once the statement is applied.
ExecReturns ==
  \A t \in Client : pc[t] = "waiting" ~> pc[t] = "done"
=============================================================================
