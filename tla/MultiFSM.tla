------------------------------ MODULE MultiFSM ------------------------------
(***************************************************************************)
(* The replicated state machine of internal/raft: MultiFSM on every node,  *)
(* driven by hashicorp/raft, and ApplyLog, the call through which a        *)
(* statement enters the cluster, with the lock of the Manager that its     *)
(* caller holds and the FSM's callback needs.                              *)
(*                                                                         *)
(* The Raft library is external and is represented by what the code relies *)
(* on: one agreed sequence of committed entries, at most one leader that   *)
(* commits, one FSM goroutine per node that applies the entries in order,  *)
(* a snapshot goroutine that runs Persist concurrently with Apply, and a   *)
(* snapshot store whose newest snapshot is restored when a node starts or  *)
(* has fallen behind.                                                      *)
(*                                                                         *)
(* A database file is abstracted to how often each statement was executed  *)
(* on it and whether its bytes are a mix of two contents.  An entry of the *)
(* log is the call that proposed it.  The file of an embedded replica is   *)
(* local like any other: what its engine commits at the Turso primary, and *)
(* what a pull brings back from there, is not part of this module.         *)
(***************************************************************************)
EXTENDS Naturals, Sequences, FiniteSets

CONSTANTS
  Node,       \* the members of the cluster
  DB,         \* database keys "group.db", the same on every node
  Base,       \* Base[k]: the file name of k without its directory
  Remote,     \* keys whose *sql.DB is a connection to the Turso primary
  Call,       \* calls of ApplyLog, each proposing one statement
  Target,     \* Target[c]: the key the statement of c is for
  NoDB,       \* target of a statement no node can execute
  Cloud,      \* where the databases of Remote live
  None,       \* no node, no key
  MaxLives,   \* bound: times a node's FSM is started or re-initialised
  MaxFaults   \* bound: failures of ExecContext or of Restore on one node

ASSUME ScopeAssumption ==
  /\ IsFiniteSet(Node)
  /\ Remote \subseteq DB
  /\ NoDB \notin DB /\ None \notin DB \cup Call
  /\ Cloud \notin Node /\ None \notin Node
  /\ Target \in [Call -> DB \cup {NoDB}]
  /\ DOMAIN Base = DB
  /\ MaxLives \in Nat /\ MaxFaults \in Nat

VARIABLES
  log,      \* the committed entries, in the order Raft agreed on
  leader,   \* the node whose State() is Leader, or None
  res,      \* res[c]: what ApplyLog has told the caller of c
  via,      \* via[c]: the node c was proposed on
  phase,    \* phase[n]: "down", restoring at "boot", "run", or "install"
  applied,  \* applied[n]: entries the FSM of n has applied in this life
  inCb,     \* inCb[n]: the entry whose onApplied runs on the FSM goroutine, or None
  life,     \* life[n]: how often the FSM of n was initialised
  disk,     \* disk[n][k]: the database file of k on n; disk[Cloud] the primaries
  skipped,  \* skipped[n]: entries whose ExecContext returned an error on n alone
  faults,   \* such errors, and failures of Restore, so far
  persist,  \* persist[n]: the fsmSnapshot being persisted on n
  snap,     \* snap[n]: the newest complete snapshot in the store of n
  todo      \* todo[n]: archive members Restore has still to write on n

raftVars == <<log, leader>>
callVars == <<res, via>>
nodeVars == <<phase, applied, inCb, life, todo>>
faultVars == <<skipped, faults>>
vars == <<log, leader, res, via, phase, applied, inCb, life, todo, disk, skipped,
          faults, persist, snap>>

-----------------------------------------------------------------------------
(* Files, snapshots and who holds what *)

File == [rows : [Call -> Nat], torn : BOOLEAN]

Blank == [rows |-> [c \in Call |-> 0], torn |-> FALSE]
Torn  == [rows |-> [c \in Call |-> 0], torn |-> TRUE]

NoPersist == [index |-> 0, left |-> {}, reading |-> None,
              files |-> [k \in DB |-> Blank]]
NoSnap    == [index |-> 0, files |-> [k \in DB |-> Blank]]

\* The entry has been committed.
Committed(c) == \E i \in 1..Len(log) : log[i] = c

\* A statement for k executed by n takes effect here.  Of an embedded replica
\* only its own file counts, not the primary behind it.
Home(n, k) == IF k \in Remote THEN Cloud ELSE n

Up == {n \in Node : phase[n] \in {"run", "install"}}
Majority == 2 * Cardinality(Up) > Cardinality(Node)

\* Write file f over k at h.  A copy that Persist is making of that very file
\* at this moment mixes old and new pages.
Put(h, k, f) ==
  /\ disk' = [disk EXCEPT ![h][k] = f]
  /\ persist' = [n \in Node |->
       IF n = h /\ persist[n].reading = k
       THEN [persist[n] EXCEPT !.files[k] = Torn]
       ELSE persist[n]]

\* A call holds the lock of the Manager of n for reading, until it is answered.
Waits(n, c) == res[c] = "waiting" /\ via[c] = n

\* Faulty: a caller that was told something else is answered again.
Respond_Late(n, c, r) ==
  res' = IF via[c] = n THEN [res EXCEPT ![c] = r] ELSE res

\* The FSM of n has a response for entry c: its future is completed, if the
\* proposer is still waiting on this node.
Respond(n, c, r) ==
  res' = IF Waits(n, c) THEN [res EXCEPT ![c] = r] ELSE res

-----------------------------------------------------------------------------
Init ==
  /\ log = << >> /\ leader = None
  /\ res = [c \in Call |-> "idle"] /\ via = [c \in Call |-> None]
  /\ phase = [n \in Node |-> "run"]
  /\ applied = [n \in Node |-> 0] /\ inCb = [n \in Node |-> None]
  /\ life = [n \in Node |-> 1]
  /\ disk = [h \in Node \cup {Cloud} |-> [k \in DB |-> Blank]]
  /\ skipped = [n \in Node |-> {}] /\ faults = 0
  /\ persist = [n \in Node |-> NoPersist]
  /\ snap = [n \in Node |-> NoSnap]
  /\ todo = [n \in Node |-> {}]

(* Raft: leadership and commitment (external) *)

Elect(n) ==
  /\ leader = None /\ phase[n] = "run" /\ Majority
  /\ leader' = n
  /\ UNCHANGED <<log, callVars, nodeVars, disk, faultVars, persist, snap>>

\* Losing leadership fails the futures of uncommitted entries; those already
\* handed to the FSM are still answered by it.
StepDown(n) ==
  /\ leader = n
  /\ leader' = None
  /\ res' = [c \in Call |->
       IF Waits(n, c) /\ ~Committed(c) THEN "lost" ELSE res[c]]
  /\ UNCHANGED <<log, via, nodeVars, disk, faultVars, persist, snap>>

\* An entry whose proposer was told the leadership was lost may still commit.
Commit(c) ==
  /\ leader # None /\ Majority
  /\ res[c] \in {"waiting", "lost"} /\ ~Committed(c)
  /\ log' = Append(log, c)
  /\ UNCHANGED <<leader, callVars, nodeVars, disk, faultVars, persist, snap>>

(* ApplyLog: refuse unless leader, else propose and wait for the future *)

\* Manager.Exec, the only caller, has to get the lock for reading first, which a
\* callback that waits for it does not let happen.
ApplyLog(n, c) ==
  /\ res[c] = "idle" /\ phase[n] \in {"run", "install"} /\ inCb[n] = None
  /\ via' = [via EXCEPT ![c] = n]
  /\ res' = [res EXCEPT ![c] = IF leader = n THEN "waiting" ELSE "refused"]
  /\ UNCHANGED <<raftVars, nodeVars, disk, faultVars, persist, snap>>

(* MultiFSM.Apply: one entry, on the FSM goroutine of n *)

Next1(n) == log[applied[n] + 1]

CanApply(n) == phase[n] = "run" /\ inCb[n] = None /\ applied[n] < Len(log)

\* File f after statement c.
Executed(f, c) == [f EXCEPT !.rows[c] = @ + 1]

\* Faulty: ExecContext is retried although it had taken effect.
ApplyExec_Retries(n) ==
  /\ CanApply(n)
  /\ LET c == Next1(n)
         k == Target[c]
         h == Home(n, k)
     IN /\ k \in DB
        /\ Put(h, k, Executed(Executed(disk[h][k], c), c))
        /\ inCb' = [inCb EXCEPT ![n] = c]
  /\ applied' = [applied EXCEPT ![n] = @ + 1]
  /\ UNCHANGED <<raftVars, callVars, phase, life, todo, faultVars, snap>>

\* The statement executes on the database, and onApplied is called.
ApplyExec(n) ==
  /\ CanApply(n)
  /\ LET c == Next1(n)
         k == Target[c]
         h == Home(n, k)
     IN /\ k \in DB
        /\ Put(h, k, Executed(disk[h][k], c))
        /\ inCb' = [inCb EXCEPT ![n] = c]
  /\ applied' = [applied EXCEPT ![n] = @ + 1]
  /\ UNCHANGED <<raftVars, callVars, phase, life, todo, faultVars, snap>>

\* onApplied takes the lock of the Manager for writing: it waits until no call
\* waits on this node.  Then Apply returns nil.
Callback(n) ==
  /\ inCb[n] # None /\ \A c \in Call : ~Waits(n, c)
  /\ Respond(n, inCb[n], "ok")
  /\ inCb' = [inCb EXCEPT ![n] = None]
  /\ UNCHANGED <<raftVars, via, phase, applied, life, todo, disk, faultVars, persist,
                 snap>>

\* Faulty: what the failed statement wrote to a file is not rolled back.
ApplyExecFails_Keeps(n) ==
  /\ CanApply(n) /\ faults < MaxFaults
  /\ LET c == Next1(n)
         k == Target[c]
         h == Home(n, k)
     IN /\ k \in DB
        /\ Put(h, k, Executed(disk[h][k], c))
        /\ skipped' = [skipped EXCEPT ![n] = @ \cup {c}]
        /\ Respond(n, c, "failed")
  /\ faults' = faults + 1
  /\ applied' = [applied EXCEPT ![n] = @ + 1]
  /\ UNCHANGED <<raftVars, via, phase, inCb, life, todo, snap>>

\* ExecContext returns an error on this node only (a locked file, a full disk,
\* an unreachable primary), and so does Apply; the entry counts as applied.  A
\* primary may have executed the statement although its answer is lost.
ApplyExecFails(n) ==
  /\ CanApply(n) /\ faults < MaxFaults
  /\ LET c == Next1(n)
         k == Target[c]
     IN /\ k \in DB
        /\ \/ UNCHANGED <<disk, persist>>
           \/ k \in Remote /\ Put(Cloud, k, Executed(disk[Cloud][k], c))
        /\ skipped' = [skipped EXCEPT ![n] = @ \cup {c}]
        /\ Respond(n, c, "failed")
  /\ faults' = faults + 1
  /\ applied' = [applied EXCEPT ![n] = @ + 1]
  /\ UNCHANGED <<raftVars, via, phase, inCb, life, todo, snap>>

\* Faulty: the future of a rejected entry is never completed.
ApplyRejects_Silent(n) ==
  /\ CanApply(n)
  /\ Target[Next1(n)] = NoDB
  /\ applied' = [applied EXCEPT ![n] = @ + 1]
  /\ UNCHANGED <<raftVars, callVars, phase, inCb, life, todo, disk, faultVars, persist,
                 snap>>

\* The entry names no database of this cluster, is of type "wal", or its SQL
\* is wrong: the same error on every node.
ApplyRejects(n) ==
  /\ CanApply(n)
  /\ Target[Next1(n)] = NoDB
  /\ Respond(n, Next1(n), "failed")
  /\ applied' = [applied EXCEPT ![n] = @ + 1]
  /\ UNCHANGED <<raftVars, via, phase, inCb, life, todo, disk, faultVars, persist, snap>>

Apply(n) == ApplyExec(n) \/ ApplyExecFails(n) \/ ApplyRejects(n)

(* Snapshot on the FSM goroutine, Persist on the snapshot goroutine *)

\* Only the paths are collected; Raft labels the snapshot with applied[n].
Snapshot(n) ==
  /\ phase[n] = "run" /\ inCb[n] = None /\ applied[n] > 0 /\ persist[n] = NoPersist
  /\ persist' = [persist EXCEPT ![n] =
       [NoPersist EXCEPT !.index = applied[n], !.left = DB]]
  /\ UNCHANGED <<raftVars, callVars, nodeVars, disk, faultVars, snap>>

\* Snapshot p while file f of key k is being copied into it.
Opened(p, k, f) == [p EXCEPT !.left = @ \ {k}, !.reading = k, !.files[k] = f]

\* Faulty: a path without a file is skipped instead of failing the snapshot.
PersistOpen_SkipsMissing(n, k) ==
  /\ k \in persist[n].left /\ persist[n].reading = None
  /\ persist' = [persist EXCEPT ![n] = Opened(persist[n], k, disk[n][k])]
  /\ UNCHANGED <<raftVars, callVars, nodeVars, disk, faultVars, snap>>

\* Persist opens the next path and starts to copy what the file holds now.
PersistOpen(n, k) ==
  /\ k \in persist[n].left \ Remote /\ persist[n].reading = None
  /\ persist' = [persist EXCEPT ![n] = Opened(persist[n], k, disk[n][k])]
  /\ UNCHANGED <<raftVars, callVars, nodeVars, disk, faultVars, snap>>

PersistCopied(n) ==
  /\ persist[n].reading # None
  /\ persist' = [persist EXCEPT ![n].reading = None]
  /\ UNCHANGED <<raftVars, callVars, nodeVars, disk, faultVars, snap>>

\* Any error cancels the sink.  The only outcome when a path has no file,
\* which is the case of every remote database.
PersistFails(n) ==
  /\ persist[n] # NoPersist
  /\ persist' = [persist EXCEPT ![n] = NoPersist]
  /\ UNCHANGED <<raftVars, callVars, nodeVars, disk, faultVars, snap>>

\* Faulty: the snapshot is labelled with the index reached when it is complete.
PersistDone_LabelsLate(n) ==
  /\ persist[n] # NoPersist /\ persist[n].left = {} /\ persist[n].reading = None
  /\ persist' = [persist EXCEPT ![n] = NoPersist]
  /\ snap' = [snap EXCEPT ![n] = [index |-> applied[n], files |-> persist[n].files]]
  /\ UNCHANGED <<raftVars, callVars, nodeVars, disk, faultVars>>

\* Faulty: the bookkeeping of the copy is stored with the snapshot.
PersistDone_StoresAll(n) ==
  /\ persist[n] # NoPersist /\ persist[n].left = {} /\ persist[n].reading = None
  /\ persist' = [persist EXCEPT ![n] = NoPersist]
  /\ snap' = [snap EXCEPT ![n] = persist[n]]
  /\ UNCHANGED <<raftVars, callVars, nodeVars, disk, faultVars>>

\* sink.Close makes the snapshot visible; the store orders them by index.
PersistDone(n) ==
  /\ persist[n] # NoPersist /\ persist[n].left = {} /\ persist[n].reading = None
  /\ persist' = [persist EXCEPT ![n] = NoPersist]
  /\ snap' = IF persist[n].index >= snap[n].index
             THEN [snap EXCEPT ![n] = [index |-> persist[n].index,
                                       files |-> persist[n].files]]
             ELSE snap
  /\ UNCHANGED <<raftVars, callVars, nodeVars, disk, faultVars>>

(* Restore: from the node's own snapshot at boot, from the leader's when the
   node has fallen behind *)

\* Raft stores the leader's snapshot, then has the FSM goroutine restore it
\* after the entries queued before it.
InstallSnapshot(n) ==
  /\ phase[n] = "run" /\ inCb[n] = None /\ leader \notin {n, None} /\ life[n] < MaxLives
  /\ snap[leader].index > applied[n] /\ snap[leader].index >= snap[n].index
  /\ \A c \in Call : ~Waits(n, c)
  /\ snap' = [snap EXCEPT ![n] = snap[leader]]
  /\ phase' = [phase EXCEPT ![n] = "install"]
  /\ todo' = [todo EXCEPT ![n] = DB]
  /\ life' = [life EXCEPT ![n] = @ + 1]
  /\ UNCHANGED <<raftVars, callVars, applied, inCb, disk, faultVars, persist>>

Restoring(n) == phase[n] \in {"boot", "install"}

\* A member of the archive is written over some path with its base name.
RestoreFile(n, k, j) ==
  /\ Restoring(n) /\ k \in todo[n] /\ Base[j] = Base[k]
  /\ Put(n, j, snap[n].files[k])
  /\ todo' = [todo EXCEPT ![n] = @ \ {k}]
  /\ UNCHANGED <<raftVars, callVars, phase, applied, inCb, life, faultVars, snap>>

\* Restore returns an error after os.Create has truncated path j.  NewRaft
\* then fails; a running node goes on with its previous applied index.
RestoreFails(n, j) ==
  /\ Restoring(n) /\ todo[n] # {} /\ faults < MaxFaults
  /\ \E k \in todo[n] : Base[j] = Base[k]
  /\ Put(n, j, Torn)
  /\ faults' = faults + 1
  /\ phase' = [phase EXCEPT ![n] = IF phase[n] = "boot" THEN "down" ELSE "run"]
  /\ todo' = [todo EXCEPT ![n] = {}]
  /\ UNCHANGED <<raftVars, callVars, applied, inCb, life, skipped, snap>>

RestoreDone(n) ==
  /\ Restoring(n) /\ todo[n] = {}
  /\ phase' = [phase EXCEPT ![n] = "run"]
  /\ applied' = [applied EXCEPT ![n] = snap[n].index]
  /\ UNCHANGED <<raftVars, callVars, inCb, life, todo, disk, faultVars, persist, snap>>

(* A node stops at any point, and starts over what its disk holds *)

\* The files in torn were being written by Restore.
Crash(n) ==
  /\ phase[n] # "down"
  /\ phase' = [phase EXCEPT ![n] = "down"]
  /\ applied' = [applied EXCEPT ![n] = 0] /\ inCb' = [inCb EXCEPT ![n] = None]
  /\ todo' = [todo EXCEPT ![n] = {}]
  /\ persist' = [persist EXCEPT ![n] = NoPersist]
  /\ \/ UNCHANGED disk
     \/ \E k \in todo[n], j \in DB :
          /\ Base[j] = Base[k]
          /\ disk' = [disk EXCEPT ![n][j] = Torn]
  /\ leader' = IF leader = n THEN None ELSE leader
  /\ res' = [c \in Call |->
       IF Waits(n, c) THEN "lost" ELSE res[c]]
  /\ UNCHANGED <<log, via, life, faultVars, snap>>

\* Faulty: the node trusts its files to hold what they held before the stop
\* and restores the snapshot over them as well.
Start_TrustsFiles(n) ==
  /\ phase[n] = "down" /\ life[n] < MaxLives
  /\ life' = [life EXCEPT ![n] = @ + 1]
  /\ phase' = [phase EXCEPT ![n] = IF snap[n] = NoSnap THEN "run" ELSE "boot"]
  /\ todo' = [todo EXCEPT ![n] = IF snap[n] = NoSnap THEN {} ELSE DB]
  /\ applied' = [applied EXCEPT ![n] = Len(log)]
  /\ UNCHANGED <<raftVars, callVars, inCb, disk, faultVars, persist, snap>>

\* NewRaft restores the newest snapshot; without one it replays the log over
\* the files as they are.
Start(n) ==
  /\ phase[n] = "down" /\ life[n] < MaxLives
  /\ life' = [life EXCEPT ![n] = @ + 1]
  /\ phase' = [phase EXCEPT ![n] = IF snap[n] = NoSnap THEN "run" ELSE "boot"]
  /\ todo' = [todo EXCEPT ![n] = IF snap[n] = NoSnap THEN {} ELSE DB]
  /\ UNCHANGED <<raftVars, callVars, applied, inCb, disk, faultVars, persist, snap>>

Next ==
  \/ \E n \in Node :
       \/ Elect(n) \/ StepDown(n)
       \/ \E c \in Call : ApplyLog(n, c)
       \/ Apply(n) \/ Callback(n)
       \/ Snapshot(n) \/ PersistCopied(n) \/ PersistFails(n) \/ PersistDone(n)
       \/ \E k \in DB : PersistOpen(n, k)
       \/ InstallSnapshot(n) \/ RestoreDone(n)
       \/ \E k, j \in DB : RestoreFile(n, k, j)
       \/ \E j \in DB : RestoreFails(n, j)
       \/ Crash(n) \/ Start(n)
  \/ \E c \in Call : Commit(c)

Spec == Init /\ [][Next]_vars

\* The FSM goroutine applies an entry when it can; a leader that has lost its
\* majority notices when its lease ends; with a majority the leader's entries
\* commit.  Nothing is assumed of the callback, which needs a lock.
Fairness ==
  /\ \A n \in Node : WF_vars(Apply(n)) /\ WF_vars(~Majority /\ StepDown(n))
  /\ \A c \in Call : WF_vars(res[c] = "waiting" /\ Commit(c))

FairSpec == Spec /\ Fairness

-----------------------------------------------------------------------------
(* Properties *)

\* The variables stay within their types.
TypeOK ==
  /\ log \in Seq(Call)
  /\ leader \in Node \cup {None}
  /\ res \in [Call -> {"idle", "waiting", "ok", "failed", "lost", "refused"}]
  /\ via \in [Call -> Node \cup {None}]
  /\ phase \in [Node -> {"down", "boot", "run", "install"}]
  /\ applied \in [Node -> Nat] /\ inCb \in [Node -> Call \cup {None}]
  /\ life \in [Node -> Nat]
  /\ disk \in [Node \cup {Cloud} -> [DB -> File]]
  /\ skipped \in [Node -> SUBSET Call]
  /\ faults \in Nat
  /\ persist \in [Node -> [index : Nat, left : SUBSET DB,
                           reading : DB \cup {None}, files : [DB -> File]]]
  /\ snap \in [Node -> [index : Nat, files : [DB -> File]]]
  /\ todo \in [Node -> SUBSET DB]

\* No other configured database has a file of this name.
UniqueName(k) == \A j \in DB : Base[j] = Base[k] => j = k

\* Databases whose file lives on each node and cannot be taken for another.
Tracked == {k \in DB \ Remote : UniqueName(k)}

\* If intact, file f of k has executed every statement for k among the first i
\* entries of l, those that some node skipped (s) apart.
CoversBy(l, s, f, k, i) ==
  \/ f.torn
  \/ \A p \in 1..i :
       Target[l[p]] = k /\ (\A n \in Node : l[p] \notin s[n]) => f.rows[l[p]] >= 1

Covers(f, k, i) == CoversBy(log, skipped, f, k, i)

\* Whatever crashes, restarts, snapshots taken while Apply runs and snapshots
\* installed from a leader come between, a node that counts an entry as
\* applied has its effect in the (intact, uniquely named) local file
\* (MultiFSM.Apply, Persist and Restore together).
NoLostWrite ==
  \A n \in Node, k \in Tracked : Covers(disk[n][k], k, applied[n])

\* A snapshot labelled with index i, though its files are copied while later
\* entries are being applied, misses none of the first i entries (Snapshot
\* and Persist).
SnapshotCovers ==
  \A n \in Node, k \in Tracked : Covers(snap[n].files[k], k, snap[n].index)

\* Node n runs what NewRaft first started, and has not been restored since.
FirstLife(n) == life[n] = 1 /\ phase[n] # "down"

\* The FSM of n counts entry c as applied.
Done(n, c) == \E i \in 1..applied[n] : log[i] = c

\* Until a node is restarted or re-initialised from a snapshot, its FSM has
\* executed on its files exactly the applied statements it did not skip, each of
\* them once; so a file is behind by just those that failed on this node.
FirstLifeExact ==
  \A n \in Node, c \in Call :
    FirstLife(n) /\ Target[c] \in DB \ Remote =>
      disk[n][Target[c]].rows[c] =
        IF c \notin skipped[n] /\ Done(n, c) THEN 1 ELSE 0

\* What ApplyLog has told its caller.  "Not the leader" means that the statement
\* is not in the log and ran nowhere.  An error of the FSM means that it is in
\* the log: if no database can execute it, it ran nowhere; if its database is a
\* local file, that of the node which answered does not hold it, until that
\* node starts again or is restored.  And no caller is ever told of a success,
\* for the callback waits for the lock that the caller holds.
AnswerIsTrue ==
  \A c \in Call :
    LET nowhere == \A h \in Node \cup {Cloud}, k \in DB : disk[h][k].rows[c] = 0
    IN /\ res[c] = "refused" => ~Committed(c) /\ nowhere
       /\ res[c] = "failed" =>
            /\ Committed(c)
            /\ Target[c] = NoDB => nowhere
            /\ FirstLife(via[c]) /\ Target[c] \in DB \ Remote =>
                 disk[via[c]][Target[c]].rows[c] = 0
       /\ res[c] # "ok"

\* Every node that executes a statement for a remote database executes it on
\* the same primary: among nodes in their first life, one committed statement
\* has taken effect there once for each of them that has applied it without an
\* error, and at most once more for each that got an error (MultiFSM.Apply with
\* the remote connector).
PrimaryCounts ==
  \A c \in Call :
    /\ Target[c] \in Remote
    /\ \A n \in Node : FirstLife(n)
    => /\ Cardinality({n \in Node : c \notin skipped[n] /\ Done(n, c)})
             <= disk[Cloud][Target[c]].rows[c]
       /\ disk[Cloud][Target[c]].rows[c] <= Cardinality({n \in Node : Done(n, c)})

\* One remote database, whose path has no file, keeps the whole cluster from
\* ever completing a snapshot: no node is restored from one, at its start or
\* when it has fallen behind, and a restarted node replays all of the log.
RemoteStopsSnapshots ==
  Remote # {} => \A n \in Node : snap[n] = NoSnap /\ ~Restoring(n)

\* The FSM goroutine of n is in the callback, which needs the lock that a call
\* holds whose answer only this goroutine can give: it ends with the process.
Stuck(n) == inCb[n] # None /\ \E c \in Call : Waits(n, c) /\ Committed(c)

\* Every ApplyLog that proposes an entry comes back to its caller, whether the
\* entry is committed, lost or can be executed by no node, unless the FSM of its
\* node gets stuck in the callback of an entry that it executed.
ApplyLogReturns ==
  \A c \in Call : res[c] = "waiting" ~> res[c] # "waiting" \/ Stuck(via[c])

(* Statements of the comments and documents that the code does not keep *)

\* Running replicas that have applied the whole log hold the same data.
ReplicasAgree ==
  \A n, m \in Node, k \in DB :
    /\ phase[n] = "run" /\ phase[m] = "run"
    /\ applied[n] = Len(log) /\ applied[m] = Len(log)
    /\ ~disk[n][k].torn /\ ~disk[m][k].torn
    => disk[n][k].rows = disk[m][k].rows

\* A running node has the effect of each entry it has applied in an intact file.
ReplicaIsCurrent ==
  \A n \in Node : phase[n] = "run" =>
    \A i \in 1..applied[n] :
      LET k == Target[log[i]]
      IN k \in DB => ~disk[n][k].torn /\ disk[n][k].rows[log[i]] >= 1
=============================================================================
