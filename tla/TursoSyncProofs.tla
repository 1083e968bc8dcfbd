--------------------------- MODULE TursoSyncProofs ---------------------------
(* Theorems about TursoSync, for any cluster, databases, calls and bounds. *)
EXTENDS TursoSync, TLAPS

-----------------------------------------------------------------------------
(* The inductive invariant *)

\* What makes the properties inductive: an entry is in the log at most once, and what
\* a node has executed is in the log ...
EntriesOnce ==
  /\ \A i, j \in 1..Len(log) : log[i] = log[j] => i = j
  /\ \A n \in Node : \A c \in unsynced[n] : Committed(c)

\* ... a node in SyncAll runs, and the snapshot SyncAll waits for is not ahead of
\* the node ...
SyncInOrder ==
  \A n \in Node :
    /\ pc[n] # "idle" => up[n]
    /\ persist[n].index <= applied[n]
    /\ pc[n] = "idle" => ~changed[n] /\ persist[n] = NoSnap

\* ... no replica or snapshot is newer than the primary ...
NotNewer ==
  \A n \in Node, k \in Key : file[n][k] <= cloud[k] /\ snap[n].ver[k] <= cloud[k]

\* ... a replica does not change while its snapshot is being persisted, unless a
\* later snapshot is installed, which then stays the newest one ...
CopyIsCurrent ==
  \A n \in Node : pc[n] = "persist" /\ persist[n].index >= snap[n].index =>
    file[n] = persist[n].ver

\* ... and a SyncAll that has changed nothing so far leaves nothing unsaved.
UnchangedIsSaved ==
  \A n \in Node : pc[n] \in {"idle", "sync"} /\ ~changed[n] => Unsaved(n) \subseteq owed[n]

IInv ==
  /\ TypeOK /\ EntriesOnce /\ SyncInOrder /\ NotNewer /\ CopyIsCurrent
  /\ UnchangedIsSaved /\ FileCoversSnapshot /\ GateFollowsWrites

-----------------------------------------------------------------------------
(* Type correctness *)

LEMMA RecordsTyped == Oldest \in [Key -> Nat] /\ NoSnap \in Snap /\ NoSnap.index = 0
  BY DEF Oldest, NoSnap, Snap

LEMMA InitType == Init => TypeOK
  <1>1. << >> \in Seq(Call)
    OBVIOUS
  <1> QED BY <1>1, RecordsTyped DEF Init, TypeOK

LEMMA UnsavedTyped == \A n \in Node : Unsaved(n) \in SUBSET Key
  BY DEF Unsaved, Newer

LEMMA KeptOrMarked ==
  ASSUME owed \in [Node -> SUBSET Key], NEW n \in Node, NEW k \in Key
  PROVE  /\ [owed EXCEPT ![n] = owed[n] \cup {k}] \in [Node -> SUBSET Key]
         /\ [owed EXCEPT ![n] = owed[n]] \in [Node -> SUBSET Key]
  <1>1. owed[n] \cup {k} \in SUBSET Key /\ owed[n] \in SUBSET Key
    OBVIOUS
  <1> QED BY <1>1

LEMMA StampTyped ==
  ASSUME TypeOK, NEW n \in Node, Stamp(n)
  PROVE  /\ due' \in [Node -> BOOLEAN] /\ unsynced' \in [Node -> SUBSET Call]
         /\ \A m \in Node : unsynced'[m] \subseteq unsynced[m]
  BY DEF TypeOK, Stamp

LEMMA NextType == TypeOK /\ [Next]_vars => TypeOK'
  <1> SUFFICES ASSUME TypeOK, [Next]_vars PROVE TypeOK'
    OBVIOUS
  <1> USE DEF raftVars, callVars, nodeVars, fsmVars, dataVars, gateVars, syncVars
  <1>1. ASSUME NEW n \in Node, Elect(n) \/ StepDown(n) PROVE TypeOK'
    BY <1>1 DEF TypeOK, Elect, StepDown
  <1>2. ASSUME NEW n \in Node, NEW c \in Call, Exec(n, c) PROVE TypeOK'
    BY <1>2 DEF TypeOK, Exec
  <1>3. ASSUME NEW c \in Call, Commit(c) PROVE TypeOK'
    <2>1. log' \in Seq(Call)
      BY <1>3 DEF TypeOK, Commit
    <2> QED BY <1>3, <2>1 DEF TypeOK, Commit
  <1>4. ASSUME NEW k \in Key, CloudWrite(k) PROVE TypeOK'
    BY <1>4 DEF TypeOK, CloudWrite
  <1>5. ASSUME NEW n \in Node, Apply(n) PROVE TypeOK'
    <2>1. log[applied[n] + 1] \in Call
      BY <1>5 DEF TypeOK, Apply, CanApply
    <2>2. /\ applied' \in [Node -> Nat] /\ inCb' \in [Node -> BOOLEAN]
          /\ unsynced' \in [Node -> SUBSET Call]
      BY <1>5, <2>1 DEF TypeOK, Apply
    <2> QED BY <1>5, <2>2 DEF TypeOK, Apply
  <1>6. ASSUME NEW n \in Node, Callback(n) PROVE TypeOK'
    BY <1>6 DEF TypeOK, Callback
  <1>7. ASSUME NEW n \in Node, Begin(n) PROVE TypeOK'
    BY <1>7 DEF TypeOK, Begin
  <1>8. ASSUME NEW n \in Node, NEW k \in Key,
               Pull(n, k) \/ HashFails(n, k) \/ PullFails(n, k)
        PROVE  TypeOK'
    <2>1. CASE Pull(n, k)
      <3>1. PICK w \in {FALSE, inCb[n]} :
              changed' = [changed EXCEPT ![n] = changed[n] \/ file[n][k] # cloud[k] \/ w]
        BY <2>1 DEF Pull
      <3>2. (changed[n] \/ file[n][k] # cloud[k] \/ w) \in BOOLEAN
        OBVIOUS
      <3>3. changed' \in [Node -> BOOLEAN]
        BY <3>1, <3>2 DEF TypeOK
      <3>4. file' \in [Node -> [Key -> Nat]] /\ left' \in [Node -> SUBSET Key]
        BY <2>1 DEF Pull, TypeOK
      <3> QED BY <2>1, <3>3, <3>4 DEF Pull, TypeOK
    <2>marked. /\ [owed EXCEPT ![n] = owed[n] \cup {k}] \in [Node -> SUBSET Key]
               /\ [owed EXCEPT ![n] = owed[n]] \in [Node -> SUBSET Key]
               /\ owed \in [Node -> SUBSET Key]
      BY KeptOrMarked DEF TypeOK
    <2>pulled. [file EXCEPT ![n][k] = cloud[k]] \in [Node -> [Key -> Nat]]
      BY DEF TypeOK
    <2>2. CASE HashFails(n, k)
      <3>1. left' \in [Node -> SUBSET Key] /\ changed' \in [Node -> BOOLEAN]
        BY <2>2 DEF HashFails, TypeOK
      <3>2. owed' \in [Node -> SUBSET Key]
        <4>1. (IF file[n][k] # cloud[k] THEN owed[n] \cup {k} ELSE owed[n]) \in SUBSET Key
          BY DEF TypeOK
        <4>2. CASE UNCHANGED owed
          BY <2>marked, <4>2
        <4>3. CASE owed' = [owed EXCEPT ![n] = IF file[n][k] # cloud[k]
                                               THEN owed[n] \cup {k} ELSE owed[n]]
          BY <2>marked, <4>1, <4>3
        <4> QED BY <2>2, <4>2, <4>3 DEF HashFails
      <3> QED BY <2>2, <2>pulled, <3>1, <3>2 DEF HashFails, TypeOK
    <2>3. CASE PullFails(n, k)
      <3>1. left' \in [Node -> SUBSET Key]
        BY <2>3 DEF PullFails, TypeOK
      <3>2. CASE UNCHANGED <<file, owed>>
        BY <2>3, <3>1, <3>2 DEF PullFails, TypeOK
      <3>3. CASE /\ file' = [file EXCEPT ![n][k] = cloud[k]]
                 /\ owed' = [owed EXCEPT ![n] = owed[n] \cup {k}]
        BY <2>3, <2>marked, <2>pulled, <3>1, <3>3 DEF PullFails, TypeOK
      <3> QED BY <2>3, <3>2, <3>3 DEF PullFails
    <2> QED BY <1>8, <2>1, <2>2, <2>3
  <1>9. ASSUME NEW n \in Node, Finish(n) \/ Ask(n) PROVE TypeOK'
    <2>1. CASE Finish(n)
      <3>1. owed' \in [Node -> SUBSET Key]
        BY <2>1, UnsavedTyped DEF Finish, TypeOK
      <3> QED BY <2>1, <3>1, StampTyped, RecordsTyped DEF TypeOK, Finish, Return
    <2>2. CASE Ask(n)
      BY <2>2 DEF TypeOK, Ask
    <2> QED BY <1>9, <2>1, <2>2
  <1>10. ASSUME NEW n \in Node, Snapshot(n) PROVE TypeOK'
    <2>1. [index |-> applied[n], ver |-> file[n]] \in Snap
      BY DEF TypeOK, Snap
    <2> QED BY <1>10, <2>1 DEF TypeOK, Snapshot
  <1>11. ASSUME NEW n \in Node, Persisted(n) PROVE TypeOK'
    <2>1. snap' \in [Node -> Snap] /\ owed' \in [Node -> SUBSET Key] /\ torn' \in [Node -> BOOLEAN]
      BY <1>11, UnsavedTyped DEF TypeOK, Persisted
    <2> QED BY <1>11, <2>1, StampTyped, RecordsTyped DEF TypeOK, Persisted, Return
  <1>12. ASSUME NEW n \in Node, SnapshotFails(n) PROVE TypeOK'
    BY <1>12, UnsavedTyped, RecordsTyped DEF TypeOK, SnapshotFails, Return
  <1>13. ASSUME NEW n \in Node, Install(n) \/ InstallFails(n) PROVE TypeOK'
    <2>1. leader \in Node /\ snap' = [snap EXCEPT ![n] = snap[leader]]
      BY <1>13 DEF TypeOK, Install, InstallFails, FetchSnapshot
    <2>2. snap[leader] \in Snap /\ snap[leader].ver \in [Key -> Nat] /\ snap[leader].index \in Nat
      BY <2>1 DEF TypeOK, Snap
    <2>3. CASE Install(n)
      BY <2>1, <2>2, <2>3 DEF TypeOK, Install
    <2>4. CASE InstallFails(n)
      <3>1. PICK g \in PartRestored(file[n], snap[leader].ver) :
              /\ file' = [file EXCEPT ![n] = g]
              /\ owed' = [owed EXCEPT ![n] = Newer(g, snap[leader])]
        BY <2>4 DEF InstallFails
      <3>2. g \in [Key -> Nat] /\ Newer(g, snap[leader]) \in SUBSET Key
        BY SyncAssumption DEF PartRestored, Newer
      <3>3. /\ file' \in [Node -> [Key -> Nat]] /\ owed' \in [Node -> SUBSET Key]
            /\ snap' \in [Node -> Snap]
        BY <2>1, <2>2, <3>1, <3>2 DEF TypeOK
      <3> QED BY <2>4, <3>3 DEF InstallFails, TypeOK
    <2> QED BY <1>13, <2>3, <2>4
  <1>14. ASSUME NEW n \in Node, Crash(n) PROVE TypeOK'
    BY <1>14, UnsavedTyped, RecordsTyped DEF TypeOK, Crash, Return
  <1>15. ASSUME NEW n \in Node, Start(n) \/ StartFails(n) PROVE TypeOK'
    <2>1. snap[n].index \in Nat /\ snap[n].ver \in [Key -> Nat]
      BY DEF TypeOK, Snap
    <2>2. CASE Start(n)
      <3>1. /\ file' \in [Node -> [Key -> Nat]] /\ owed' \in [Node -> SUBSET Key]
            /\ torn' \in [Node -> BOOLEAN]
        BY <2>2, <2>1 DEF TypeOK, Start
      <3> QED BY <2>2, <2>1, <3>1 DEF TypeOK, Start
    <2>3. CASE StartFails(n)
      <3>1. PICK g \in PartRestored(file[n], snap[n].ver) : file' = [file EXCEPT ![n] = g]
        BY <2>3 DEF StartFails
      <3>2. g \in [Key -> Nat]
        BY SyncAssumption DEF PartRestored
      <3>3. file' \in [Node -> [Key -> Nat]]
        BY <3>1, <3>2 DEF TypeOK
      <3> QED BY <2>3, <3>3 DEF TypeOK, StartFails
    <2> QED BY <1>15, <2>2, <2>3
  <1>16. CASE UNCHANGED vars
    BY <1>16 DEF TypeOK, vars
  <1> QED BY <1>1, <1>2, <1>3, <1>4, <1>5, <1>6, <1>7, <1>8, <1>9, <1>10, <1>11,
             <1>12, <1>13, <1>14, <1>15, <1>16
          DEF Next, Sync, Schedule

(* The variables of TursoSync stay within their types. *)
THEOREM SyncTypeCorrect == Spec => []TypeOK
  BY InitType, NextType, PTL DEF Spec

-----------------------------------------------------------------------------
(* A node that is stuck stays so *)

LEMMA LogGrows ==
  ASSUME TypeOK, [Next]_vars
  PROVE  Len(log) <= Len(log') /\ \A i \in 1..Len(log) : log'[i] = log[i]
  <1>1. CASE UNCHANGED log
    BY <1>1 DEF TypeOK
  <1>2. ASSUME NEW c \in Call, Commit(c)
        PROVE  Len(log) <= Len(log') /\ \A i \in 1..Len(log) : log'[i] = log[i]
    BY <1>2 DEF TypeOK, Commit
  <1>3. (\A c \in Call : ~Commit(c)) => UNCHANGED log
    BY DEF Next, Sync, Schedule, vars, raftVars, Elect, StepDown, Install, InstallFails,
           FetchSnapshot, Crash, Start, StartFails, Exec, Apply, Callback, Begin, Pull, HashFails, PullFails, Finish, Ask, Snapshot,
           Persisted, SnapshotFails, CloudWrite
  <1> QED BY <1>1, <1>2, <1>3

LEMMA CommittedStays ==
  ASSUME TypeOK, [Next]_vars, NEW c, Committed(c)
  PROVE  Committed(c)'
  <1>1. PICK i \in 1..Len(log) : log[i] = c
    BY DEF Committed
  <1>2. Len(log) \in Nat /\ Len(log') \in Nat
    BY NextType DEF TypeOK
  <1>3. i \in 1..Len(log') /\ log'[i] = c
    BY <1>1, <1>2, LogGrows
  <1> QED BY <1>3 DEF Committed

(* The callback has to wait for those who hold the read lock, and the snapshot
   for the callback. *)
LEMMA StuckStays ==
  ASSUME TypeOK, [Next]_vars, NEW n \in Node, Stuck(n), up'[n]
  PROVE  Stuck(n)'
  <1> USE DEF raftVars, callVars, nodeVars, fsmVars, dataVars, gateVars, syncVars
  <1>held. inCb[n] /\ ~Unlocked(n) /\ (pc[n] = "snapshot" \/ Waiting(n) # {})
    BY DEF Stuck, Unlocked
  <1>1. ASSUME UNCHANGED <<inCb, pc, res, via>> PROVE Stuck(n)'
    BY <1>1, CommittedStays DEF Stuck, Waiting
  <1>2. ASSUME NEW m \in Node, m # n \/ UNCHANGED pc, inCb'[n],
               \A j \in Node : j # m => pc'[j] = pc[j],
               UNCHANGED <<res, via>>
        PROVE  Stuck(n)'
    BY <1>2, CommittedStays DEF Stuck, Waiting
  <1>3. ASSUME NEW m \in Node, StepDown(m) PROVE Stuck(n)'
    <2>1. \A c \in Waiting(n) : Committed(c) => c \in Waiting(n)' /\ Committed(c)'
      BY <1>3, CommittedStays DEF StepDown, Waiting
    <2> QED BY <1>3, <2>1 DEF StepDown, Stuck
  <1>4. ASSUME NEW m \in Node, NEW d \in Call, Exec(m, d) PROVE Stuck(n)'
    <2>1. \A c \in Waiting(n) : c \in Waiting(n)'
      BY <1>4 DEF Exec, Waiting, TypeOK
    <2> QED BY <1>4, <2>1, CommittedStays DEF Exec, Stuck
  <1>5. ASSUME NEW m \in Node, Crash(m) PROVE Stuck(n)'
    <2>1. m # n
      BY <1>5 DEF Crash, TypeOK
    <2>2. \A c \in Waiting(n) : c \in Waiting(n)'
      BY <1>5, <2>1 DEF Crash, Waiting
    <2>3. inCb'[n] = inCb[n] /\ pc'[n] = pc[n]
      BY <1>5, <2>1 DEF Crash, Return, TypeOK
    <2> QED BY <2>2, <2>3, CommittedStays DEF Stuck
  <1>6. ASSUME NEW m \in Node, Apply(m) \/ Callback(m) PROVE Stuck(n)'
    <2>1. inCb'[n] /\ UNCHANGED <<pc, res, via>>
      BY <1>6, <1>held DEF Apply, Callback, CanApply, TypeOK
    <2> QED BY <2>1, CommittedStays DEF Stuck, Waiting
  \* SyncAll of n is where it asked for its snapshot, or its step leaves the
  \* waiting Exec alone.
  <1>7. ASSUME NEW m \in Node, Begin(m) \/ Sync(m) PROVE Stuck(n)'
    <2>1. UNCHANGED <<inCb, res, via>>
      BY <1>7 DEF Begin, Sync, Pull, HashFails, PullFails, Finish, Ask, Snapshot, Persisted,
                  SnapshotFails
    <2>2. pc[n] = "snapshot" => pc'[n] = "snapshot"
      BY <1>7, <1>held DEF Begin, Sync, Pull, HashFails, PullFails, Finish, Ask, Snapshot, Persisted,
                  SnapshotFails, Return, TypeOK
    <2> QED BY <2>1, <2>2, CommittedStays DEF Stuck, Waiting
  <1>8. ASSUME NEW m \in Node,
               Elect(m) \/ Install(m) \/ InstallFails(m) \/ Start(m) \/ StartFails(m)
        PROVE  Stuck(n)'
    BY <1>1, <1>8 DEF Elect, Install, InstallFails, Start, StartFails
  <1>9. ASSUME NEW c \in Call, Commit(c) PROVE Stuck(n)'
    BY <1>1, <1>9 DEF Commit
  <1>10. ASSUME NEW k \in Key, CloudWrite(k) PROVE Stuck(n)'
    BY <1>1, <1>10 DEF CloudWrite
  <1>11. CASE UNCHANGED vars
    BY <1>1, <1>11 DEF vars
  <1> QED BY <1>3, <1>4, <1>5, <1>6, <1>7, <1>8, <1>9, <1>10, <1>11 DEF Next, Schedule

(* No election, lost leadership, sync or snapshot frees a node whose FSM
   goroutine and Manager wait for each other: only the end of its process. *)
THEOREM StuckUntilTheEnd == Spec => StuckForLife
  <1>1. TypeOK /\ [Next]_vars => [\A n \in Node : Stuck(n) => Stuck(n)' \/ ~up'[n]]_vars
    BY StuckStays
  <1> QED BY <1>1, SyncTypeCorrect, PTL DEF Spec, StuckForLife

-----------------------------------------------------------------------------
(* The inductive invariant *)

LEMMA InitInv == Init => IInv
  <1> SUFFICES ASSUME Init PROVE IInv
    OBVIOUS
  <1>1. TypeOK
    BY InitType
  <1>2. EntriesOnce /\ SyncInOrder /\ CopyIsCurrent
    BY RecordsTyped DEF Init, EntriesOnce, SyncInOrder, CopyIsCurrent
  <1>3. NotNewer /\ FileCoversSnapshot /\ UnchangedIsSaved
    BY DEF Init, NotNewer, FileCoversSnapshot, UnchangedIsSaved, Unsaved, Newer, Oldest, NoSnap
  <1>4. GateFollowsWrites
    BY DEF Init, GateFollowsWrites
  <1> QED BY <1>1, <1>2, <1>3, <1>4 DEF IInv

LEMMA NextEntriesOnce ==
  ASSUME TypeOK, EntriesOnce, [Next]_vars
  PROVE  EntriesOnce'
  <1> USE DEF raftVars, callVars, nodeVars, fsmVars, dataVars, gateVars, syncVars
  <1>1. ASSUME UNCHANGED log,
               \A n \in Node : unsynced'[n] \subseteq unsynced[n] \cup {c \in Call : Committed(c)}
        PROVE  EntriesOnce'
    BY <1>1 DEF EntriesOnce, Committed
  <1>2. ASSUME NEW c \in Call, Commit(c) PROVE EntriesOnce'
    <2>1. /\ Len(log') = Len(log) + 1 /\ log'[Len(log) + 1] = c /\ Len(log) \in Nat
          /\ \A i \in 1..Len(log) : log'[i] = log[i]
          /\ ~Committed(c) /\ UNCHANGED unsynced
      BY <1>2 DEF Commit, TypeOK
    <2>2. ASSUME NEW i \in 1..Len(log'), NEW j \in 1..Len(log'), log'[i] = log'[j]
          PROVE  i = j
      <3>1. CASE i \in 1..Len(log) /\ j \in 1..Len(log)
        BY <2>1, <2>2, <3>1 DEF EntriesOnce
      <3>2. CASE i \notin 1..Len(log) \/ j \notin 1..Len(log)
        BY <2>1, <2>2, <3>2 DEF Committed
      <3> QED BY <3>1, <3>2
    <2>3. \A n \in Node : \A d \in unsynced'[n] : Committed(d)'
      BY <2>1, CommittedStays DEF EntriesOnce
    <2> QED BY <2>2, <2>3 DEF EntriesOnce
  <1>3. ASSUME NEW n \in Node, Apply(n) PROVE EntriesOnce'
    <2>1. applied[n] + 1 \in 1..Len(log) /\ log[applied[n] + 1] \in Call
      BY <1>3 DEF Apply, CanApply, TypeOK
    <2>2. Committed(log[applied[n] + 1])
      BY <2>1 DEF Committed
    <2>3. /\ unsynced' = [unsynced EXCEPT ![n] = unsynced[n] \cup {log[applied[n] + 1]}]
          /\ UNCHANGED log
      BY <1>3 DEF Apply
    <2> QED BY <1>1, <2>1, <2>2, <2>3 DEF TypeOK
  <1>4. ASSUME NEW n \in Node, Finish(n) \/ Persisted(n) PROVE EntriesOnce'
    BY <1>1, <1>4, StampTyped DEF Finish, Persisted
  <1>5. ASSUME NEW n \in Node,
               \/ Elect(n) \/ StepDown(n) \/ Install(n) \/ InstallFails(n)
               \/ Crash(n) \/ Start(n) \/ StartFails(n)
               \/ \E c \in Call : Exec(n, c)
               \/ Callback(n) \/ Begin(n) \/ Ask(n) \/ Snapshot(n) \/ SnapshotFails(n)
               \/ \E k \in Key : Pull(n, k) \/ HashFails(n, k) \/ PullFails(n, k)
        PROVE  EntriesOnce'
    <2>1. UNCHANGED <<log, unsynced>>
      BY <1>5 DEF Elect, StepDown, Install, InstallFails, Crash, Start, StartFails, Exec,
                  Callback, Begin, Ask, Snapshot, SnapshotFails, Pull, HashFails, PullFails
    <2> QED BY <1>1, <2>1
  <1>6. ASSUME NEW k \in Key, CloudWrite(k) PROVE EntriesOnce'
    BY <1>1, <1>6 DEF CloudWrite
  <1>7. CASE UNCHANGED vars
    BY <1>1, <1>7 DEF vars
  <1> QED BY <1>2, <1>3, <1>4, <1>5, <1>6, <1>7 DEF Next, Sync, Schedule

(* Steps on the outside of SyncAll: Raft, Exec, the callback, the primaries. *)
Outside == \/ \E n \in Node : \/ Elect(n) \/ StepDown(n) \/ Callback(n)
                              \/ \E c \in Call : Exec(n, c)
           \/ \E c \in Call : Commit(c)
           \/ \E k \in Key : CloudWrite(k)
           \/ UNCHANGED vars

LEMMA OutsideFrame ==
  ASSUME TypeOK, Outside
  PROVE  /\ UNCHANGED <<up, again, applied, file, snap, snapped, pc, left, changed, persist,
                        unsynced, owed, torn, faults>>
         /\ \A k \in Key : cloud[k] <= cloud'[k]
  <1> USE DEF raftVars, callVars, nodeVars, fsmVars, dataVars, gateVars, syncVars
  <1>1. ASSUME NEW k \in Key, CloudWrite(k) PROVE \A j \in Key : cloud[j] <= cloud'[j]
    BY <1>1 DEF CloudWrite, TypeOK
  <1>2. \A k \in Key : cloud[k] <= cloud[k]
    BY DEF TypeOK
  <1> QED BY <1>1, <1>2 DEF Outside, Elect, StepDown, Callback, Exec, Commit, CloudWrite, vars

LEMMA NextSyncInOrder ==
  ASSUME TypeOK, SyncInOrder, [Next]_vars
  PROVE  SyncInOrder'
  <1> USE DEF nodeVars, fsmVars, dataVars, gateVars, syncVars
  <1>1. CASE Outside
    BY <1>1, OutsideFrame DEF SyncInOrder
  <1> DEFINE Others(n) == \A m \in Node : m # n =>
               /\ up'[m] = up[m] /\ applied'[m] = applied[m]
               /\ pc'[m] = pc[m] /\ persist'[m] = persist[m] /\ changed'[m] = changed[m]
             Good(n) == /\ pc[n] # "idle" => up[n]
                        /\ persist[n].index <= applied[n]
                        /\ pc[n] = "idle" => ~changed[n] /\ persist[n] = NoSnap
  \* It is enough to look at the node that takes the step.
  <1>2. ASSUME NEW n \in Node, Others(n), Good(n)' PROVE SyncInOrder'
    BY <1>2 DEF SyncInOrder
  <1>3. ASSUME NEW n \in Node
        PROVE  /\ applied[n] \in Nat /\ snap[n].index \in Nat /\ persist[n].index \in Nat
               /\ pc[n] # "idle" => up[n]
               /\ persist[n].index <= applied[n]
               /\ pc[n] = "idle" => ~changed[n] /\ persist[n] = NoSnap
    BY DEF TypeOK, Snap, SyncInOrder
  <1>idle. NoSnap.index = 0 /\ \A n \in Node : persist'[n] = NoSnap => persist'[n].index = 0
    BY RecordsTyped
  <1> HIDE DEF Others, Good
  <1>4. ASSUME NEW n \in Node, Apply(n) PROVE SyncInOrder'
    <2>1. Others(n)
      BY <1>4 DEF Apply, TypeOK, Others
    <2>2. /\ applied'[n] = applied[n] + 1
          /\ UNCHANGED <<up, snap, pc, persist, changed>>
      BY <1>4 DEF Apply, TypeOK
    <2>3. Good(n)'
      BY <1>3, <2>2 DEF Good
    <2> QED BY <1>2, <2>1, <2>3
  <1>5. ASSUME NEW n \in Node, Begin(n) \/ Ask(n) PROVE SyncInOrder'
    <2>1. Others(n)
      BY <1>5 DEF Begin, Ask, TypeOK, Others
    <2>2. /\ pc'[n] \in {"sync", "snapshot"} /\ up[n]
          /\ UNCHANGED <<up, snap, applied, persist, changed>>
      BY <1>3, <1>5 DEF Begin, Ask, TypeOK
    <2>3. Good(n)'
      BY <1>3, <2>2 DEF Good
    <2> QED BY <1>2, <2>1, <2>3
  <1>6. ASSUME NEW n \in Node, NEW k \in Key,
               Pull(n, k) \/ HashFails(n, k) \/ PullFails(n, k)
        PROVE  SyncInOrder'
    <2>1. \A m \in Node : m # n => changed'[m] = changed[m]
      BY <1>6 DEF Pull, HashFails, PullFails, TypeOK
    <2>2. pc[n] = "sync" /\ UNCHANGED <<up, applied, pc, persist>>
      BY <1>6 DEF Pull, HashFails, PullFails
    <2>3. Others(n) /\ Good(n)'
      BY <1>3, <2>1, <2>2 DEF Good, Others
    <2> QED BY <1>2, <2>3
  <1>7. ASSUME NEW n \in Node, Snapshot(n) PROVE SyncInOrder'
    <2>1. Others(n)
      BY <1>7 DEF Snapshot, TypeOK, Others
    <2>2. /\ pc'[n] = "persist" /\ persist'[n].index = applied[n] /\ pc[n] = "snapshot"
          /\ UNCHANGED <<up, snap, applied, changed>>
      BY <1>7 DEF Snapshot, TypeOK
    <2>3. Good(n)'
      BY <1>3, <2>2 DEF Good
    <2> QED BY <1>2, <2>1, <2>3
  <1>8. ASSUME NEW n \in Node, Finish(n) \/ SnapshotFails(n) PROVE SyncInOrder'
    <2>1. Others(n)
      BY <1>8 DEF Finish, SnapshotFails, Return, TypeOK, Others
    <2>2. /\ pc'[n] = "idle" /\ persist'[n] = NoSnap /\ ~changed'[n]
          /\ UNCHANGED <<up, snap, applied>>
      BY <1>8 DEF Finish, SnapshotFails, Return, TypeOK
    <2>3. Good(n)'
      BY <1>3, <1>idle, <2>2 DEF Good
    <2> QED BY <1>2, <2>1, <2>3
  <1>9. ASSUME NEW n \in Node, Persisted(n) PROVE SyncInOrder'
    <2>1. Others(n)
      BY <1>9 DEF Persisted, Return, TypeOK, Others
    <2>2. /\ pc'[n] = "idle" /\ persist'[n] = NoSnap /\ ~changed'[n]
          /\ UNCHANGED <<up, applied>>
      BY <1>9 DEF Persisted, Return, TypeOK
    <2>3. Good(n)'
      BY <1>3, <1>idle, <2>2 DEF Good
    <2> QED BY <1>2, <2>1, <2>3
  <1>10. ASSUME NEW n \in Node, Install(n) \/ InstallFails(n) PROVE SyncInOrder'
    <2>1. Others(n)
      BY <1>10 DEF Install, InstallFails, TypeOK, Others
    <2>2. /\ leader \in Node /\ snap[leader].index > applied[n]
          /\ applied'[n] \in {applied[n], snap[leader].index}
          /\ UNCHANGED <<up, pc, persist, changed>>
      BY <1>10 DEF Install, InstallFails, FetchSnapshot, TypeOK
    <2>3. Good(n)'
      BY <1>3, <2>2 DEF Good
    <2> QED BY <1>2, <2>1, <2>3
  <1>11. ASSUME NEW n \in Node, Crash(n) PROVE SyncInOrder'
    <2>1. Others(n)
      BY <1>11 DEF Crash, Return, TypeOK, Others
    <2>2. ~up'[n] /\ pc'[n] = "idle" /\ persist'[n] = NoSnap /\ ~changed'[n] /\ applied'[n] = 0
      BY <1>11 DEF Crash, Return, TypeOK
    <2>3. Good(n)'
      BY <1>idle, <2>2 DEF Good
    <2> QED BY <1>2, <2>1, <2>3
  <1>12. ASSUME NEW n \in Node, Start(n) PROVE SyncInOrder'
    <2>1. Others(n)
      BY <1>12 DEF Start, TypeOK, Others
    <2>2. /\ up'[n] /\ ~up[n] /\ applied'[n] = snap[n].index
          /\ UNCHANGED <<pc, persist, changed>>
      BY <1>12 DEF Start, TypeOK
    <2>3. Good(n)'
      BY <1>3, <1>idle, <2>2 DEF Good
    <2> QED BY <1>2, <2>1, <2>3
  <1>13. ASSUME NEW n \in Node, StartFails(n) PROVE SyncInOrder'
    BY <1>13 DEF StartFails, SyncInOrder
  <1> QED BY <1>1, <1>4, <1>5, <1>6, <1>7, <1>8, <1>9, <1>10, <1>11, <1>12, <1>13
          DEF Next, Sync, Schedule, Outside

\* What the invariant says of the data of node n.
Data(n) ==
  /\ \A k \in Key : /\ file[n][k] <= cloud[k] /\ snap[n].ver[k] <= cloud[k]
                    /\ ~torn[n] => file[n][k] >= snap[n].ver[k]
  /\ pc[n] = "persist" /\ persist[n].index >= snap[n].index => file[n] = persist[n].ver
  /\ pc[n] \in {"idle", "sync"} /\ ~changed[n] => Unsaved(n) \subseteq owed[n]

LEMMA DataOfNodes ==
  (\A n \in Node : Data(n)) <=>
    NotNewer /\ FileCoversSnapshot /\ CopyIsCurrent /\ UnchangedIsSaved
  BY DEF Data, NotNewer, FileCoversSnapshot, CopyIsCurrent, UnchangedIsSaved

LEMMA DataTyped ==
  ASSUME TypeOK, NEW n \in Node, NEW k \in Key
  PROVE  /\ file[n][k] \in Nat /\ snap[n].ver[k] \in Nat /\ cloud[k] \in Nat
         /\ file[n] \in [Key -> Nat] /\ snap[n].ver \in [Key -> Nat]
         /\ snap[n].index \in Nat /\ persist[n].index \in Nat
  <1>1. snap[n] \in Snap /\ persist[n] \in Snap /\ file[n] \in [Key -> Nat]
    BY DEF TypeOK
  <1> QED BY <1>1 DEF TypeOK, Snap

LEMMA SavedLeavesNothing ==
  ASSUME TypeOK, NEW n \in Node, file[n] = snap[n].ver
  PROVE  Unsaved(n) = {}
  BY DataTyped DEF Unsaved, Newer

LEMMA NextData ==
  ASSUME TypeOK, SyncInOrder, [Next]_vars, \A n \in Node : Data(n)
  PROVE  \A n \in Node : Data(n)'
  <1> DEFINE Goal == \A n \in Node : Data(n)'
             Others(n) == \A m \in Node : m # n =>
               /\ file'[m] = file[m] /\ snap'[m] = snap[m] /\ pc'[m] = pc[m]
               /\ changed'[m] = changed[m] /\ persist'[m] = persist[m]
               /\ owed'[m] = owed[m] /\ torn'[m] = torn[m]
  <1> USE DEF nodeVars, fsmVars, dataVars, gateVars, syncVars
  <1>type. TypeOK'
    BY NextType
  <1>1. CASE Outside
    <2>1. /\ UNCHANGED <<file, snap, pc, changed, persist, owed, torn>>
          /\ \A k \in Key : cloud[k] <= cloud'[k] /\ cloud'[k] \in Nat
      BY <1>1, <1>type, OutsideFrame DEF TypeOK
    <2> QED BY <2>1, DataTyped DEF Data, Unsaved, Newer
  <1>2. ASSUME NEW n \in Node, Others(n), UNCHANGED cloud, Data(n)' PROVE Goal
    <2> SUFFICES ASSUME NEW m \in Node, m # n PROVE Data(m)'
      BY <1>2
    <2> QED BY <1>2 DEF Data, Unsaved, Newer
  <1> HIDE DEF Others, Goal
  <1>3. ASSUME NEW n \in Node, Apply(n) PROVE Goal
    <2>1. UNCHANGED <<cloud, file, snap, pc, changed, persist, owed, torn>>
      BY <1>3 DEF Apply
    <2> QED BY <2>1 DEF Data, Unsaved, Newer, Goal
  <1>4. ASSUME NEW n \in Node, Begin(n) \/ Ask(n) PROVE Goal
    <2>1. UNCHANGED cloud /\ Others(n)
      BY <1>4 DEF Begin, Ask, TypeOK, Others
    <2>2. /\ UNCHANGED <<file, snap, changed, persist, owed, torn>>
          /\ pc[n] = "idle" \/ pc'[n] = "snapshot"
          /\ pc'[n] # "persist"
      BY <1>4 DEF Begin, Ask, TypeOK
    <2>3. Data(n)'
      BY <2>1, <2>2 DEF Data, Unsaved, Newer
    <2> QED BY <1>2, <2>1, <2>3
  \* A database that is visited keeps its version or gets the primary's; data that
  \* it gets is noticed or owed.
  <1>5. ASSUME NEW n \in Node, NEW k \in Key, pc[n] = "sync",
               UNCHANGED <<cloud, snap, pc, persist, torn>>, Others(n),
               \A j \in Key : j # k => file'[n][j] = file[n][j],
               file'[n][k] \in {file[n][k], cloud[k]},
               owed[n] \subseteq owed'[n],
               ~changed'[n] => ~changed[n] /\ (file'[n][k] = file[n][k] \/ k \in owed'[n])
        PROVE  Goal
    <2>1. \A j \in Key : /\ file'[n][j] <= cloud[j] /\ snap[n].ver[j] <= cloud[j]
                         /\ ~torn[n] => file'[n][j] >= snap[n].ver[j]
      BY <1>5, DataTyped DEF Data
    <2>2. ~changed'[n] => Unsaved(n)' \subseteq owed'[n]
      BY <1>5 DEF Data, Unsaved, Newer
    <2>3. Data(n)'
      BY <1>5, <2>1, <2>2 DEF Data
    <2> QED BY <1>2, <1>5, <2>3
  <1>6. ASSUME NEW n \in Node, NEW k \in Key,
               Pull(n, k) \/ HashFails(n, k) \/ PullFails(n, k)
        PROVE  Goal
    <2>1. /\ pc[n] = "sync" /\ UNCHANGED <<cloud, snap, pc, persist, torn>>
          /\ Others(n)
      BY <1>6 DEF Pull, HashFails, PullFails, TypeOK, Others
    <2>2. /\ \A j \in Key : j # k => file'[n][j] = file[n][j]
          /\ file'[n][k] \in {file[n][k], cloud[k]}
      BY <1>6 DEF Pull, HashFails, PullFails, TypeOK
    <2>3. owed[n] \subseteq owed'[n]
      BY <1>6 DEF Pull, HashFails, PullFails, TypeOK
    <2>4. ~changed'[n] => ~changed[n] /\ (file'[n][k] = file[n][k] \/ k \in owed'[n])
      <3>1. CASE Pull(n, k)
        <4>1. PICK w \in {FALSE, inCb[n]} :
                changed' = [changed EXCEPT ![n] = changed[n] \/ file[n][k] # cloud[k] \/ w]
          BY <3>1 DEF Pull
        <4>2. changed'[n] = (changed[n] \/ file[n][k] # cloud[k] \/ w)
          BY <4>1 DEF TypeOK
        <4> QED BY <2>2, <4>2
      <3>2. CASE HashFails(n, k)
        BY <3>2 DEF HashFails, TypeOK
      <3>3. CASE PullFails(n, k)
        BY <3>3 DEF PullFails, TypeOK
      <3> QED BY <1>6, <3>1, <3>2, <3>3
    <2> QED BY <1>5, <2>1, <2>2, <2>3, <2>4
  \* SyncAll returns without a snapshot.
  <1>7. ASSUME NEW n \in Node, UNCHANGED <<cloud, file, snap, torn>>, Others(n),
               pc'[n] = "idle", Unsaved(n) \subseteq owed'[n]
        PROVE  Goal
    <2>1. Data(n)'
      BY <1>7 DEF Data, Unsaved, Newer
    <2> QED BY <1>2, <1>7, <2>1
  <1>8. ASSUME NEW n \in Node, Finish(n) PROVE Goal
    <2>1. UNCHANGED <<cloud, file, snap, torn>> /\ Others(n) /\ pc'[n] = "idle"
      BY <1>8 DEF Finish, Return, TypeOK, Others
    <2>2. Unsaved(n) \subseteq owed'[n]
      <3>1. CASE changed[n]
        BY <1>8, <3>1 DEF Finish, TypeOK
      <3>2. CASE ~changed[n]
        BY <1>8, <3>2 DEF Finish, Data
      <3> QED BY <3>1, <3>2
    <2> QED BY <1>7, <2>1, <2>2
  <1>9. ASSUME NEW n \in Node, SnapshotFails(n) PROVE Goal
    <2>1. UNCHANGED <<cloud, file, snap, torn>> /\ Others(n) /\ pc'[n] = "idle"
      BY <1>9 DEF SnapshotFails, Return, TypeOK, Others
    <2>2. owed'[n] = Unsaved(n)
      BY <1>9 DEF SnapshotFails, TypeOK
    <2> QED BY <1>7, <2>1, <2>2
  <1>10. ASSUME NEW n \in Node, Crash(n) PROVE Goal
    <2>1. UNCHANGED <<cloud, file, snap, torn>> /\ Others(n) /\ pc'[n] = "idle"
      BY <1>10 DEF Crash, Return, TypeOK, Others
    <2>2. owed'[n] = Unsaved(n)
      BY <1>10 DEF Crash, TypeOK
    <2> QED BY <1>7, <2>1, <2>2
  <1>11. ASSUME NEW n \in Node, Snapshot(n) PROVE Goal
    <2>1. UNCHANGED <<cloud, file, snap, owed, changed, torn>> /\ Others(n)
      BY <1>11 DEF Snapshot, TypeOK, Others
    <2>2. /\ pc[n] = "snapshot" /\ applied[n] > 0 /\ pc'[n] = "persist"
          /\ persist'[n].ver = file[n] /\ persist'[n].index = applied[n]
      BY <1>11 DEF Snapshot, TypeOK
    <2>3. Data(n)'
      BY <2>1, <2>2 DEF Data
    <2> QED BY <1>2, <2>1, <2>3
  \* After a step that makes file and snapshot equal.
  <1>12. ASSUME NEW n \in Node, UNCHANGED cloud, Others(n), file'[n] = snap'[n].ver,
                \A k \in Key : snap'[n].ver[k] <= cloud[k],
                pc'[n] = "persist" => ~(persist'[n].index >= snap'[n].index)
         PROVE  Goal
    <2>1. \A k \in Key : file'[n][k] \in Nat
      BY <1>type DEF TypeOK
    <2>2. Unsaved(n)' = {}
      BY <1>12, <2>1 DEF Unsaved, Newer
    <2>3. \A k \in Key : file'[n][k] >= snap'[n].ver[k]
      BY <1>12, <2>1
    <2>4. Data(n)'
      BY <1>12, <2>2, <2>3 DEF Data
    <2> QED BY <1>2, <1>12, <2>4
  <1>13. ASSUME NEW n \in Node, Persisted(n) PROVE Goal
    <2>1. UNCHANGED <<cloud, file>> /\ Others(n) /\ pc[n] = "persist" /\ pc'[n] = "idle"
      BY <1>13 DEF Persisted, Return, TypeOK, Others
    <2>2. CASE persist[n].index >= snap[n].index
      <3>1. snap'[n] = persist[n]
        BY <1>13, <2>2 DEF Persisted, TypeOK
      <3>2. file[n] = snap'[n].ver
        BY <2>1, <2>2, <3>1 DEF Data
      <3>3. \A k \in Key : snap'[n].ver[k] <= cloud[k]
        BY <3>2 DEF Data
      <3> QED BY <1>12, <2>1, <3>2, <3>3
    <2>3. CASE ~(persist[n].index >= snap[n].index)
      <3>1. UNCHANGED <<snap, torn>> /\ owed'[n] = Unsaved(n)
        BY <1>13, <2>3 DEF Persisted, TypeOK
      <3> QED BY <1>7, <2>1, <3>1
    <2> QED BY <2>2, <2>3
  \* The snapshot that SyncAll still waits for is older than one that is fetched.
  <1>fetch. ASSUME NEW n \in Node, FetchSnapshot(n), UNCHANGED persist
            PROVE  /\ leader \in Node /\ snap'[n] = snap[leader]
                   /\ ~(persist'[n].index >= snap'[n].index)
                   /\ \A k \in Key : snap'[n].ver[k] <= cloud[k]
    <2>1. leader \in Node /\ snap'[n] = snap[leader] /\ snap[leader].index > applied[n]
      BY <1>fetch DEF FetchSnapshot, TypeOK
    <2>2. persist[n].index <= applied[n] /\ applied[n] \in Nat
      BY DEF SyncInOrder, TypeOK
    <2>3. ~(persist'[n].index >= snap'[n].index)
      <3>1. persist[n].index \in Nat /\ snap[leader].index \in Nat
        BY <2>1 DEF TypeOK, Snap
      <3>2. persist'[n].index = persist[n].index /\ snap'[n].index = snap[leader].index
        BY <1>fetch, <2>1
      <3> QED BY <2>1, <2>2, <3>1, <3>2
    <2>4. \A k \in Key : snap'[n].ver[k] <= cloud[k]
      BY <2>1 DEF Data
    <2> QED BY <2>1, <2>3, <2>4
  <1>14. ASSUME NEW n \in Node, Install(n) PROVE Goal
    <2>1. /\ UNCHANGED <<cloud, pc, persist, changed>> /\ Others(n) /\ FetchSnapshot(n)
          /\ file'[n] = snap[leader].ver
      BY <1>14 DEF Install, FetchSnapshot, TypeOK, Others
    <2> QED BY <1>12, <1>fetch, <2>1
  <1>15. ASSUME NEW n \in Node, InstallFails(n) PROVE Goal
    <2>1. /\ UNCHANGED <<cloud, pc, persist, changed>> /\ Others(n) /\ FetchSnapshot(n)
          /\ torn'[n]
      BY <1>15 DEF InstallFails, FetchSnapshot, TypeOK, Others
    <2>2. PICK g \in PartRestored(file[n], snap[leader].ver) :
            file'[n] = g /\ owed'[n] = Newer(g, snap[leader])
      BY <1>15 DEF InstallFails, TypeOK
    <2>3. \A k \in Key : g[k] <= cloud[k]
      <3> SUFFICES ASSUME NEW k \in Key PROVE g[k] <= cloud[k]
        OBVIOUS
      <3>1. g[k] \in {file[n][k], snap[leader].ver[k], 0}
        BY DEF PartRestored
      <3>2. leader \in Node /\ cloud[k] \in Nat
        BY <1>fetch, <2>1 DEF TypeOK
      <3> QED BY <3>1, <3>2 DEF Data
    <2>4. Unsaved(n)' = owed'[n]
      BY <1>fetch, <2>1, <2>2 DEF Unsaved, Newer
    <2>5. Data(n)'
      BY <1>fetch, <2>1, <2>2, <2>3, <2>4 DEF Data
    <2> QED BY <1>2, <2>1, <2>5
  <1>16. ASSUME NEW n \in Node, Start(n) PROVE Goal
    <2>1. UNCHANGED <<cloud, snap, pc, persist, changed>> /\ Others(n) /\ ~up[n]
      BY <1>16 DEF Start, TypeOK, Others
    <2>2. CASE snap[n] = NoSnap
      <3>1. UNCHANGED <<file, owed, torn>>
        BY <1>16, <2>2 DEF Start
      <3> QED BY <2>1, <3>1 DEF Data, Unsaved, Newer, Goal
    <2>3. CASE snap[n] # NoSnap
      <3>1. file'[n] = snap[n].ver
        BY <1>16, <2>3 DEF Start, TypeOK
      <3>2. pc[n] = "idle"
        BY <2>1 DEF SyncInOrder
      <3> QED BY <1>12, <2>1, <3>1, <3>2 DEF Data
    <2> QED BY <2>2, <2>3
  \* What is newer than the snapshot afterwards was so before.
  <1>17. ASSUME NEW n \in Node, StartFails(n) PROVE Goal
    <2>1. /\ UNCHANGED <<cloud, snap, pc, persist, changed, owed>> /\ Others(n) /\ ~up[n]
          /\ torn'[n]
      BY <1>17 DEF StartFails, TypeOK, Others
    <2>2. pc[n] = "idle" /\ ~changed[n]
      BY <2>1 DEF SyncInOrder
    <2>3. PICK g \in PartRestored(file[n], snap[n].ver) : file'[n] = g
      BY <1>17 DEF StartFails, TypeOK
    <2>4. \A k \in Key : g[k] \in {file[n][k], snap[n].ver[k], 0}
      BY DEF PartRestored
    <2>5. \A k \in Key : g[k] <= cloud[k] /\ (g[k] > snap[n].ver[k] => file[n][k] > snap[n].ver[k])
      BY <2>4, DataTyped DEF Data
    <2>6. Unsaved(n)' \subseteq Unsaved(n)
      BY <2>1, <2>3, <2>5 DEF Unsaved, Newer
    <2>7. Data(n)'
      BY <2>1, <2>2, <2>3, <2>5, <2>6 DEF Data
    <2> QED BY <1>2, <2>1, <2>7
  <1> QED BY <1>1, <1>3, <1>4, <1>6, <1>8, <1>9, <1>10, <1>11, <1>13, <1>14, <1>15,
             <1>16, <1>17
          DEF Next, Sync, Schedule, Outside, Goal

\* A place in the log stays the place of its entry.
LEMMA IndexStays ==
  ASSUME TypeOK, EntriesOnce, [Next]_vars, NEW c, Committed(c)
  PROVE  Index(c)' = Index(c)
  <1>1. PICK i \in 1..Len(log) : log[i] = c
    BY DEF Committed
  <1>2. Index(c) = i
    BY <1>1 DEF Index, EntriesOnce
  <1>3. EntriesOnce' /\ Len(log) \in Nat /\ Len(log') \in Nat
    BY NextEntriesOnce, NextType DEF TypeOK
  <1>4. i \in 1..Len(log') /\ log'[i] = c
    BY <1>1, <1>3, LogGrows
  <1>5. \A j \in 1..Len(log') : log'[j] = c => j = i
    BY <1>3, <1>4 DEF EntriesOnce
  <1>6. Index(c)' = i
    BY <1>4, <1>5 DEF Index
  <1> QED BY <1>2, <1>6

LEMMA IndexInNat ==
  ASSUME EntriesOnce, NEW c, Committed(c)
  PROVE  Index(c) \in Nat
  <1>1. PICK i \in 1..Len(log) : log[i] = c
    BY DEF Committed
  <1>2. Index(c) = i
    BY <1>1 DEF Index, EntriesOnce
  <1> QED BY <1>2

LEMMA NextGate ==
  ASSUME TypeOK, EntriesOnce, GateFollowsWrites, [Next]_vars
  PROVE  GateFollowsWrites'
  <1> DEFINE Others(n) == \A m \in Node : m # n =>
               /\ up'[m] = up[m] /\ due'[m] = due[m] /\ inCb'[m] = inCb[m]
               /\ unsynced'[m] = unsynced[m] /\ again'[m] = again[m]
               /\ snap'[m] = snap[m] /\ applied'[m] = applied[m]
             Gate(n) == up[n] /\ ~due[n] /\ ~inCb[n] =>
               \A c \in unsynced[n] :
                 again[n] /\ (Index(c) <= snap[n].index \/ Index(c) > applied[n])
  <1> USE DEF raftVars, callVars, nodeVars, fsmVars, dataVars, gateVars, syncVars
  <1>gate. \A n \in Node : Gate(n)
    BY DEF GateFollowsWrites
  <1>index. \A n \in Node : \A c \in unsynced[n] : Index(c)' = Index(c)
    BY IndexStays DEF EntriesOnce
  <1>1. ASSUME UNCHANGED <<up, due, inCb, unsynced, again, snap, applied>>
        PROVE  GateFollowsWrites'
    BY <1>1, <1>gate, <1>index DEF GateFollowsWrites
  <1>2. ASSUME NEW n \in Node, Others(n), Gate(n)' PROVE GateFollowsWrites'
    <2>1. ASSUME NEW m \in Node, m # n PROVE Gate(m)'
      BY <1>2, <2>1, <1>gate, <1>index
    <2> QED BY <1>2, <2>1 DEF GateFollowsWrites
  <1> HIDE DEF Others, Gate
  \* A step after which the gate is open, or needs not to be.
  <1>3. ASSUME NEW n \in Node, Others(n),
               inCb'[n] \/ due'[n] \/ ~up'[n] \/ unsynced'[n] = {}
        PROVE  GateFollowsWrites'
    <2>1. Gate(n)'
      BY <1>3 DEF Gate
    <2> QED BY <1>2, <1>3, <2>1
  <1>4. ASSUME NEW n \in Node, Apply(n) PROVE GateFollowsWrites'
    <2>1. Others(n) /\ inCb'[n]
      BY <1>4 DEF Apply, Others, TypeOK
    <2> QED BY <1>3, <2>1
  <1>5. ASSUME NEW n \in Node, Callback(n) PROVE GateFollowsWrites'
    <2>1. Others(n) /\ due'[n]
      BY <1>5 DEF Callback, Others, TypeOK
    <2> QED BY <1>3, <2>1
  <1>6. ASSUME NEW n \in Node, Finish(n) \/ Persisted(n) PROVE GateFollowsWrites'
    <2>1. Others(n)
      BY <1>6 DEF Finish, Persisted, Stamp, Others, TypeOK
    <2>2. inCb'[n] \/ unsynced'[n] = {}
      BY <1>6 DEF Finish, Persisted, Stamp, TypeOK
    <2> QED BY <1>3, <2>1, <2>2
  <1>7. ASSUME NEW n \in Node, Crash(n) PROVE GateFollowsWrites'
    <2>1. Others(n) /\ ~up'[n]
      BY <1>7 DEF Crash, Others, TypeOK
    <2> QED BY <1>3, <2>1
  \* After a restart and an installed snapshot all that was applied is in it.
  <1>8. ASSUME NEW n \in Node, Others(n), applied'[n] = snap'[n].index,
               \A c \in unsynced'[n] : up'[n] /\ ~due'[n] /\ ~inCb'[n] => again'[n],
               UNCHANGED unsynced
        PROVE  GateFollowsWrites'
    <2>1. \A c \in unsynced[n] : Index(c)' \in Nat /\ snap'[n].index \in Nat
      <3>1. \A c \in unsynced[n] : Index(c) \in Nat
        BY IndexInNat DEF EntriesOnce
      <3>2. snap'[n].index \in Nat
        BY NextType, DataTyped DEF TypeOK, Snap
      <3> QED BY <3>1, <3>2, <1>index
    <2>2. Gate(n)'
      BY <1>8, <2>1 DEF Gate
    <2> QED BY <1>2, <1>8, <2>2
  <1>9. ASSUME NEW n \in Node, Install(n) PROVE GateFollowsWrites'
    <2>1. /\ Others(n) /\ applied'[n] = snap'[n].index
          /\ UNCHANGED <<up, again, due, inCb, unsynced>>
      BY <1>9 DEF Install, FetchSnapshot, Others, TypeOK
    <2> QED BY <1>8, <1>gate, <2>1 DEF Gate
  \* A snapshot that could not be restored is not older than the one before.
  <1>15. ASSUME NEW n \in Node, InstallFails(n) PROVE GateFollowsWrites'
    <2>1. /\ Others(n) /\ UNCHANGED <<up, again, due, inCb, unsynced, applied>>
          /\ snap'[n].index >= snap[n].index
      BY <1>15 DEF InstallFails, FetchSnapshot, Others, TypeOK
    <2>2. \A c \in unsynced[n] : Index(c) \in Nat
      BY IndexInNat DEF EntriesOnce
    <2>3. snap[n].index \in Nat /\ snap'[n].index \in Nat
      BY NextType DEF TypeOK, Snap
    <2>4. Gate(n)'
      BY <1>gate, <1>index, <2>1, <2>2, <2>3 DEF Gate
    <2> QED BY <1>2, <2>1, <2>4
  <1>10. ASSUME NEW n \in Node, Start(n) PROVE GateFollowsWrites'
    <2>1. /\ Others(n) /\ applied'[n] = snap'[n].index
          /\ again'[n] /\ UNCHANGED unsynced
      BY <1>10 DEF Start, Others, TypeOK
    <2> QED BY <1>8, <2>1
  <1>11. ASSUME NEW n \in Node,
                \/ Elect(n) \/ StepDown(n) \/ StartFails(n) \/ \E c \in Call : Exec(n, c)
                \/ Begin(n) \/ Ask(n) \/ Snapshot(n) \/ SnapshotFails(n)
                \/ \E k \in Key : Pull(n, k) \/ HashFails(n, k) \/ PullFails(n, k)
         PROVE  GateFollowsWrites'
    BY <1>1, <1>11 DEF Elect, StepDown, StartFails, Exec, Begin, Ask, Snapshot,
                       SnapshotFails, Pull, HashFails, PullFails
  <1>12. ASSUME NEW c \in Call, Commit(c) PROVE GateFollowsWrites'
    BY <1>1, <1>12 DEF Commit
  <1>13. ASSUME NEW k \in Key, CloudWrite(k) PROVE GateFollowsWrites'
    BY <1>1, <1>13 DEF CloudWrite
  <1>14. CASE UNCHANGED vars
    BY <1>1, <1>14 DEF vars
  <1> QED BY <1>4, <1>5, <1>6, <1>7, <1>9, <1>10, <1>11, <1>12, <1>13, <1>14, <1>15
          DEF Next, Sync, Schedule

LEMMA NextInv == IInv /\ [Next]_vars => IInv'
  <1> SUFFICES ASSUME IInv, [Next]_vars PROVE IInv'
    OBVIOUS
  <1>1. TypeOK' /\ EntriesOnce' /\ SyncInOrder' /\ GateFollowsWrites'
    BY NextType, NextEntriesOnce, NextSyncInOrder, NextGate DEF IInv
  <1>2. \A n \in Node : Data(n)'
    BY NextData, DataOfNodes DEF IInv
  <1>3. NotNewer' /\ FileCoversSnapshot' /\ CopyIsCurrent' /\ UnchangedIsSaved'
    BY <1>2 DEF Data, NotNewer, FileCoversSnapshot, CopyIsCurrent, UnchangedIsSaved
  <1> QED BY <1>1, <1>3 DEF IInv

(* The invariant of the synchronisation: the entries of the log, the order of
   SyncAll, the versions of replicas and snapshots, and the gate. *)
THEOREM SyncInductive == Spec => []IInv
  BY InitInv, NextInv, PTL DEF Spec

(* On every node a statement that was executed and that the last finished SyncAll
   did not see opens the gate of the schedule, unless its callback is still to
   come, or the node was started again and the statement is in its snapshot or
   not replayed yet. *)
THEOREM GateOpens == Spec => []GateFollowsWrites
  <1>1. IInv => GateFollowsWrites
    BY DEF IInv
  <1> QED BY <1>1, SyncInductive, PTL

(* When no SyncAll runs, data of a replica that its newest snapshot does not have
   was lost by a snapshot that was left out, failed or is older than one that
   could not be restored, by the end of the process, by a pull that failed after
   it wrote, or by hashes that both failed: by nothing else. *)
THEOREM PulledDataIsSaved == Spec => []PulledIsSaved
  <1>1. IInv => PulledIsSaved
    BY DEF IInv, UnchangedIsSaved, SyncInOrder, PulledIsSaved
  <1> QED BY <1>1, SyncInductive, PTL

(* A replica is not older than the newest snapshot of its node, unless a Restore
   has failed since the last that succeeded or the last snapshot. *)
THEOREM ReplicaCoversSnapshot == Spec => []FileCoversSnapshot
  <1>1. IInv => FileCoversSnapshot
    BY DEF IInv
  <1> QED BY <1>1, SyncInductive, PTL
=============================================================================
