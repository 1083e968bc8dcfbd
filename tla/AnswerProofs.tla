---------------------------- MODULE AnswerProofs ----------------------------
(* What MultiFSM executes and answers is true to the log, and is what
   ReplicatedStore promises: theorems for any cluster, databases, calls and
   bounds. *)
EXTENDS MultiFSMProofs, StoreRefinement, FiniteSetTheorems

-----------------------------------------------------------------------------
(* What the theorems need beside IInv *)

\* What makes the answers and the counts inductive: an entry is in the log at
\* most once, and only a call that some node proposed is ...
EntriesOnce ==
  \A i, j \in 1..Len(log) : log[i] = log[j] => i = j

Proposed ==
  \A c \in Call :
    /\ Committed(c) => res[c] \notin {"idle", "refused"}
    /\ res[c] # "idle" => via[c] \in Node

\* ... a node that restores is not in its first life ...
LivesCounted ==
  \A n \in Node : life[n] >= 1 /\ (Restoring(n) => life[n] > 1)

\* ... and in its first life a node has skipped nothing that it has not applied.
FirstLifeInOrder ==
  \A n \in Node, c \in Call : FirstLife(n) /\ c \in skipped[n] => Done(n, c)

\* A snapshot that has a remote database still before it does not complete.
RemoteBlocks ==
  Remote # {} =>
    \A n \in Node : /\ snap[n] = NoSnap /\ ~Restoring(n)
                    /\ persist[n] = NoPersist \/ persist[n].left \cap Remote # {}

-----------------------------------------------------------------------------
(* Only what is committed runs *)

\* Statement c has left no trace on any file, copy or snapshot.
NeverRan(c) ==
  /\ \A h \in Node \cup {Cloud}, k \in DB : disk[h][k].rows[c] = 0
  /\ \A n \in Node, k \in DB :
       persist[n].files[k].rows[c] = 0 /\ snap[n].files[k].rows[c] = 0

\* A statement that ran on any file, in any snapshot or half-written copy,
\* was committed by the cluster before, and is for a database of it.
OnlyCommittedRuns ==
  \A c \in Call : ~Committed(c) \/ Target[c] = NoDB => NeverRan(c)

LEMMA NoRows ==
  ASSUME NEW c \in Call
  PROVE  /\ Blank.rows[c] = 0 /\ Torn.rows[c] = 0
         /\ \A k \in DB : NoPersist.files[k].rows[c] = 0 /\ NoSnap.files[k].rows[c] = 0
  BY DEF Blank, Torn, NoPersist, NoSnap

(* Of the copies being made, Put leaves the bytes or destroys them. *)
LEMMA PutTears ==
  ASSUME TypeOK, NEW h \in Node \cup {Cloud}, NEW k \in DB, NEW f \in File,
         Put(h, k, f), NEW n \in Node, NEW j \in DB
  PROVE  persist'[n].files[j] \in {persist[n].files[j], Torn}
  <1>1. persist[n] \in PersistType
    BY DEF TypeOK, PersistType
  <1>2. CASE n = h /\ persist[n].reading = k
    <2>1. persist'[n] = [persist[n] EXCEPT !.files[k] = Torn]
      BY <1>2 DEF Put
    <2> QED BY <1>1, <2>1 DEF PersistType
  <1>3. CASE ~(n = h /\ persist[n].reading = k)
    BY <1>3 DEF Put
  <1> QED BY <1>2, <1>3

(* Writing a file on which c has not run. *)
LEMMA PutNeverRan ==
  ASSUME TypeOK, NEW h \in Node \cup {Cloud}, NEW k \in DB, NEW f \in File,
         Put(h, k, f), UNCHANGED snap, NEW c \in Call, NeverRan(c), f.rows[c] = 0
  PROVE  NeverRan(c)'
  <1>1. ASSUME NEW m \in Node \cup {Cloud}, NEW j \in DB
        PROVE  disk'[m][j].rows[c] = 0
    <2>1. disk'[m][j] = f \/ disk'[m][j] = disk[m][j]
      BY PutFacts
    <2> QED BY <2>1 DEF NeverRan
  <1>2. ASSUME NEW n \in Node, NEW j \in DB
        PROVE  persist'[n].files[j].rows[c] = 0
    <2>1. persist'[n].files[j] \in {persist[n].files[j], Torn}
      BY PutTears
    <2> QED BY <2>1, NoRows DEF NeverRan
  <1> QED BY <1>1, <1>2 DEF NeverRan

(* Executing d leaves no trace of c. *)
LEMMA ExecNeverRan ==
  ASSUME TypeOK, NEW h \in Node \cup {Cloud}, NEW d \in Call, Target[d] \in DB,
         Put(h, Target[d], Executed(disk[h][Target[d]], d)), UNCHANGED snap,
         NEW c \in Call, NeverRan(c), d # c
  PROVE  NeverRan(c)'
  <1> DEFINE k == Target[d]  f == Executed(disk[h][k], d)
  <1>1. disk[h][k] \in File
    BY DEF TypeOK
  <1>2. f \in File /\ f.rows[c] = disk[h][k].rows[c]
    BY <1>1, ExecutedFacts
  <1>3. f.rows[c] = 0
    BY <1>2 DEF NeverRan
  <1>4. k \in DB /\ Put(h, k, f)
    OBVIOUS
  <1> HIDE DEF k, f
  <1> QED BY <1>2, <1>3, <1>4, PutNeverRan

LEMMA NextNeverRan ==
  ASSUME TypeOK, [Next]_vars, NEW c \in Call, NeverRan(c),
         ~Committed(c)' \/ Target[c] = NoDB
  PROVE  NeverRan(c)'
  <1>1. CASE UNCHANGED <<disk, persist, snap>>
    BY <1>1 DEF NeverRan
  <1>2. ASSUME NEW n \in Node, ApplyExec(n) \/ ApplyExecFails(n) PROVE NeverRan(c)'
    <2> DEFINE d == Next1(n)  k == Target[d]  h == Home(n, k)
    <2>1. /\ d \in Call /\ k \in DB /\ UNCHANGED <<log, snap>>
          /\ applied[n] + 1 \in 1..Len(log)
          /\ \/ Put(h, k, Executed(disk[h][k], d))
             \/ Put(Cloud, k, Executed(disk[Cloud][k], d))
             \/ UNCHANGED <<disk, persist>>
      BY <1>2, NextEntry DEF ApplyExec, ApplyExecFails, raftVars
    <2>2. h \in Node \cup {Cloud} /\ Cloud \in Node \cup {Cloud}
      BY <2>1, HomeTyped
    <2>3. Committed(d) /\ (Committed(c)' <=> Committed(c))
      BY <2>1 DEF Committed, Next1
    <2>4. d # c
      BY <2>1, <2>3, ScopeAssumption
    <2> HIDE DEF d, h
    <2> QED BY <1>1, <2>1, <2>2, <2>4, ExecNeverRan
  <1>3. ASSUME NEW n \in Node, Snapshot(n) \/ PersistCopied(n) \/ PersistFails(n)
        PROVE  NeverRan(c)'
    <2>1. /\ UNCHANGED <<disk, snap>>
          /\ \A m \in Node : \/ persist'[m].files = persist[m].files
                             \/ persist'[m].files = NoPersist.files
      <3>1. persist \in [Node -> PersistType] /\ NoPersist \in PersistType
        BY RecordsTyped DEF TypeOK, PersistType
      <3>2. CASE Snapshot(n)
        <4>1. persist' = [persist EXCEPT ![n] =
                 [NoPersist EXCEPT !.index = applied[n], !.left = DB]]
          BY <3>2 DEF Snapshot
        <4>2. [NoPersist EXCEPT !.index = applied[n], !.left = DB].files = NoPersist.files
          BY DEF NoPersist
        <4>3. UNCHANGED <<disk, snap>>
          BY <3>2 DEF Snapshot
        <4> QED BY <3>1, <4>1, <4>2, <4>3
      <3>3. CASE PersistCopied(n)
        <4>1. persist' = [persist EXCEPT ![n] = [persist[n] EXCEPT !.reading = None]]
          BY <3>3 DEF PersistCopied
        <4>2. [persist[n] EXCEPT !.reading = None].files = persist[n].files
          BY <3>1 DEF PersistType
        <4> QED BY <3>1, <3>3, <4>1, <4>2 DEF PersistCopied
      <3>4. CASE PersistFails(n)
        BY <3>1, <3>4 DEF PersistFails
      <3> QED BY <1>3, <3>2, <3>3, <3>4
    <2> QED BY <2>1, NoRows DEF NeverRan
  <1>4. ASSUME NEW n \in Node, NEW k \in DB, PersistOpen(n, k) PROVE NeverRan(c)'
    <2>1. UNCHANGED <<disk, snap>> /\ disk[n][k] \in File
      BY <1>4 DEF PersistOpen, TypeOK
    <2>2. /\ \A m \in Node : m # n => persist'[m] = persist[m]
          /\ persist'[n].files[k] = disk[n][k]
          /\ \A j \in DB : j # k => persist'[n].files[j] = persist[n].files[j]
      <3>1. persist \in [Node -> PersistType]
        BY DEF TypeOK, PersistType
      <3>2. persist' = [persist EXCEPT ![n] = Opened(persist[n], k, disk[n][k])]
        BY <1>4 DEF PersistOpen
      <3> QED BY <2>1, <3>1, <3>2, OpenedFacts
    <2>3. ASSUME NEW m \in Node, NEW j \in DB PROVE persist'[m].files[j].rows[c] = 0
      BY <2>2 DEF NeverRan
    <2> QED BY <2>1, <2>3 DEF NeverRan
  <1>5. ASSUME NEW n \in Node, PersistDone(n) PROVE NeverRan(c)'
    <2>1. /\ UNCHANGED disk
          /\ \A m \in Node : \/ persist'[m].files = persist[m].files
                             \/ persist'[m].files = NoPersist.files
          /\ \A m \in Node : \/ snap'[m].files = snap[m].files
                             \/ snap'[m].files = persist[m].files
      BY <1>5 DEF PersistDone, TypeOK
    <2> QED BY <2>1, NoRows DEF NeverRan
  <1>6. ASSUME NEW n \in Node, InstallSnapshot(n) PROVE NeverRan(c)'
    <2>1. /\ UNCHANGED <<disk, persist>> /\ leader \in Node
          /\ \A m \in Node : snap'[m] = snap[m] \/ snap'[m] = snap[leader]
      BY <1>6 DEF InstallSnapshot, TypeOK
    <2> QED BY <2>1 DEF NeverRan
  <1>7. ASSUME NEW n \in Node, NEW k \in DB, NEW j \in DB, RestoreFile(n, k, j)
        PROVE  NeverRan(c)'
    <2>1. snap[n].files[k] \in File /\ snap[n].files[k].rows[c] = 0
      BY DEF TypeOK, NeverRan
    <2> QED BY <1>7, <2>1, PutNeverRan DEF RestoreFile
  <1>8. ASSUME NEW n \in Node, NEW j \in DB, RestoreFails(n, j) PROVE NeverRan(c)'
    BY <1>8, FilesTyped, NoRows, PutNeverRan DEF RestoreFails
  <1>9. ASSUME NEW n \in Node, Crash(n) PROVE NeverRan(c)'
    <2>1. /\ UNCHANGED snap
          /\ \A m \in Node : \/ persist'[m].files = persist[m].files
                             \/ persist'[m].files = NoPersist.files
      BY <1>9 DEF Crash, TypeOK
    <2>2. \A h \in Node \cup {Cloud}, k \in DB : disk'[h][k] \in {disk[h][k], Torn}
      <3>1. CASE UNCHANGED disk
        BY <3>1
      <3>2. ASSUME NEW j \in DB, disk' = [disk EXCEPT ![n][j] = Torn]
            PROVE  \A h \in Node \cup {Cloud}, k \in DB : disk'[h][k] \in {disk[h][k], Torn}
        BY <3>2 DEF TypeOK
      <3> QED BY <1>9, <3>1, <3>2 DEF Crash
    <2>3. ASSUME NEW h \in Node \cup {Cloud}, NEW k \in DB PROVE disk'[h][k].rows[c] = 0
      BY <2>2, NoRows DEF NeverRan
    <2> QED BY <2>1, <2>3, NoRows DEF NeverRan
  <1>10. ASSUME NEW n \in Node,
                \/ Elect(n) \/ StepDown(n) \/ Callback(n) \/ ApplyRejects(n)
                \/ RestoreDone(n) \/ Start(n) \/ \E d \in Call : ApplyLog(n, d)
         PROVE  UNCHANGED <<disk, persist, snap>>
    BY <1>10 DEF Elect, StepDown, Callback, ApplyRejects, RestoreDone, Start, ApplyLog
  <1>11. ASSUME NEW d \in Call, Commit(d) PROVE UNCHANGED <<disk, persist, snap>>
    BY <1>11 DEF Commit
  <1>12. CASE UNCHANGED vars
    BY <1>1, <1>12 DEF vars
  <1> QED BY <1>1, <1>2, <1>3, <1>4, <1>5, <1>6, <1>7, <1>8, <1>9, <1>10, <1>11, <1>12
          DEF Next, Apply

LEMMA CommittedStays ==
  ASSUME TypeOK, [Next]_vars, NEW c \in Call, Committed(c)
  PROVE  Committed(c)'
  <1>1. CASE UNCHANGED log
    BY <1>1 DEF Committed
  <1>2. ASSUME NEW d \in Call, Commit(d) PROVE Committed(c)'
    <2>1. Len(log') = Len(log) + 1 /\ \A i \in 1..Len(log) : log'[i] = log[i]
      BY <1>2 DEF Commit, TypeOK
    <2>2. PICK i \in 1..Len(log) : log[i] = c
      BY DEF Committed
    <2>3. i \in 1..Len(log') /\ log'[i] = c
      BY <2>1, <2>2
    <2> QED BY <2>3 DEF Committed
  <1>3. (\A d \in Call : ~Commit(d)) => UNCHANGED log
    BY DEF Next, Apply, vars, raftVars, Elect, StepDown, ApplyLog, ApplyExec,
           ApplyExecFails, ApplyRejects, Callback, Snapshot, PersistOpen, PersistCopied,
           PersistFails, PersistDone, InstallSnapshot, RestoreFile, RestoreFails,
           RestoreDone, Crash, Start
  <1> QED BY <1>1, <1>2, <1>3

LEMMA InitNeverRan == Init => OnlyCommittedRuns
  BY NoRows DEF Init, OnlyCommittedRuns, NeverRan

LEMMA NextOnlyCommitted ==
  TypeOK /\ OnlyCommittedRuns /\ [Next]_vars => OnlyCommittedRuns'
  <1> SUFFICES ASSUME TypeOK, OnlyCommittedRuns, [Next]_vars,
                      NEW c \in Call, ~Committed(c)' \/ Target[c] = NoDB
               PROVE  NeverRan(c)'
    BY DEF OnlyCommittedRuns
  <1>1. ~Committed(c) \/ Target[c] = NoDB
    BY CommittedStays
  <1>2. NeverRan(c)
    BY <1>1 DEF OnlyCommittedRuns
  <1> QED BY <1>2, NextNeverRan

(* No statement runs anywhere before the cluster has committed it, nor one that
   no database can execute, though nodes crash and snapshots go round. *)
THEOREM RunsAreCommitted == Spec => []OnlyCommittedRuns
  BY TypeCorrect, InitNeverRan, NextOnlyCommitted, PTL DEF Spec

-----------------------------------------------------------------------------
(* What has been answered, and what a node in its first life holds *)

\* What the responses of the FSM go back to: none is a success, and an error is
\* about an entry that no node can execute or that this node has skipped.
Answers ==
  \A c \in Call :
    /\ res[c] # "ok"
    /\ res[c] = "failed" =>
         Committed(c) /\ (Target[c] = NoDB \/ c \in skipped[via[c]])

History == EntriesOnce /\ Proposed /\ LivesCounted /\ FirstLifeInOrder
           /\ Answers /\ FirstLifeExact

(* A call that was refused left no trace, since it is not in the log; one that
   failed left none on the file of a node that skipped it. *)
LEMMA AnswersFollow ==
  ASSUME OnlyCommittedRuns, History
  PROVE  AnswerIsTrue
  <1> USE DEF History
  <1> SUFFICES ASSUME NEW c \in Call
               PROVE  LET nowhere == \A h \in Node \cup {Cloud}, k \in DB :
                                       disk[h][k].rows[c] = 0
                      IN /\ res[c] = "refused" => ~Committed(c) /\ nowhere
                         /\ res[c] = "failed" =>
                              /\ Committed(c)
                              /\ Target[c] = NoDB => nowhere
                              /\ FirstLife(via[c]) /\ Target[c] \in DB \ Remote =>
                                   disk[via[c]][Target[c]].rows[c] = 0
                         /\ res[c] # "ok"
    BY DEF AnswerIsTrue
  <1>1. res[c] = "refused" => ~Committed(c)
    BY DEF Proposed
  <1>2. ~Committed(c) \/ Target[c] = NoDB
          => \A h \in Node \cup {Cloud}, k \in DB : disk[h][k].rows[c] = 0
    BY DEF OnlyCommittedRuns, NeverRan
  <1>3. ASSUME res[c] = "failed", FirstLife(via[c]), Target[c] \in DB \ Remote
        PROVE  disk[via[c]][Target[c]].rows[c] = 0
    <2>1. via[c] \in Node
      BY <1>3 DEF Proposed
    <2>2. c \in skipped[via[c]]
      BY <1>3, ScopeAssumption DEF Answers
    <2> QED BY <1>3, <2>1, <2>2 DEF FirstLifeExact
  <1> QED BY <1>1, <1>2, <1>3 DEF Answers

LEMMA InitHistory == Init => History
  <1> SUFFICES ASSUME Init PROVE History
    OBVIOUS
  <1>1. /\ Len(log) = 0 /\ \A c \in Call : res[c] = "idle"
        /\ \A n \in Node : /\ life[n] = 1 /\ phase[n] = "run" /\ applied[n] = 0
                           /\ skipped[n] = {}
    BY DEF Init
  <1>2. \A n \in Node, k \in DB, c \in Call : disk[n][k].rows[c] = 0
    BY DEF Init, Blank
  <1>3. EntriesOnce /\ Proposed /\ Answers
    BY <1>1 DEF EntriesOnce, Proposed, Answers, Committed
  <1>4. LivesCounted /\ FirstLifeInOrder
    BY <1>1 DEF LivesCounted, Restoring, FirstLifeInOrder
  <1>5. FirstLifeExact
    BY <1>1, <1>2 DEF FirstLifeExact, Done
  <1> QED BY <1>3, <1>4, <1>5 DEF History

LEMMA DoneIsCommitted ==
  ASSUME TypeOK, IndexesOrdered, NEW n \in Node, NEW c, Done(n, c)
  PROVE  Committed(c)
  <1>1. PICK i \in 1..applied[n] : log[i] = c
    BY DEF Done
  <1>2. i \in 1..Len(log)
    BY <1>1 DEF TypeOK, IndexesOrdered
  <1> QED BY <1>1, <1>2 DEF Committed

(* The next entry of n is new to n, and is all that applying it adds. *)
LEMMA NextIsFresh ==
  ASSUME TypeOK, EntriesOnce, NEW n \in Node, CanApply(n)
  PROVE  ~Done(n, Next1(n)) /\ Committed(Next1(n))
  <1>1. applied[n] + 1 \in 1..Len(log) /\ applied[n] \in Nat
    BY NextEntry DEF TypeOK
  <1>2. \A i \in 1..applied[n] : i \in 1..Len(log) /\ i # applied[n] + 1
    BY <1>1
  <1> QED BY <1>1, <1>2 DEF EntriesOnce, Done, Next1, Committed

LEMMA DoneStep ==
  ASSUME TypeOK, NEW n \in Node, UNCHANGED log,
         applied' = [applied EXCEPT ![n] = @ + 1], NEW m \in Node, NEW c
  PROVE  Done(m, c)' <=> Done(m, c) \/ (m = n /\ c = Next1(n))
  <1>1. applied[n] \in Nat /\ applied'[m] = IF m = n THEN applied[n] + 1 ELSE applied[m]
    BY DEF TypeOK
  <1>2. 1..(applied[n] + 1) = (1..applied[n]) \cup {applied[n] + 1}
    BY <1>1
  <1> QED BY <1>1, <1>2 DEF Done, Next1

(* A step that changes nothing for the nodes that stay in their first life. *)
LEMMA FirstLifeFrame ==
  ASSUME FirstLifeInOrder, FirstLifeExact, UNCHANGED skipped,
         \A n \in Node : FirstLife(n)' =>
           /\ FirstLife(n) /\ disk'[n] = disk[n] /\ applied'[n] = applied[n]
           /\ \A i \in 1..applied[n] : log'[i] = log[i]
  PROVE  FirstLifeInOrder' /\ FirstLifeExact'
  <1>1. \A n \in Node, c \in Call : FirstLife(n)' => (Done(n, c)' <=> Done(n, c))
    BY DEF Done
  <1> QED BY <1>1 DEF FirstLifeInOrder, FirstLifeExact

(* A step that at most tells callers that their statement may be lost, and
   re-initialises nodes, but starts no first life. *)
LEMMA HistoryFrame ==
  ASSUME TypeOK, History, UNCHANGED <<log, via, skipped>>,
         \A c \in Call : res'[c] = res[c] \/ (res[c] = "waiting" /\ res'[c] = "lost"),
         LivesCounted',
         \A n \in Node : life'[n] = 1 => life[n] = 1,
         \A n \in Node : FirstLife(n)' =>
           FirstLife(n) /\ disk'[n] = disk[n] /\ applied'[n] = applied[n]
  PROVE  History'
  <1> USE DEF History
  <1>1. EntriesOnce'
    BY DEF EntriesOnce
  <1>2. \A c : Committed(c)' <=> Committed(c)
    BY DEF Committed
  <1>3. Proposed'
    BY <1>2 DEF Proposed
  <1>4. Answers'
    BY <1>2 DEF Answers
  <1>5. FirstLifeInOrder' /\ FirstLifeExact'
    BY FirstLifeFrame
  <1> QED BY <1>1, <1>3, <1>4, <1>5

(* A call is put to node n: it waits there, or is refused. *)
LEMMA ApplyLogHistory ==
  ASSUME TypeOK, History, NEW n \in Node, NEW c \in Call, ApplyLog(n, c)
  PROVE  History'
  <1> USE DEF History
  <1>1. /\ res[c] = "idle" /\ res'[c] \in {"waiting", "refused"} /\ via'[c] = n
        /\ \A d \in Call : d # c => res'[d] = res[d] /\ via'[d] = via[d]
        /\ UNCHANGED <<log, phase, applied, life, disk, skipped>>
    BY DEF ApplyLog, TypeOK, raftVars, nodeVars, faultVars
  <1>2. \A d : Committed(d)' <=> Committed(d)
    BY <1>1 DEF Committed
  <1>3. EntriesOnce' /\ LivesCounted'
    BY <1>1 DEF EntriesOnce, LivesCounted, Restoring
  <1>4. Proposed'
    BY <1>1, <1>2 DEF Proposed
  <1>5. Answers'
    BY <1>1, <1>2 DEF Answers
  <1>6. FirstLifeInOrder' /\ FirstLifeExact'
    BY <1>1, FirstLifeFrame DEF FirstLife
  <1> QED BY <1>3, <1>4, <1>5, <1>6

(* The log gains an entry it does not have, of a call that was not refused. *)
LEMMA CommitHistory ==
  ASSUME TypeOK, IndexesOrdered, History, NEW c \in Call, Commit(c)
  PROVE  History'
  <1> USE DEF History
  <1>1. /\ Len(log') = Len(log) + 1 /\ log'[Len(log) + 1] = c
        /\ \A i \in 1..Len(log) : log'[i] = log[i]
        /\ Len(log) \in Nat /\ ~Committed(c) /\ res[c] \in {"waiting", "lost"}
        /\ UNCHANGED <<res, via, phase, applied, life, disk, skipped>>
    BY DEF Commit, TypeOK, callVars, nodeVars, faultVars
  <1>2. \A d : Committed(d)' <=> Committed(d) \/ d = c
    <2>1. 1..Len(log') = (1..Len(log)) \cup {Len(log) + 1}
      BY <1>1
    <2> QED BY <1>1, <2>1 DEF Committed
  <1>3. EntriesOnce'
    <2> SUFFICES ASSUME NEW i \in 1..Len(log'), NEW j \in 1..Len(log'), log'[i] = log'[j]
                 PROVE  i = j
      BY DEF EntriesOnce
    <2>1. CASE i \in 1..Len(log) /\ j \in 1..Len(log)
      BY <1>1, <2>1 DEF EntriesOnce
    <2>2. CASE i \notin 1..Len(log) \/ j \notin 1..Len(log)
      BY <1>1, <2>2 DEF Committed
    <2> QED BY <2>1, <2>2
  <1>4. Proposed'
    BY <1>1, <1>2 DEF Proposed
  <1>5. LivesCounted'
    BY <1>1 DEF LivesCounted, Restoring
  <1>6. Answers'
    BY <1>1, <1>2 DEF Answers
  <1>7. FirstLifeInOrder' /\ FirstLifeExact'
    <2>1. \A n \in Node : \A i \in 1..applied[n] : log'[i] = log[i]
      BY <1>1 DEF IndexesOrdered, TypeOK
    <2> QED BY <1>1, <2>1, FirstLifeFrame DEF FirstLife
  <1> QED BY <1>3, <1>4, <1>5, <1>6, <1>7

(* What executing an entry and passing it over have in common. *)
LEMMA AppliedHistory ==
  ASSUME TypeOK, History, NEW n \in Node, CanApply(n),
         UNCHANGED <<log, via, phase, life>>,
         applied' = [applied EXCEPT ![n] = @ + 1],
         \/ UNCHANGED <<res, skipped>>
         \/ /\ Respond(n, Next1(n), "failed")
            /\ \/ Target[Next1(n)] = NoDB /\ UNCHANGED skipped
               \/ skipped' = [skipped EXCEPT ![n] = @ \cup {Next1(n)}]
  PROVE  EntriesOnce' /\ Proposed' /\ LivesCounted' /\ FirstLifeInOrder' /\ Answers'
  <1> DEFINE c == Next1(n)
  <1> USE DEF History
  <1>1. /\ c \in Call /\ Committed(c) /\ phase[n] = "run"
    BY NextEntry, NextIsFresh DEF CanApply
  <1> HIDE DEF c
  <1>2. \A d : Committed(d)' <=> Committed(d)
    BY DEF Committed
  <1>3. \A m \in Node, d \in Call : Done(m, d)' <=> Done(m, d) \/ (m = n /\ d = c)
    BY DoneStep DEF c
  <1>4. \A d \in Call : \/ res'[d] = res[d]
                       \/ /\ d = c /\ res[c] = "waiting" /\ via[c] = n
                          /\ res'[c] = "failed"
                          /\ Target[c] = NoDB \/ c \in skipped'[n]
    BY <1>1 DEF Respond, Waits, TypeOK, c
  <1>skips. skipped' = skipped \/ skipped' = [skipped EXCEPT ![n] = skipped[n] \cup {c}]
    BY DEF c
  <1>5. \A m \in Node, d \in Call :
          d \in skipped'[m] => d \in skipped[m] \/ (m = n /\ d = c)
    BY <1>skips DEF TypeOK
  <1>6. \A m \in Node : skipped[m] \subseteq skipped'[m]
    <2>1. skipped \in [Node -> SUBSET Call]
      BY DEF TypeOK
    <2>2. CASE skipped' = [skipped EXCEPT ![n] = skipped[n] \cup {c}]
      <3>1. \A m \in Node : skipped'[m] = skipped[m] \cup (IF m = n THEN {c} ELSE {})
        BY <2>1, <2>2
      <3> QED BY <3>1
    <2> QED BY <1>skips, <2>2
  <1>7. EntriesOnce' /\ LivesCounted'
    BY DEF EntriesOnce, LivesCounted, Restoring
  <1>8. Proposed'
    BY <1>2, <1>4 DEF Proposed
  <1>9. FirstLifeInOrder'
    BY <1>3, <1>5 DEF FirstLifeInOrder, FirstLife
  <1>10. Answers'
    <2> SUFFICES ASSUME NEW d \in Call
                 PROVE  /\ res'[d] # "ok"
                        /\ res'[d] = "failed" =>
                             Committed(d) /\ (Target[d] = NoDB \/ d \in skipped'[via[d]])
      BY <1>2 DEF Answers
    <2>1. CASE res'[d] = res[d]
      <3>1. res[d] # "idle" => via[d] \in Node
        BY DEF Proposed
      <3> QED BY <1>6, <2>1, <3>1 DEF Answers
    <2>2. CASE res'[d] # res[d]
      BY <1>1, <1>4, <2>2
    <2> QED BY <2>1, <2>2
  <1> QED BY <1>7, <1>8, <1>9, <1>10

(* The statement of n's next entry is executed on the file it is for. *)
LEMMA ExecWrites ==
  ASSUME TypeOK, NEW n \in Node, ApplyExec(n)
  PROVE  LET c == Next1(n)
             h == Home(n, Target[c])
             ran(m, j, d) == IF m = h /\ j = Target[c] /\ d = c THEN 1 ELSE 0
         IN \A m \in Node \cup {Cloud}, j \in DB, d \in Call :
              /\ disk'[m][j].rows[d] = disk[m][j].rows[d] + ran(m, j, d)
              /\ disk[m][j].rows[d] \in Nat
              /\ disk'[m][j].torn = disk[m][j].torn
  <1> DEFINE c == Next1(n)  k == Target[c]  h == Home(n, k)
             f == Executed(disk[h][k], c)
  <1>1. c \in Call /\ k \in DB /\ Put(h, k, f)
    BY NextEntry DEF ApplyExec
  <1>2. h \in Node \cup {Cloud} /\ disk[h][k] \in File
    BY <1>1, HomeTyped DEF TypeOK
  <1>3. /\ f \in File /\ f.rows[c] = disk[h][k].rows[c] + 1 /\ f.torn = disk[h][k].torn
        /\ \A d \in Call : d # c => f.rows[d] = disk[h][k].rows[d]
    BY <1>1, <1>2, ExecutedFacts
  <1>4. \A m \in Node \cup {Cloud}, j \in DB : disk[m][j].rows \in [Call -> Nat]
    <2>1. \A m \in Node \cup {Cloud}, j \in DB : disk[m][j] \in File
      BY DEF TypeOK
    <2> QED BY <2>1 DEF File
  <1> SUFFICES ASSUME NEW m \in Node \cup {Cloud}, NEW j \in DB, NEW d \in Call
               PROVE  /\ disk'[m][j].rows[d] = disk[m][j].rows[d]
                           + IF m = h /\ j = k /\ d = c THEN 1 ELSE 0
                      /\ disk[m][j].rows[d] \in Nat
                      /\ disk'[m][j].torn = disk[m][j].torn
    OBVIOUS
  <1>5. disk[m][j].rows[d] \in Nat
    BY <1>4
  <1> HIDE DEF c, k, h, f
  <1>6. CASE m = h /\ j = k
    <2>1. disk'[m][j] = f
      BY <1>1, <1>2, <1>3, <1>6, PutFacts
    <2> QED BY <1>3, <1>5, <1>6, <2>1
  <1>7. CASE m # h \/ j # k
    <2>1. disk'[m][j] = disk[m][j]
      BY <1>1, <1>2, <1>3, <1>7, PutFacts
    <2> QED BY <1>5, <1>7, <2>1
  <1> QED BY <1>6, <1>7

LEMMA ApplyExecHistory ==
  ASSUME TypeOK, History, NEW n \in Node, ApplyExec(n)
  PROVE  History'
  <1> DEFINE c == Next1(n)  k == Target[c]  h == Home(n, k)
  <1>1. /\ c \in Call /\ k \in DB /\ CanApply(n) /\ ~Done(n, c)
        /\ applied' = [applied EXCEPT ![n] = @ + 1]
        /\ UNCHANGED <<log, res, via, phase, life, skipped>>
    BY NextEntry, NextIsFresh DEF ApplyExec, History, raftVars, callVars, faultVars
  <1>2. EntriesOnce' /\ Proposed' /\ LivesCounted' /\ FirstLifeInOrder' /\ Answers'
    BY <1>1, AppliedHistory
  <1>3. \A m \in Node, d \in Call : Done(m, d)' <=> Done(m, d) \/ (m = n /\ d = c)
    BY <1>1, DoneStep
  <1>4. \A m \in Node, d \in Call : Target[d] \in DB =>
          disk'[m][Target[d]].rows[d] = disk[m][Target[d]].rows[d]
                                        + IF m = h /\ d = c THEN 1 ELSE 0
    BY ExecWrites
  <1>5. k \in DB \ Remote => h = n
    BY DEF Home
  <1>6. \A m \in Node : m = h => m = n
    BY ScopeAssumption DEF Home
  <1>7. FirstLife(n) => c \notin skipped[n]
    BY <1>1 DEF History, FirstLifeInOrder
  <1>8. Target[c] = k
    OBVIOUS
  <1> HIDE DEF c, k, h
  <1>9. FirstLifeExact'
    <2> SUFFICES ASSUME NEW m \in Node, NEW d \in Call, FirstLife(m),
                        Target[d] \in DB \ Remote
                 PROVE  disk'[m][Target[d]].rows[d] =
                          IF d \notin skipped[m] /\ Done(m, d)' THEN 1 ELSE 0
      BY <1>1 DEF FirstLifeExact, FirstLife
    <2>1. disk[m][Target[d]].rows[d] =
            IF d \notin skipped[m] /\ Done(m, d) THEN 1 ELSE 0
      BY DEF History, FirstLifeExact
    <2>2. CASE m = n /\ d = c
      BY <1>1, <1>3, <1>4, <1>5, <1>7, <1>8, <2>1, <2>2
    <2>3. CASE ~(m = n /\ d = c)
      <3>1. (Done(m, d)' <=> Done(m, d)) /\ ~(m = h /\ d = c)
        BY <1>3, <1>6, <2>3
      <3> QED BY <1>4, <2>1, <3>1
    <2> QED BY <2>2, <2>3
  <1> QED BY <1>2, <1>9 DEF History

(* The callback ends when no call waits on its node, so its entry's proposer is
   not told of the success: it has given up, or waits no longer. *)
LEMMA CallbackIsSilent ==
  ASSUME TypeOK, NEW n \in Node, Callback(n)
  PROVE  UNCHANGED res
  BY DEF Callback, Respond, TypeOK

(* An entry that n skips, or that every node rejects, leaves its files alone. *)
LEMMA PassHistory ==
  ASSUME TypeOK, History, NEW n \in Node, CanApply(n), Respond(n, Next1(n), "failed"),
         UNCHANGED <<log, via, phase, life>>, \A m \in Node : disk'[m] = disk[m],
         applied' = [applied EXCEPT ![n] = @ + 1],
         \/ Target[Next1(n)] = NoDB /\ UNCHANGED skipped
         \/ skipped' = [skipped EXCEPT ![n] = @ \cup {Next1(n)}]
  PROVE  History'
  <1> DEFINE c == Next1(n)
  <1>1. EntriesOnce' /\ Proposed' /\ LivesCounted' /\ FirstLifeInOrder' /\ Answers'
    BY AppliedHistory
  <1>2. ~Done(n, c)
    BY NextIsFresh DEF History
  <1>3. \A m \in Node, d \in Call : Done(m, d)' <=> Done(m, d) \/ (m = n /\ d = c)
    BY DoneStep
  <1>4. \A m \in Node, d \in Call : ~(m = n /\ d = c) =>
          (d \in skipped'[m] <=> d \in skipped[m])
    BY DEF TypeOK
  <1>5. Target[c] = NoDB \/ c \in skipped'[n]
    BY DEF TypeOK
  <1> HIDE DEF c
  <1>6. FirstLifeExact'
    <2> SUFFICES ASSUME NEW m \in Node, NEW d \in Call, FirstLife(m),
                        Target[d] \in DB \ Remote
                 PROVE  disk[m][Target[d]].rows[d] =
                          IF d \notin skipped'[m] /\ Done(m, d)' THEN 1 ELSE 0
      BY DEF FirstLifeExact, FirstLife
    <2>1. disk[m][Target[d]].rows[d] =
            IF d \notin skipped[m] /\ Done(m, d) THEN 1 ELSE 0
      BY DEF History, FirstLifeExact
    <2>2. CASE m = n /\ d = c
      BY <1>2, <1>5, <2>1, <2>2, ScopeAssumption
    <2>3. CASE ~(m = n /\ d = c)
      BY <1>3, <1>4, <2>1, <2>3
    <2> QED BY <2>2, <2>3
  <1> QED BY <1>1, <1>6 DEF History

LEMMA NextHistory ==
  TypeOK /\ IndexesOrdered /\ History /\ [Next]_vars => History'
  <1> SUFFICES ASSUME TypeOK, IndexesOrdered, History, [Next]_vars PROVE History'
    OBVIOUS
  <1> USE DEF raftVars, callVars, nodeVars, faultVars
  <1>lives. \A n \in Node : life[n] \in Nat /\ life[n] >= 1
                            /\ (Restoring(n) => life[n] > 1)
    BY DEF TypeOK, History, LivesCounted
  <1>1. ASSUME UNCHANGED <<log, res, via, phase, applied, life, disk, skipped>>
        PROVE  History'
    <2>1. LivesCounted'
      BY <1>1 DEF History, LivesCounted, Restoring
    <2> QED BY <1>1, <2>1, HistoryFrame DEF FirstLife
  <1>2. ASSUME NEW n \in Node, StepDown(n) PROVE History'
    <2>1. /\ UNCHANGED <<log, via, phase, applied, life, disk, skipped>>
          /\ \A c \in Call : res'[c] = res[c] \/ (res[c] = "waiting" /\ res'[c] = "lost")
      BY <1>2 DEF StepDown, Waits
    <2>2. LivesCounted'
      BY <2>1 DEF History, LivesCounted, Restoring
    <2> QED BY <2>1, <2>2, HistoryFrame DEF FirstLife
  <1>3. ASSUME NEW n \in Node, ApplyExecFails(n) PROVE History'
    BY <1>3, PassHistory, FailedExec DEF ApplyExecFails
  <1>4. ASSUME NEW n \in Node, ApplyRejects(n) PROVE History'
    BY <1>4, PassHistory DEF ApplyRejects
  <1>5. ASSUME NEW n \in Node, InstallSnapshot(n) \/ Start(n) PROVE History'
    <2>1. /\ UNCHANGED <<log, res, via, applied, disk, skipped>>
          /\ life'[n] = life[n] + 1
          /\ \A m \in Node : m # n => life'[m] = life[m] /\ phase'[m] = phase[m]
      BY <1>5 DEF InstallSnapshot, Start, TypeOK
    <2>2. LivesCounted'
      BY <1>lives, <2>1 DEF LivesCounted, Restoring
    <2>3. \A m \in Node : life'[m] = 1 => life[m] = 1 /\ phase'[m] = phase[m]
      BY <1>lives, <2>1
    <2> QED BY <2>1, <2>2, <2>3, HistoryFrame DEF FirstLife
  <1>6. ASSUME NEW n \in Node, Restoring(n), UNCHANGED <<log, res, via, life, skipped>>,
               \A m \in Node : m # n => /\ phase'[m] = phase[m] /\ applied'[m] = applied[m]
                                        /\ disk'[m] = disk[m]
        PROVE  History'
    <2>1. LivesCounted'
      BY <1>lives, <1>6 DEF LivesCounted, Restoring
    <2>2. \A m \in Node : life'[m] = 1 => m # n
      BY <1>lives, <1>6
    <2> QED BY <1>6, <2>1, <2>2, HistoryFrame DEF FirstLife
  <1>7. ASSUME NEW n \in Node, NEW k \in DB, NEW j \in DB, RestoreFile(n, k, j)
        PROVE  History'
    BY <1>6, <1>7 DEF RestoreFile, Put, TypeOK
  <1>8. ASSUME NEW n \in Node, NEW j \in DB, RestoreFails(n, j) PROVE History'
    BY <1>6, <1>8 DEF RestoreFails, Put, TypeOK
  <1>9. ASSUME NEW n \in Node, RestoreDone(n) PROVE History'
    BY <1>6, <1>9 DEF RestoreDone, TypeOK
  <1>10. ASSUME NEW n \in Node, Crash(n) PROVE History'
    <2>1. /\ UNCHANGED <<log, via, life, skipped>> /\ phase'[n] = "down"
          /\ \A m \in Node : m # n => phase'[m] = phase[m] /\ applied'[m] = applied[m]
          /\ \A c \in Call : res'[c] = res[c] \/ (res[c] = "waiting" /\ res'[c] = "lost")
      BY <1>10 DEF Crash, Waits, TypeOK
    <2>2. \A m \in Node : m # n => disk'[m] = disk[m]
      BY <1>10 DEF Crash, TypeOK
    <2>3. LivesCounted'
      BY <1>lives, <2>1 DEF LivesCounted, Restoring
    <2> QED BY <2>1, <2>2, <2>3, HistoryFrame DEF FirstLife
  <1>11. ASSUME NEW n \in Node,
                \/ Elect(n) \/ Snapshot(n) \/ PersistCopied(n) \/ PersistFails(n)
                \/ PersistDone(n) \/ \E k \in DB : PersistOpen(n, k)
         PROVE  History'
    BY <1>1, <1>11 DEF Elect, Snapshot, PersistCopied, PersistFails, PersistDone,
                       PersistOpen
  <1>12. CASE UNCHANGED vars
    BY <1>1, <1>12 DEF vars
  <1>13. ASSUME NEW n \in Node, Callback(n) PROVE History'
    <2>1. UNCHANGED <<log, res, via, phase, applied, life, disk, skipped>>
      BY <1>13, CallbackIsSilent DEF Callback
    <2> QED BY <1>1, <2>1
  <1> QED BY <1>2, <1>3, <1>4, <1>5, <1>7, <1>8, <1>9, <1>10, <1>11, <1>12, <1>13,
             ApplyLogHistory, CommitHistory, ApplyExecHistory
          DEF Next, Apply

THEOREM HistoryInductive == Spec => [](IInv /\ OnlyCommittedRuns /\ History)
  <1>1. Init => History
    BY InitHistory
  <1>2. IInv /\ History /\ [Next]_vars => History'
    BY NextHistory DEF IInv
  <1> QED BY <1>1, <1>2, Inductive, RunsAreCommitted, PTL DEF Spec

(* What a caller of ApplyLog has been told is true of the log and of the files:
   a refused statement ran nowhere, a failed one is committed and not in the
   file of the node that answered until that node starts again or is restored,
   and nobody is told of a success. *)
THEOREM AnswersAreTrue == Spec => []AnswerIsTrue
  <1>1. OnlyCommittedRuns /\ History => AnswerIsTrue
    BY AnswersFollow
  <1> QED BY <1>1, HistoryInductive, PTL

(* In its first life a node has executed each applied statement exactly once. *)
THEOREM FirstLivesExact == Spec => []FirstLifeExact
  <1>1. History => FirstLifeExact
    BY DEF History
  <1> QED BY <1>1, HistoryInductive, PTL

\* Of two nodes in their first life the one that has applied less has no effect
\* the other lacks, unless the other skipped it; two that have applied as much
\* hold the same, but for what they skipped.
AgreeAtFirst ==
  \A n, m \in Node, c \in Call :
    LET held(i) == disk[i][Target[c]].rows[c]
    IN  /\ FirstLife(n) /\ FirstLife(m) /\ applied[n] <= applied[m]
        /\ Target[c] \in DB \ Remote /\ c \notin skipped[m]
        => /\ held(n) <= held(m)
           /\ applied[n] = applied[m] /\ c \notin skipped[n] => held(n) = held(m)

\* Until one of them is restarted or restored, no two nodes disagree about a
\* statement, whatever is elected, snapshotted and fails on other nodes.
THEOREM FirstLivesAgree == Spec => []AgreeAtFirst
  <1>1. TypeOK /\ FirstLifeExact => AgreeAtFirst
    <2> SUFFICES ASSUME TypeOK, FirstLifeExact, NEW n \in Node, NEW m \in Node, NEW c \in Call,
                        FirstLife(n), FirstLife(m), applied[n] <= applied[m],
                        Target[c] \in DB \ Remote, c \notin skipped[m]
                 PROVE  LET held(i) == disk[i][Target[c]].rows[c]
                        IN  /\ held(n) <= held(m)
                            /\ applied[n] = applied[m] /\ c \notin skipped[n]
                                 => held(n) = held(m)
      BY DEF AgreeAtFirst
    <2> DEFINE held(i) == disk[i][Target[c]].rows[c]
    <2>1. applied[n] \in Nat /\ applied[m] \in Nat
      BY DEF TypeOK
    <2>2. Done(n, c) => Done(m, c)
      BY <2>1 DEF Done
    <2>3. applied[n] = applied[m] => (Done(n, c) <=> Done(m, c))
      BY DEF Done
    <2>4. held(m) = IF Done(m, c) THEN 1 ELSE 0
      BY DEF FirstLifeExact
    <2>5. held(n) = IF c \notin skipped[n] /\ Done(n, c) THEN 1 ELSE 0
      BY DEF FirstLifeExact
    <2> HIDE DEF held
    <2> QED BY <2>2, <2>3, <2>4, <2>5 DEF held
  <1> QED BY <1>1, FirstLivesExact, TypeCorrect, PTL

-----------------------------------------------------------------------------
(* Remote databases: the snapshots they stop *)

\* Persist still has a remote database before it, or is not running.
Blocked(p) == p = NoPersist \/ p.left \cap Remote # {}

LEMMA PutBlocked ==
  ASSUME TypeOK, NEW h, NEW k \in DB, NEW f, Put(h, k, f), NEW n \in Node,
         Blocked(persist[n])
  PROVE  Blocked(persist'[n])
  <1>1. CASE n = h /\ persist[n].reading = k
    <2>1. persist[n] # NoPersist
      BY <1>1, ScopeAssumption DEF NoPersist
    <2>2. persist'[n] = [persist[n] EXCEPT !.files[k] = Torn]
      BY <1>1 DEF Put
    <2>3. persist'[n].left = persist[n].left
      BY <2>2 DEF TypeOK
    <2> QED BY <2>1, <2>3 DEF Blocked
  <1>2. CASE ~(n = h /\ persist[n].reading = k)
    BY <1>2 DEF Put
  <1> QED BY <1>1, <1>2

LEMMA NextRemoteBlocks == TypeOK /\ RemoteBlocks /\ [Next]_vars => RemoteBlocks'
  <1> SUFFICES ASSUME TypeOK, RemoteBlocks, [Next]_vars, Remote # {}
               PROVE  \A n \in Node : /\ snap'[n] = NoSnap /\ ~Restoring(n)'
                                      /\ Blocked(persist'[n])
    BY DEF RemoteBlocks, Blocked
  <1> DEFINE Goal == \A n \in Node : /\ snap'[n] = NoSnap /\ ~Restoring(n)'
                                     /\ Blocked(persist'[n])
  <1> USE DEF raftVars, callVars, nodeVars, faultVars
  <1>1. \A n \in Node : snap[n] = NoSnap /\ ~Restoring(n) /\ Blocked(persist[n])
    BY DEF RemoteBlocks, Blocked
  <1>2. NoSnap.index = 0 /\ \A n \in Node : applied[n] \in Nat
    BY DEF NoSnap, TypeOK
  <1>3. persist \in [Node -> PersistType] /\ NoPersist \in PersistType
    BY RecordsTyped DEF TypeOK, PersistType
  <1>4. ASSUME NEW n \in Node, UNCHANGED snap, ~Restoring(n)', Blocked(persist'[n]),
               \A m \in Node : m # n => persist'[m] = persist[m] /\ phase'[m] = phase[m]
        PROVE  Goal
    BY <1>1, <1>4 DEF Restoring
  <1>5. ASSUME UNCHANGED <<snap, phase, persist>> PROVE Goal
    BY <1>1, <1>5 DEF Restoring
  <1>6. ASSUME NEW n \in Node, ApplyExec(n) PROVE Goal
    BY <1>1, <1>6, PutBlocked DEF ApplyExec, Restoring
  <1>7. ASSUME NEW n \in Node, Snapshot(n) PROVE Goal
    <2>1. persist'[n].left = DB
      BY <1>3, <1>7 DEF Snapshot, PersistType
    <2>2. Blocked(persist'[n])
      BY <2>1, ScopeAssumption DEF Blocked
    <2> QED BY <1>1, <1>3, <1>4, <1>7, <2>2 DEF Snapshot, Restoring
  <1>8. ASSUME NEW n \in Node, NEW k \in DB, PersistOpen(n, k) PROVE Goal
    <2>1. /\ persist' = [persist EXCEPT ![n] = Opened(persist[n], k, disk[n][k])]
          /\ k \in persist[n].left \ Remote /\ UNCHANGED <<snap, phase>>
      BY <1>8 DEF PersistOpen
    <2>2. disk[n][k] \in File
      BY DEF TypeOK
    <2>3. persist'[n].left = persist[n].left \ {k}
      BY <1>3, <2>1, <2>2, OpenedFacts
    <2>4. persist[n] # NoPersist
      BY <2>1 DEF NoPersist
    <2>5. Blocked(persist'[n])
      BY <1>1, <2>1, <2>3, <2>4 DEF Blocked
    <2> QED BY <1>1, <1>3, <1>4, <2>1, <2>5 DEF Restoring
  <1>9. ASSUME NEW n \in Node, PersistCopied(n) PROVE Goal
    <2>1. persist' = [persist EXCEPT ![n] = [persist[n] EXCEPT !.reading = None]]
      BY <1>9 DEF PersistCopied
    <2>2. persist'[n].left = persist[n].left /\ persist[n] # NoPersist
      BY <1>3, <1>9, <2>1 DEF PersistType, PersistCopied, NoPersist
    <2>3. Blocked(persist'[n])
      BY <1>1, <2>2 DEF Blocked
    <2> QED BY <1>1, <1>3, <1>4, <1>9, <2>1, <2>3 DEF PersistCopied, Restoring
  <1>10. ASSUME NEW n \in Node, PersistFails(n) \/ Crash(n) PROVE Goal
    <2>1. /\ persist' = [persist EXCEPT ![n] = NoPersist] /\ UNCHANGED snap
          /\ phase'[n] \in {phase[n], "down"}
          /\ \A m \in Node : m # n => phase'[m] = phase[m]
      BY <1>10 DEF PersistFails, Crash, TypeOK
    <2>2. Blocked(persist'[n]) /\ ~Restoring(n)'
      BY <1>1, <1>3, <2>1 DEF Blocked, Restoring
    <2> QED BY <1>3, <1>4, <2>1, <2>2
  \* A remote database is still to be copied: the snapshot is not complete.
  <1>11. ASSUME NEW n \in Node PROVE ~PersistDone(n)
    BY <1>1 DEF PersistDone, Blocked
  \* There is no snapshot to install, or to restore at the start.
  <1>12. ASSUME NEW n \in Node PROVE ~InstallSnapshot(n)
    BY <1>1, <1>2 DEF InstallSnapshot, TypeOK
  <1>13. ASSUME NEW n \in Node, NEW k \in DB, NEW j \in DB
         PROVE  ~RestoreFile(n, k, j) /\ ~RestoreFails(n, j)
    BY <1>1 DEF RestoreFile, RestoreFails
  <1>14. ASSUME NEW n \in Node, Start(n) PROVE Goal
    <2>1. UNCHANGED <<snap, persist>> /\ phase' = [phase EXCEPT ![n] = "run"]
      BY <1>1, <1>14 DEF Start
    <2> QED BY <1>1, <2>1 DEF Restoring, TypeOK
  <1>15. ASSUME NEW n \in Node,
                \/ Elect(n) \/ StepDown(n) \/ \E c \in Call : ApplyLog(n, c)
                \/ ApplyExecFails(n) \/ ApplyRejects(n) \/ Callback(n)
         PROVE  Goal
    BY <1>5, <1>15, FailedExec DEF Elect, StepDown, ApplyLog, ApplyExecFails,
                                   ApplyRejects, Callback
  <1>16. ASSUME NEW c \in Call, Commit(c) PROVE Goal
    BY <1>5, <1>16 DEF Commit
  <1>17. CASE UNCHANGED vars
    BY <1>5, <1>17 DEF vars
  <1>18. \A n \in Node : ~RestoreDone(n)
    BY <1>1 DEF RestoreDone
  <1> QED BY <1>6, <1>7, <1>8, <1>9, <1>10, <1>11, <1>12, <1>13, <1>14, <1>15, <1>16,
             <1>17, <1>18
          DEF Next, Apply

(* With a remote database no snapshot is ever completed in the cluster, and no
   node is ever restored from one. *)
THEOREM RemoteStops == Spec => []RemoteStopsSnapshots
  <1>1. Init => RemoteBlocks
    BY DEF Init, RemoteBlocks, Restoring
  <1>2. RemoteBlocks => RemoteStopsSnapshots
    BY DEF RemoteBlocks, RemoteStopsSnapshots
  <1> QED BY <1>1, <1>2, TypeCorrect, NextRemoteBlocks, PTL DEF Spec

-----------------------------------------------------------------------------
(* Remote databases: how often a statement runs on the primary *)

(* Apart from the FSM nothing writes a primary, or brings a node that stays in
   its first life forward in the log. *)
LEMMA OtherSteps ==
  ASSUME TypeOK, IndexesOrdered, LivesCounted, [Next]_vars, \A n \in Node : ~Apply(n)
  PROVE  /\ UNCHANGED skipped /\ disk'[Cloud] = disk[Cloud]
         /\ \A n \in Node : FirstLife(n)' =>
              /\ FirstLife(n) /\ applied'[n] = applied[n]
              /\ \A i \in 1..applied[n] : log'[i] = log[i]
  <1> DEFINE Goal ==
         /\ UNCHANGED skipped /\ disk'[Cloud] = disk[Cloud]
         /\ \A n \in Node : FirstLife(n)' =>
              /\ FirstLife(n) /\ applied'[n] = applied[n]
              /\ \A i \in 1..applied[n] : log'[i] = log[i]
  <1> USE DEF raftVars, nodeVars, faultVars
  <1>lives. \A n \in Node : life[n] \in Nat /\ life[n] >= 1
                            /\ (Restoring(n) => life[n] > 1)
    BY DEF TypeOK, LivesCounted
  <1>1. ASSUME UNCHANGED <<log, phase, applied, life, disk, skipped>> PROVE Goal
    BY <1>1 DEF FirstLife
  <1>2. ASSUME NEW n \in Node, Restoring(n), UNCHANGED <<log, life, skipped>>,
               disk'[Cloud] = disk[Cloud],
               \A m \in Node : m # n => phase'[m] = phase[m] /\ applied'[m] = applied[m]
        PROVE  Goal
    BY <1>lives, <1>2 DEF FirstLife
  <1>3. ASSUME NEW n \in Node,
               \/ Elect(n) \/ StepDown(n) \/ Callback(n)
               \/ \E c \in Call : ApplyLog(n, c)
               \/ Snapshot(n) \/ PersistCopied(n) \/ PersistFails(n) \/ PersistDone(n)
               \/ \E k \in DB : PersistOpen(n, k)
        PROVE  Goal
    BY <1>1, <1>3 DEF Elect, StepDown, Callback, ApplyLog, Snapshot, PersistCopied,
                      PersistFails, PersistDone, PersistOpen
  <1>4. ASSUME NEW c \in Call, Commit(c) PROVE Goal
    <2>1. \A i \in 1..Len(log) : log'[i] = log[i]
      BY <1>4 DEF Commit, TypeOK
    <2>2. \A n \in Node : 1..applied[n] \subseteq 1..Len(log)
      BY DEF TypeOK, IndexesOrdered
    <2> QED BY <1>4, <2>1, <2>2 DEF Commit, FirstLife
  <1>5. ASSUME NEW n \in Node, InstallSnapshot(n) \/ Start(n) PROVE Goal
    <2>1. /\ UNCHANGED <<log, applied, disk, skipped>> /\ life'[n] = life[n] + 1
          /\ \A m \in Node : m # n => life'[m] = life[m] /\ phase'[m] = phase[m]
      BY <1>5 DEF InstallSnapshot, Start, TypeOK
    <2>2. life'[n] # 1
      BY <1>lives, <2>1
    <2> QED BY <2>1, <2>2 DEF FirstLife
  <1>6. ASSUME NEW n \in Node, NEW k \in DB, NEW j \in DB, RestoreFile(n, k, j)
        PROVE  Goal
    BY <1>2, <1>6, ScopeAssumption DEF RestoreFile, Put, TypeOK
  <1>7. ASSUME NEW n \in Node, NEW j \in DB, RestoreFails(n, j) PROVE Goal
    BY <1>2, <1>7, ScopeAssumption DEF RestoreFails, Put, TypeOK
  <1>8. ASSUME NEW n \in Node, RestoreDone(n) PROVE Goal
    BY <1>2, <1>8 DEF RestoreDone, TypeOK
  <1>9. ASSUME NEW n \in Node, Crash(n) PROVE Goal
    <2>1. /\ UNCHANGED <<log, life, skipped>> /\ phase'[n] = "down"
          /\ \A m \in Node : m # n => phase'[m] = phase[m] /\ applied'[m] = applied[m]
      BY <1>9 DEF Crash, TypeOK
    <2>2. disk'[Cloud] = disk[Cloud]
      BY <1>9, ScopeAssumption DEF Crash, TypeOK
    <2> QED BY <2>1, <2>2 DEF FirstLife
  <1>10. CASE UNCHANGED vars
    BY <1>1, <1>10 DEF vars
  <1> QED BY <1>3, <1>4, <1>5, <1>6, <1>7, <1>8, <1>9, <1>10 DEF Next

\* The nodes that have applied c, and those of them that executed it.
Appliers(c) == {n \in Node : Done(n, c)}
Executors(c) == {n \in Node : c \notin skipped[n] /\ Done(n, c)}

LEMMA CountsFinite ==
  ASSUME NEW S, S \subseteq Node
  PROVE  /\ IsFiniteSet(S) /\ Cardinality(S) \in Nat
         /\ \A n \in Node \ S : Cardinality(S \cup {n}) = Cardinality(S) + 1
  <1>1. IsFiniteSet(S)
    BY FS_Subset, ScopeAssumption
  <1> QED BY <1>1, FS_CardinalityType, FS_AddElement

(* The counts of a statement when n, the only node that moves, applies c. *)
LEMMA AppliedCounts ==
  ASSUME TypeOK, History, PrimaryCounts, NEW n \in Node, CanApply(n),
         UNCHANGED <<log, phase, life>>,
         applied' = [applied EXCEPT ![n] = @ + 1],
         NEW d \in Call, Target[d] \in Remote, \A m \in Node : FirstLife(m)
  PROVE  LET primary == disk[Cloud][Target[d]].rows[d]
             c == Next1(n)
         IN /\ primary \in Nat
            /\ UNCHANGED skipped /\ d = c =>
                 /\ Cardinality(Executors(d)') <= primary + 1
                 /\ primary + 1 <= Cardinality(Appliers(d)')
            /\ c \in skipped'[n] /\ d = c
                 /\ (\A m \in Node : m # n => skipped'[m] = skipped[m]) =>
                 /\ Cardinality(Executors(d)') <= primary
                 /\ primary + 1 <= Cardinality(Appliers(d)')
            /\ d # c /\ (\A m \in Node : d \in skipped'[m] <=> d \in skipped[m]) =>
                 /\ Cardinality(Executors(d)') <= primary
                 /\ primary <= Cardinality(Appliers(d)')
  <1> DEFINE c == Next1(n)  primary == disk[Cloud][Target[d]].rows[d]
  <1>1. ~Done(n, c)
    BY NextIsFresh DEF History
  <1>2. \A m \in Node : Done(m, d)' <=> Done(m, d) \/ (m = n /\ d = c)
    BY DoneStep
  <1>3. FirstLife(n) => c \notin skipped[n]
    BY <1>1, NextEntry DEF History, FirstLifeInOrder
  <1>4. Cardinality(Executors(d)) <= primary /\ primary <= Cardinality(Appliers(d))
    BY DEF PrimaryCounts, Executors, Appliers
  <1>5. primary \in Nat
    BY ScopeAssumption DEF TypeOK, File
  <1> HIDE DEF c, primary
  <1>6. /\ Executors(d) \subseteq Node /\ Appliers(d) \subseteq Node
    BY DEF Executors, Appliers
  <1>7. /\ Cardinality(Executors(d)) \in Nat /\ Cardinality(Appliers(d)) \in Nat
        /\ \A S \in {Executors(d), Appliers(d)} : n \notin S =>
             Cardinality(S \cup {n}) = Cardinality(S) + 1
    BY <1>6, CountsFinite
  <1>8. d = c => n \notin Appliers(d) /\ n \notin Executors(d)
    BY <1>1 DEF Appliers, Executors
  <1>9. d = c => Appliers(d)' = Appliers(d) \cup {n}
    BY <1>2 DEF Appliers
  <1>10. UNCHANGED skipped /\ d = c => Executors(d)' = Executors(d) \cup {n}
    BY <1>2, <1>3 DEF Executors
  <1>11. c \in skipped'[n] /\ d = c
           /\ (\A m \in Node : m # n => skipped'[m] = skipped[m])
         => Executors(d)' = Executors(d)
    BY <1>2, <1>8 DEF Executors
  <1>12. d # c => Appliers(d)' = Appliers(d)
    BY <1>2 DEF Appliers
  <1>13. d # c /\ (\A m \in Node : d \in skipped'[m] <=> d \in skipped[m])
         => Executors(d)' = Executors(d)
    BY <1>2 DEF Executors
  <1>14. d = c => /\ Cardinality(Appliers(d)') = Cardinality(Appliers(d)) + 1
    BY <1>7, <1>8, <1>9
  <1>15. UNCHANGED skipped /\ d = c =>
           Cardinality(Executors(d)') = Cardinality(Executors(d)) + 1
    BY <1>7, <1>8, <1>10
  <1> QED BY <1>4, <1>5, <1>7, <1>11, <1>12, <1>13, <1>14, <1>15 DEF c, primary

LEMMA ApplyExecCounts ==
  ASSUME TypeOK, History, PrimaryCounts, NEW n \in Node, ApplyExec(n)
  PROVE  PrimaryCounts'
  <1> DEFINE c == Next1(n)  h == Home(n, Target[c])
  <1>1. /\ CanApply(n) /\ applied' = [applied EXCEPT ![n] = @ + 1]
        /\ UNCHANGED <<log, phase, life, skipped>>
    BY DEF ApplyExec, raftVars, faultVars
  <1> SUFFICES ASSUME NEW d \in Call, Target[d] \in Remote, \A m \in Node : FirstLife(m)
               PROVE  /\ Cardinality(Executors(d)') <= disk'[Cloud][Target[d]].rows[d]
                      /\ disk'[Cloud][Target[d]].rows[d] <= Cardinality(Appliers(d)')
    BY <1>1 DEF PrimaryCounts, FirstLife, Executors, Appliers
  <1>2. /\ disk'[Cloud][Target[d]].rows[d] = disk[Cloud][Target[d]].rows[d]
                                            + IF Cloud = h /\ d = c THEN 1 ELSE 0
        /\ disk[Cloud][Target[d]].rows[d] \in Nat
    BY ExecWrites, ScopeAssumption
  <1>3. d = c => h = Cloud
    BY DEF Home
  <1>4. CASE d = c
    <2>1. /\ Cardinality(Executors(d)') <= disk[Cloud][Target[d]].rows[d] + 1
          /\ disk[Cloud][Target[d]].rows[d] + 1 <= Cardinality(Appliers(d)')
      BY <1>1, <1>4, AppliedCounts
    <2> QED BY <1>2, <1>3, <1>4, <2>1
  <1>5. CASE d # c
    <2>1. /\ Cardinality(Executors(d)') <= disk[Cloud][Target[d]].rows[d]
          /\ disk[Cloud][Target[d]].rows[d] <= Cardinality(Appliers(d)')
      BY <1>1, <1>5, AppliedCounts
    <2> HIDE DEF c, h
    <2> QED BY <1>2, <1>5, <2>1
  <1> QED BY <1>4, <1>5

LEMMA PassCounts ==
  ASSUME TypeOK, History, PrimaryCounts, NEW n \in Node,
         ApplyExecFails(n) \/ ApplyRejects(n)
  PROVE  PrimaryCounts'
  <1> DEFINE c == Next1(n)  k == Target[c]
  <1>1. /\ CanApply(n) /\ applied' = [applied EXCEPT ![n] = @ + 1] /\ c \in Call
        /\ UNCHANGED <<log, phase, life>>
    BY NextEntry DEF ApplyExecFails, ApplyRejects, raftVars, faultVars
  <1>2. \/ k = NoDB /\ UNCHANGED <<disk, skipped>>
        \/ /\ skipped' = [skipped EXCEPT ![n] = @ \cup {c}]
           /\ UNCHANGED disk \/ (k \in Remote /\ Put(Cloud, k, Executed(disk[Cloud][k], c)))
    BY DEF ApplyExecFails, ApplyRejects, faultVars
  <1>3. \A m \in Node, d \in Call : ~(m = n /\ d = c) =>
          (d \in skipped'[m] <=> d \in skipped[m])
    BY <1>2 DEF TypeOK
  <1>4. k = NoDB \/ (c \in skipped'[n] /\ \A m \in Node : m # n => skipped'[m] = skipped[m])
    BY <1>2 DEF TypeOK
  <1> SUFFICES ASSUME NEW d \in Call, Target[d] \in Remote, \A m \in Node : FirstLife(m)
               PROVE  /\ Cardinality(Executors(d)') <= disk'[Cloud][Target[d]].rows[d]
                      /\ disk'[Cloud][Target[d]].rows[d] <= Cardinality(Appliers(d)')
    BY <1>1 DEF PrimaryCounts, FirstLife, Executors, Appliers
  <1> DEFINE primary == disk[Cloud][Target[d]].rows[d]
  <1>5. Target[d] \in DB /\ Target[d] # NoDB
    BY ScopeAssumption
  <1>6. /\ primary \in Nat
        /\ disk'[Cloud][Target[d]].rows[d] = primary
             \/ (d = c /\ disk'[Cloud][Target[d]].rows[d] = primary + 1)
    <2>1. CASE UNCHANGED disk
      BY <1>5, <2>1 DEF TypeOK, File
    <2>2. CASE k \in Remote /\ Put(Cloud, k, Executed(disk[Cloud][k], c))
      <3> DEFINE f == Executed(disk[Cloud][k], c)
      <3>1. k \in DB /\ disk[Cloud][k] \in File /\ disk[Cloud][Target[d]] \in File
        BY <1>5, <2>2, ScopeAssumption DEF TypeOK
      <3>2. /\ f \in File /\ f.rows[c] = disk[Cloud][k].rows[c] + 1
            /\ \A e \in Call : e # c => f.rows[e] = disk[Cloud][k].rows[e]
        BY <1>1, <3>1, ExecutedFacts
      <3>3. Put(Cloud, k, f)
        BY <2>2
      <3>4. primary \in Nat
        BY <3>1 DEF File
      <3>5. d = c => k = Target[d]
        OBVIOUS
      <3> HIDE DEF f, k, c
      <3>6. CASE Target[d] = k
        <4>1. disk'[Cloud][Target[d]] = f
          BY <3>1, <3>2, <3>3, <3>6, PutFacts
        <4> QED BY <3>2, <3>4, <3>6, <4>1
      <3>7. CASE Target[d] # k
        BY <1>5, <3>1, <3>2, <3>3, <3>4, <3>7, PutFacts
      <3> QED BY <3>6, <3>7
    <2> QED BY <1>2, <2>1, <2>2
  <1>7. d = c => /\ c \in skipped'[n]
                 /\ \A m \in Node : m # n => skipped'[m] = skipped[m]
    BY <1>4, <1>5
  <1>8. d # c => \A m \in Node : d \in skipped'[m] <=> d \in skipped[m]
    BY <1>3
  <1>9. CASE d = c
    <2>1. /\ Cardinality(Executors(d)') <= primary
          /\ primary + 1 <= Cardinality(Appliers(d)')
      BY <1>1, <1>7, <1>9, AppliedCounts
    <2>2. Cardinality(Executors(d)') \in Nat /\ Cardinality(Appliers(d)') \in Nat
      <3>1. Executors(d)' \subseteq Node /\ Appliers(d)' \subseteq Node
        BY DEF Executors, Appliers
      <3> QED BY <3>1, CountsFinite
    <2> HIDE DEF primary
    <2> QED BY <1>6, <2>1, <2>2
  <1>10. CASE d # c
    BY <1>1, <1>6, <1>8, <1>10, AppliedCounts
  <1> QED BY <1>9, <1>10

LEMMA NextCounts ==
  TypeOK /\ IndexesOrdered /\ History /\ PrimaryCounts /\ [Next]_vars => PrimaryCounts'
  <1> SUFFICES ASSUME TypeOK, IndexesOrdered, History, PrimaryCounts, [Next]_vars
               PROVE  PrimaryCounts'
    OBVIOUS
  <1>1. CASE \E n \in Node : Apply(n)
    BY <1>1, ApplyExecCounts, PassCounts DEF Apply
  <1>2. CASE \A n \in Node : ~Apply(n)
    <2>1. /\ UNCHANGED skipped /\ disk'[Cloud] = disk[Cloud]
          /\ \A n \in Node : FirstLife(n)' =>
               /\ FirstLife(n) /\ applied'[n] = applied[n]
               /\ \A i \in 1..applied[n] : log'[i] = log[i]
      BY <1>2, OtherSteps DEF History
    <2>2. \A n \in Node, c \in Call : FirstLife(n)' => (Done(n, c)' <=> Done(n, c))
      BY <2>1 DEF Done
    <2>3. ASSUME NEW c \in Call, \A n \in Node : FirstLife(n)'
          PROVE  Executors(c)' = Executors(c) /\ Appliers(c)' = Appliers(c)
      BY <2>1, <2>2, <2>3 DEF Executors, Appliers
    <2> QED BY <2>1, <2>3 DEF PrimaryCounts, Executors, Appliers
  <1> QED BY <1>1, <1>2

(* While no node has been restarted or restored, a statement for a remote
   database has run on its primary at least once for each node that executed it,
   and at most once for each node that has applied it, even if answers of the
   primary were lost. *)
THEOREM PrimaryRunsOncePerNode == Spec => []PrimaryCounts
  <1>1. Init => PrimaryCounts
    <2> SUFFICES ASSUME Init, NEW c \in Call, Target[c] \in Remote
                 PROVE  /\ Cardinality(Executors(c)) <= disk[Cloud][Target[c]].rows[c]
                        /\ disk[Cloud][Target[c]].rows[c] <= Cardinality(Appliers(c))
      BY DEF PrimaryCounts, Executors, Appliers
    <2>1. Target[c] \in DB
      BY ScopeAssumption
    <2>2. disk[Cloud][Target[c]].rows[c] = 0
      BY <2>1 DEF Init, Blank
    <2>3. Executors(c) = {} /\ Appliers(c) = {}
      BY DEF Init, Executors, Appliers, Done
    <2> QED BY <2>2, <2>3, FS_EmptySet
  <1>2. TypeOK /\ IndexesOrdered /\ History /\ PrimaryCounts /\ [Next]_vars
          => PrimaryCounts'
    BY NextCounts
  <1>3. IInv => TypeOK /\ IndexesOrdered
    BY DEF IInv
  <1> QED BY <1>1, <1>2, <1>3, HistoryInductive, PTL DEF Spec

-----------------------------------------------------------------------------
(* MultiFSM implements ReplicatedStore: the abstract state *)

LEMMA AgreedIsCommitted ==
  ASSUME NEW c
  PROVE  c \in Store!Agreed <=> Committed(c)
  BY DEF Store!Agreed, Store!ToSet, Committed

(* What is due at position i is the own statements among the first i entries. *)
LEMMA DueEntries ==
  ASSUME TypeOK, NEW i \in 0..Len(log), NEW c \in Store!Due(i)
  PROVE  /\ c \in Own /\ \A n \in Node : c \notin skipped[n]
         /\ \E p \in 1..i : log[p] = c
  <1>1. /\ c \in Store!ToSet(SubSeq(log, 1, i)) /\ c \in Own
        /\ c \notin Failed
    BY DEF Store!Due
  <1>2. Len(SubSeq(log, 1, i)) = i /\ \A p \in 1..i : SubSeq(log, 1, i)[p] = log[p]
    BY DEF TypeOK
  <1> QED BY <1>1, <1>2 DEF Store!ToSet, Failed, TypeOK

LEMMA OwnFiles ==
  ASSUME NEW c \in Own
  PROVE  c \in Call /\ Target[c] \in Tracked /\ Target[c] \in DB \ Remote
  BY DEF Own, Tracked

(* What a node holds is in its own files only. *)
LEMMA HoldsFrame ==
  ASSUME NEW n \in Node, \A k \in Tracked : disk'[n][k] = disk[n][k]
  PROVE  Holds(n)' = Holds(n) /\ Intact(n)' = Intact(n)
  <1>1. Intact(n)' = Intact(n)
    BY DEF Intact
  <1>2. \A c \in Own : disk'[n][Target[c]] = disk[n][Target[c]]
    BY OwnFiles
  <1> QED BY <1>1, <1>2 DEF Holds, Own

(* The data of the replicas other than n stay: those of n are all that changes. *)
LEMMA DataOfOne ==
  ASSUME NEW n \in Node,
         \A m \in Node : m # n => Holds(m)' = Holds(m) /\ Intact(m)' = Intact(m)
  PROVE  /\ Data' = [Data EXCEPT ![n] = Holds(n)']
         /\ Sound' = [Sound EXCEPT ![n] = Intact(n)']
  BY DEF Data, Sound

-----------------------------------------------------------------------------
(* The steps *)

LEMMA Stutters ==
  ASSUME UNCHANGED <<log, res, applied, skipped>>,
         \A n \in Node : Holds(n)' = Holds(n) /\ Intact(n)' = Intact(n)
  PROVE  UNCHANGED Store!storeVars
  BY DEF Store!storeVars, Data, Sound, Failed

(* A node whose own files come to hold what position i asks for, and nothing
   that is not agreed on, or become unreadable. *)
LEMMA Transfers ==
  ASSUME TypeOK, NEW n \in Node, NEW i \in applied[n]..Len(log),
         applied' = [applied EXCEPT ![n] = i],
         UNCHANGED <<log, res, skipped>>,
         \A m \in Node : m # n => disk'[m] = disk[m],
         NoLostWrite', OnlyCommittedRuns'
  PROVE  Store!Transfer(n)
  <1>1. \A m \in Node : m # n => Holds(m)' = Holds(m) /\ Intact(m)' = Intact(m)
    BY HoldsFrame
  <1>2. i \in 0..Len(log) /\ applied'[n] = i
    BY DEF TypeOK
  <1>failed. UNCHANGED Failed
    BY DEF Failed
  <1>3. CASE Intact(n)'
    <2>1. Store!Due(i) \subseteq Holds(n)'
      <3> SUFFICES ASSUME NEW c \in Store!Due(i) PROVE c \in Holds(n)'
        OBVIOUS
      <3>1. PICK p \in 1..i : log[p] = c
        BY <1>2, DueEntries
      <3>2. c \in Own /\ \A m \in Node : c \notin skipped[m]
        BY <1>2, DueEntries
      <3>3. CoversBy(log, skipped, disk'[n][Target[c]], Target[c], i)
        BY <1>2, <3>2, OwnFiles DEF NoLostWrite, Covers
      <3>4. ~disk'[n][Target[c]].torn
        BY <1>3, <3>2, OwnFiles DEF Intact
      <3>5. disk'[n][Target[c]].rows[c] >= 1
        BY <3>1, <3>2, <3>3, <3>4 DEF CoversBy
      <3> QED BY <1>3, <3>2, <3>5 DEF Holds, Own
    <2>2. Holds(n)' \in SUBSET Store!Agreed
      <3> SUFFICES ASSUME NEW c \in Holds(n)' PROVE c \in Store!Agreed
        OBVIOUS
      <3>1. c \in Own /\ disk'[n][Target[c]].rows[c] >= 1
        BY DEF Holds, Own
      <3>2. Committed(c)'
        BY <3>1, OwnFiles DEF OnlyCommittedRuns, NeverRan
      <3> QED BY <3>2, AgreedIsCommitted DEF Committed
    <2>3. Data' = [Data EXCEPT ![n] = Holds(n)'] /\ Sound' = [Sound EXCEPT ![n] = TRUE]
      BY <1>1, <1>3, DataOfOne
    <2> QED BY <1>failed, <2>1, <2>2, <2>3 DEF Store!Transfer
  <1>4. CASE ~Intact(n)'
    <2>1. Holds(n)' = {}
      BY <1>4 DEF Holds
    <2>2. Store!Spoil(n)
      BY <1>1, <1>4, <2>1, DataOfOne DEF Store!Spoil
    <2> QED BY <1>failed, <2>2 DEF Store!Transfer
  <1> QED BY <1>3, <1>4

(* The FSM of n executes the next entry on whatever file that is for. *)
LEMMA ApplyExecAdvances ==
  ASSUME TypeOK, NEW n \in Node, ApplyExec(n)
  PROVE  Store!Advance(n)
  <1> DEFINE c == Next1(n)  k == Target[c]  h == Home(n, k)
  <1>1. /\ c \in Call /\ k \in DB
        /\ applied[n] < Len(log) /\ applied' = [applied EXCEPT ![n] = @ + 1]
        /\ UNCHANGED <<log, res, skipped>>
    BY NextEntry DEF ApplyExec, CanApply, raftVars, callVars, faultVars
  <1>2. \A m \in Node, j \in DB, d \in Call :
          /\ disk'[m][j].rows[d] = disk[m][j].rows[d]
                                   + IF m = h /\ j = k /\ d = c THEN 1 ELSE 0
          /\ disk[m][j].rows[d] \in Nat
          /\ disk'[m][j].torn = disk[m][j].torn
    BY ExecWrites
  <1>3. /\ k \in DB \ Remote => h = n
        /\ \A m \in Node : m = h => m = n
    BY ScopeAssumption DEF Home
  <1>4. c = log[applied[n] + 1]
    BY DEF Next1
  <1>5. Target[c] = k
    OBVIOUS
  <1> HIDE DEF c, k, h
  <1>6. \A m \in Node : Intact(m)' = Intact(m)
    BY <1>1, <1>2 DEF Intact, Tracked
  <1>7. \A m \in Node : m # n => Holds(m)' = Holds(m)
    <2> SUFFICES ASSUME NEW m \in Node, m # n, NEW d \in Own
                 PROVE  disk'[m][Target[d]].rows[d] >= 1 <=> disk[m][Target[d]].rows[d] >= 1
      BY <1>6 DEF Holds, Own
    <2> QED BY <1>2, <1>3, OwnFiles
  <1>8. Holds(n)' = IF Intact(n) THEN Holds(n) \cup ({c} \cap Own) ELSE Holds(n)
    <2>1. ASSUME NEW d \in Own
          PROVE  disk'[n][Target[d]].rows[d] >= 1
                   <=> disk[n][Target[d]].rows[d] >= 1 \/ d = c
      <3>1. d \in Call /\ Target[d] \in DB \ Remote
        BY OwnFiles
      <3>2. d = c => Target[d] = k /\ h = n
        BY <1>3, <1>5, <3>1
      <3> QED BY <1>2, <3>1, <3>2
    <2>2. CASE Intact(n)
      BY <1>6, <2>1, <2>2 DEF Holds, Own
    <2>3. CASE ~Intact(n)
      BY <1>6, <2>3 DEF Holds
    <2> QED BY <2>2, <2>3
  <1>9. Data' = [Data EXCEPT ![n] = IF Sound[n] THEN @ \cup ({c} \cap Own) ELSE @]
    BY <1>6, <1>7, <1>8, DataOfOne DEF Data, Sound
  <1>10. UNCHANGED <<Sound, Failed>>
    BY <1>1, <1>6 DEF Sound, Failed
  <1>11. c \in {d \in Call : Target[d] \in DB}
    BY <1>1, <1>5
  <1> QED BY <1>1, <1>4, <1>9, <1>10, <1>11 DEF Store!Advance

(* The next entry is rejected everywhere, or skipped by n. *)
LEMMA PassAdvances ==
  ASSUME TypeOK, NEW n \in Node, ApplyExecFails(n) \/ ApplyRejects(n)
  PROVE  Store!Advance(n)
  <1> DEFINE c == Next1(n)  Runnable == {d \in Call : Target[d] \in DB}
  <1>1. /\ c \in Call /\ Respond(n, c, "failed") /\ applied[n] < Len(log)
        /\ applied' = [applied EXCEPT ![n] = @ + 1] /\ UNCHANGED log
    BY NextEntry DEF ApplyExecFails, ApplyRejects, CanApply, raftVars, faultVars
  <1>2. c = log[applied[n] + 1]
    BY DEF Next1
  <1>3. \/ c \in Runnable /\ skipped' = [skipped EXCEPT ![n] = @ \cup {c}]
        \/ c \notin Runnable /\ UNCHANGED skipped
    BY <1>1, ScopeAssumption DEF ApplyExecFails, ApplyRejects, faultVars
  <1>files. \A m \in Node : disk'[m] = disk[m]
    BY FailedExec DEF ApplyRejects
  <1> HIDE DEF c
  <1>4. Failed' = Failed \cup ({c} \cap Runnable)
    <2>1. CASE c \in Runnable /\ skipped' = [skipped EXCEPT ![n] = @ \cup {c}]
      <3>1. skipped'[n] = skipped[n] \cup {c}
            /\ \A m \in Node : m # n => skipped'[m] = skipped[m]
        BY <2>1 DEF TypeOK
      <3> QED BY <2>1, <3>1 DEF Failed
    <2>2. CASE c \notin Runnable /\ UNCHANGED skipped
      BY <2>2 DEF Failed
    <2> QED BY <1>3, <2>1, <2>2
  <1>5. UNCHANGED <<Data, Sound>>
    BY <1>files, HoldsFrame DEF Data, Sound
  <1>6. IF res[c] = "waiting" THEN res' \in {res, [res EXCEPT ![c] = "failed"]}
                              ELSE UNCHANGED res
    BY <1>1 DEF Respond, Waits
  <1> QED BY <1>1, <1>2, <1>4, <1>5, <1>6 DEF Store!Advance

LEMMA CommitAgrees ==
  ASSUME TypeOK, NEW c \in Call, Commit(c)
  PROVE  Store!Agree(c)
  <1>1. c \notin Store!Agreed
    BY AgreedIsCommitted DEF Commit
  <1>2. UNCHANGED <<Data, Sound, Failed>>
    BY HoldsFrame DEF Commit, faultVars, Data, Sound, Failed
  <1> QED BY <1>1, <1>2 DEF Commit, callVars, nodeVars, Store!Agree

LEMMA ApplyLogSubmits ==
  ASSUME TypeOK, NEW n \in Node, NEW c \in Call, ApplyLog(n, c)
  PROVE  Store!Submit(c)
  <1>1. UNCHANGED <<Data, Sound, Failed>>
    BY HoldsFrame DEF ApplyLog, faultVars, Data, Sound, Failed
  <1>2. \E a \in {"waiting", "refused"} : res' = [res EXCEPT ![c] = a]
    BY DEF ApplyLog
  <1> QED BY <1>1, <1>2 DEF ApplyLog, raftVars, nodeVars, Store!Submit

(* Those who wait on a node that steps down or stops may have lost their entry. *)
LEMMA StepDownDisturbs ==
  ASSUME TypeOK, NEW n \in Node, StepDown(n)
  PROVE  Store!Disturb
  <1> DEFINE S == {c \in Call : res[c] = "waiting" /\ via[c] = n /\ ~Committed(c)}
  <1>1. /\ S \in SUBSET {c \in Call : res[c] = "waiting"}
        /\ res' = [c \in Call |-> IF c \in S THEN "lost" ELSE res[c]]
    BY DEF StepDown, Waits
  <1>2. UNCHANGED <<Data, Sound, Failed>>
    BY HoldsFrame DEF StepDown, faultVars, Data, Sound, Failed
  <1> HIDE DEF S
  <1> QED BY <1>1, <1>2 DEF StepDown, nodeVars, Store!Disturb

LEMMA CrashDisturbs ==
  ASSUME TypeOK, NEW n \in Node, Crash(n)
  PROVE  Store!Disturb
  <1> DEFINE S == {c \in Call : res[c] = "waiting" /\ via[c] = n}
  <1>1. /\ S \in SUBSET {c \in Call : res[c] = "waiting"}
        /\ res' = [c \in Call |-> IF c \in S THEN "lost" ELSE res[c]]
    BY DEF Crash, Waits
  <1> HIDE DEF S
  <1>2. UNCHANGED <<log, skipped, Failed>> /\ applied' = [applied EXCEPT ![n] = 0]
    BY DEF Crash, faultVars, Failed
  <1>3. UNCHANGED <<Data, Sound>> \/ Store!Spoil(n)
    <2>1. CASE UNCHANGED disk
      BY <2>1, HoldsFrame DEF Data, Sound
    <2>2. ASSUME NEW j \in DB, disk' = [disk EXCEPT ![n][j] = Torn]
          PROVE  UNCHANGED <<Data, Sound>> \/ Store!Spoil(n)
      <3>1. /\ \A m \in Node, k \in DB : m # n \/ k # j => disk'[m][k] = disk[m][k]
            /\ disk'[n][j] = Torn
        BY <2>2 DEF TypeOK
      <3>2. CASE j \in Tracked
        <4>1. ~Intact(n)'
          BY <3>1, <3>2 DEF Intact, Torn
        <4>2. Holds(n)' = {}
          BY <4>1 DEF Holds
        <4>3. \A m \in Node : m # n => Holds(m)' = Holds(m) /\ Intact(m)' = Intact(m)
          BY <3>1, HoldsFrame DEF Tracked
        <4> QED BY <4>1, <4>2, <4>3, DataOfOne DEF Store!Spoil
      <3>3. CASE j \notin Tracked
        <4>1. \A m \in Node, k \in Tracked : disk'[m][k] = disk[m][k]
          BY <3>1, <3>3 DEF Tracked
        <4> QED BY <4>1, HoldsFrame DEF Data, Sound
      <3> QED BY <3>2, <3>3
    <2> QED BY <2>1, <2>2 DEF Crash
  <1> QED BY <1>1, <1>2, <1>3 DEF Store!Disturb

-----------------------------------------------------------------------------
(* The refinement *)

LEMMA InitRefines == Init => Store!Init
  <1> SUFFICES ASSUME Init PROVE Store!Init
    OBVIOUS
  <1>1. Data = [n \in Node |-> {}] /\ Sound = [n \in Node |-> TRUE]
    <2>1. \A n \in Node, k \in DB : ~disk[n][k].torn
                                   /\ \A c \in Call : disk[n][k].rows[c] = 0
      BY DEF Init, Blank
    <2>2. ASSUME NEW n \in Node PROVE Intact(n) = TRUE /\ Holds(n) = {}
      BY <2>1, OwnFiles DEF Intact, Holds, Tracked
    <2> QED BY <2>2 DEF Data, Sound
  <1>2. Failed = {}
    BY DEF Init, Failed
  <1> QED BY <1>1, <1>2 DEF Init, Store!Init

LEMMA NextRefines ==
  IInv /\ IInv' /\ OnlyCommittedRuns' /\ [Next]_vars => [Store!Next]_(Store!storeVars)
  <1> SUFFICES ASSUME TypeOK, IndexesOrdered, NoLostWrite', OnlyCommittedRuns', [Next]_vars
               PROVE  Store!Next \/ UNCHANGED Store!storeVars
    BY DEF IInv
  <1>1. ASSUME NEW n \in Node, ApplyExec(n) \/ ApplyExecFails(n) \/ ApplyRejects(n)
        PROVE  Store!Next
    BY <1>1, ApplyExecAdvances, PassAdvances DEF Store!Next
  <1>2. ASSUME NEW c \in Call, Commit(c) PROVE Store!Next
    BY <1>2, CommitAgrees DEF Store!Next
  <1>3. ASSUME NEW n \in Node, NEW c \in Call, ApplyLog(n, c) PROVE Store!Next
    BY <1>3, ApplyLogSubmits DEF Store!Next
  <1>4. ASSUME NEW n \in Node, StepDown(n) \/ Crash(n) PROVE Store!Next
    BY <1>4, StepDownDisturbs, CrashDisturbs DEF Store!Next
  <1>5. ASSUME NEW n \in Node, UNCHANGED <<log, res, skipped, applied>>,
               \A m \in Node : m # n => disk'[m] = disk[m]
        PROVE  Store!Next
    <2>1. applied[n] \in applied[n]..Len(log) /\ applied' = [applied EXCEPT ![n] = applied[n]]
      BY <1>5 DEF TypeOK, IndexesOrdered
    <2> QED BY <1>5, <2>1, Transfers DEF Store!Next
  <1>6. ASSUME NEW n \in Node, NEW k \in DB, NEW j \in DB, RestoreFile(n, k, j)
        PROVE  Store!Next
    BY <1>5, <1>6 DEF RestoreFile, Put, TypeOK, raftVars, callVars, faultVars
  <1>7. ASSUME NEW n \in Node, NEW j \in DB, RestoreFails(n, j) PROVE Store!Next
    BY <1>5, <1>7 DEF RestoreFails, Put, TypeOK, raftVars, callVars
  <1>8. ASSUME NEW n \in Node, RestoreDone(n) PROVE Store!Next
    <2>1. snap[n].index \in applied[n]..Len(log)
      BY <1>8 DEF RestoreDone, TypeOK, IndexesOrdered
    <2> QED BY <1>8, <2>1, Transfers DEF RestoreDone, raftVars, callVars, faultVars,
                                         Store!Next
  <1>9. ASSUME UNCHANGED <<log, res, applied, skipped, disk>>
        PROVE  UNCHANGED Store!storeVars
    BY <1>9, HoldsFrame, Stutters
  <1>10. ASSUME NEW n \in Node,
                \/ Elect(n) \/ Snapshot(n) \/ PersistCopied(n) \/ PersistFails(n)
                \/ PersistDone(n) \/ InstallSnapshot(n) \/ Start(n)
                \/ \E k \in DB : PersistOpen(n, k)
         PROVE  UNCHANGED Store!storeVars
    BY <1>9, <1>10 DEF Elect, Snapshot, PersistCopied, PersistFails, PersistDone,
                       InstallSnapshot, Start, PersistOpen, raftVars, callVars,
                       nodeVars, faultVars
  <1>11. CASE UNCHANGED vars
    BY <1>9, <1>11 DEF vars
  <1>12. ASSUME NEW n \in Node, Callback(n) PROVE UNCHANGED Store!storeVars
    BY <1>9, <1>12, CallbackIsSilent DEF Callback, raftVars, faultVars
  <1> QED BY <1>1, <1>2, <1>3, <1>4, <1>6, <1>7, <1>8, <1>10, <1>11, <1>12 DEF Next, Apply

(* What callers of ApplyLog and readers of the replicas can observe of MultiFSM
   is a run of the abstract store. *)
THEOREM Refinement == Spec => ImplementsStore
  <1>1. Init => Store!Init
    BY InitRefines
  <1>2. IInv /\ IInv' /\ OnlyCommittedRuns' /\ [Next]_vars
          => [Store!Next]_(Store!storeVars)
    BY NextRefines
  <1> QED BY <1>1, <1>2, Inductive, RunsAreCommitted, PTL
          DEF Spec, ImplementsStore, Store!Spec
=============================================================================
