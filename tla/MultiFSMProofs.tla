--------------------------- MODULE MultiFSMProofs ---------------------------
(* Theorems about MultiFSM, for any cluster, databases, calls and bounds. *)
EXTENDS MultiFSM, TLAPS

-----------------------------------------------------------------------------
(* The inductive invariant of NoLostWrite *)

\* What makes the properties inductive: no index runs ahead of the log, the persisted
\* index never ahead of the applied one, and a node that restores is behind
\* the snapshot it restores ...
IndexesOrdered ==
  \A n \in Node :
    /\ applied[n] <= Len(log) /\ snap[n].index <= Len(log)
    /\ persist[n].index <= applied[n]
    /\ Restoring(n) => applied[n] <= snap[n].index
    /\ phase[n] \in {"down", "boot"} => applied[n] = 0

\* ... the files Persist has copied or is copying already cover its index ...
CopiesCover ==
  \A n \in Node, k \in Tracked :
    k \notin persist[n].left => Covers(persist[n].files[k], k, persist[n].index)

\* ... and so do the files Restore has already written.
RestoredCover ==
  \A n \in Node, k \in Tracked :
    Restoring(n) /\ k \notin todo[n] => Covers(disk[n][k], k, snap[n].index)

IInv ==
  /\ TypeOK /\ IndexesOrdered
  /\ NoLostWrite /\ SnapshotCovers /\ CopiesCover /\ RestoredCover

-----------------------------------------------------------------------------
(* Files and what writing one does *)

LEMMA FilesTyped == Blank \in File /\ Torn \in File
  BY DEF Blank, Torn, File

LEMMA RecordsTyped ==
  /\ NoPersist \in [index : Nat, left : SUBSET DB,
                    reading : DB \cup {None}, files : [DB -> File]]
  /\ NoSnap \in [index : Nat, files : [DB -> File]]
  BY FilesTyped DEF NoPersist, NoSnap

PersistType == [index : Nat, left : SUBSET DB, reading : DB \cup {None},
                files : [DB -> File]]

(* Put changes one file, and of the copies being made only the bytes. *)
LEMMA PutFacts ==
  ASSUME TypeOK, NEW h \in Node \cup {Cloud}, NEW k \in DB, NEW f \in File,
         Put(h, k, f)
  PROVE  /\ disk' \in [Node \cup {Cloud} -> [DB -> File]]
         /\ disk'[h][k] = f
         /\ \A m \in Node \cup {Cloud}, j \in DB :
              m # h \/ j # k => disk'[m][j] = disk[m][j]
         /\ persist' \in [Node -> PersistType]
         /\ \A n \in Node :
              /\ persist'[n].index = persist[n].index
              /\ persist'[n].left = persist[n].left
              /\ \A j \in DB : \/ persist'[n].files[j] = persist[n].files[j]
                               \/ persist'[n].files[j].torn
  <1>1. /\ disk' \in [Node \cup {Cloud} -> [DB -> File]]
        /\ disk'[h][k] = f
        /\ \A m \in Node \cup {Cloud}, j \in DB :
              m # h \/ j # k => disk'[m][j] = disk[m][j]
    BY DEF TypeOK, Put
  <1>2. ASSUME NEW n \in Node
        PROVE  /\ persist'[n] \in PersistType
               /\ persist'[n].index = persist[n].index
               /\ persist'[n].left = persist[n].left
               /\ \A j \in DB : \/ persist'[n].files[j] = persist[n].files[j]
                                \/ persist'[n].files[j].torn
    <2>1. persist[n] \in PersistType
      BY DEF TypeOK, PersistType
    <2>2. CASE n = h /\ persist[n].reading = k
      <3>1. persist'[n] = [persist[n] EXCEPT !.files[k] = Torn]
        BY <2>2 DEF Put
      <3>2. Torn \in File /\ Torn.torn
        BY FilesTyped DEF Torn
      <3> QED BY <2>1, <3>1, <3>2 DEF PersistType
    <2>3. CASE ~(n = h /\ persist[n].reading = k)
      <3>1. persist'[n] = persist[n]
        BY <2>3 DEF Put
      <3> QED BY <2>1, <3>1
    <2> QED BY <2>2, <2>3
  <1>3. persist' = [n \in Node |-> persist'[n]]
    BY DEF Put
  <1> QED BY <1>1, <1>2, <1>3

-----------------------------------------------------------------------------
(* Type correctness *)

LEMMA RespondTyped ==
  ASSUME TypeOK, NEW n \in Node, NEW c \in Call, NEW r \in {"ok", "failed"},
         Respond(n, c, r)
  PROVE  res' \in [Call -> {"idle", "waiting", "ok", "failed", "lost", "refused"}]
  BY DEF TypeOK, Respond

LEMMA NextEntry ==
  ASSUME TypeOK, NEW n \in Node, CanApply(n)
  PROVE  Next1(n) \in Call /\ applied[n] + 1 \in 1..Len(log)
  BY DEF TypeOK, CanApply, Next1

LEMMA HomeTyped ==
  ASSUME NEW n \in Node, NEW k \in DB
  PROVE  Home(n, k) \in Node \cup {Cloud}
  BY DEF Home

LEMMA ExecutedFacts ==
  ASSUME NEW f \in File, NEW c \in Call
  PROVE  /\ Executed(f, c) \in File /\ Executed(f, c).torn = f.torn
         /\ Executed(f, c).rows[c] = f.rows[c] + 1 /\ f.rows[c] \in Nat
         /\ \A d \in Call : d # c => Executed(f, c).rows[d] = f.rows[d]
  BY DEF Executed, File

(* A write to a primary leaves every node alone. *)
LEMMA PutCloud ==
  ASSUME TypeOK, NEW k \in DB, NEW f \in File, Put(Cloud, k, f)
  PROVE  /\ disk' \in [Node \cup {Cloud} -> [DB -> File]] /\ UNCHANGED persist
         /\ \A m \in Node : disk'[m] = disk[m]
  <1>1. \A m \in Node : m # Cloud
    BY ScopeAssumption
  <1>2. persist' = [m \in Node |-> persist[m]]
    BY <1>1 DEF Put
  <1> QED BY <1>1, <1>2 DEF Put, TypeOK

(* So does a statement that returns an error. *)
LEMMA FailedExec ==
  ASSUME TypeOK, NEW n \in Node, ApplyExecFails(n)
  PROVE  /\ disk' \in [Node \cup {Cloud} -> [DB -> File]] /\ UNCHANGED persist
         /\ \A m \in Node : disk'[m] = disk[m]
  <1> DEFINE c == Next1(n)  k == Target[c]  f == Executed(disk[Cloud][k], c)
  <1>1. CASE UNCHANGED <<disk, persist>>
    BY <1>1 DEF TypeOK
  <1>2. CASE k \in Remote /\ Put(Cloud, k, f)
    <2>1. k \in DB /\ c \in Call
      BY NextEntry DEF ApplyExecFails
    <2>2. f \in File
      BY <2>1, ExecutedFacts DEF TypeOK
    <2> HIDE DEF k, f
    <2> QED BY <1>2, <2>1, <2>2, PutCloud
  <1> QED BY <1>1, <1>2 DEF ApplyExecFails

(* A copy is begun: its file is new, the other files stay. *)
LEMMA OpenedFacts ==
  ASSUME NEW p \in PersistType, NEW k \in DB, NEW f \in File
  PROVE  /\ Opened(p, k, f) \in PersistType
         /\ Opened(p, k, f).index = p.index
         /\ Opened(p, k, f).left = p.left \ {k}
         /\ Opened(p, k, f).files[k] = f
         /\ \A j \in DB : j # k => Opened(p, k, f).files[j] = p.files[j]
  BY DEF Opened, PersistType

LEMMA InitType == Init => TypeOK
  <1> SUFFICES ASSUME Init PROVE TypeOK
    OBVIOUS
  <1>1. << >> \in Seq(Call)
    OBVIOUS
  <1> QED BY <1>1, FilesTyped, RecordsTyped DEF Init, TypeOK

LEMMA NextType == TypeOK /\ [Next]_vars => TypeOK'
  <1> SUFFICES ASSUME TypeOK, [Next]_vars PROVE TypeOK'
    OBVIOUS
  <1> USE ScopeAssumption
  <1>1. ASSUME NEW n \in Node, Elect(n) PROVE TypeOK'
    BY <1>1 DEF TypeOK, Elect, callVars, nodeVars, faultVars
  <1>2. ASSUME NEW n \in Node, StepDown(n) PROVE TypeOK'
    BY <1>2 DEF TypeOK, StepDown, nodeVars, faultVars
  <1>3. ASSUME NEW n \in Node, NEW c \in Call, ApplyLog(n, c) PROVE TypeOK'
    BY <1>3 DEF TypeOK, ApplyLog, raftVars, nodeVars, faultVars
  <1>4. ASSUME NEW c \in Call, Commit(c) PROVE TypeOK'
    <2>1. log' \in Seq(Call)
      BY <1>4 DEF TypeOK, Commit
    <2> QED BY <1>4, <2>1 DEF TypeOK, Commit, callVars, nodeVars, faultVars
  <1>5. ASSUME NEW n \in Node, ApplyExec(n) PROVE TypeOK'
    <2> DEFINE c == Next1(n)  k == Target[c]  h == Home(n, k)
               f == Executed(disk[h][k], c)
    <2>1. c \in Call /\ k \in DB /\ Put(h, k, f)
      BY <1>5, NextEntry DEF ApplyExec
    <2>2. h \in Node \cup {Cloud} /\ disk[h][k] \in File
      BY <2>1, HomeTyped DEF TypeOK
    <2>3. f \in File
      BY <2>1, <2>2, ExecutedFacts
    <2> HIDE DEF c, k, h, f
    <2>4. /\ disk' \in [Node \cup {Cloud} -> [DB -> File]]
          /\ persist' \in [Node -> PersistType]
      BY <2>1, <2>2, <2>3, PutFacts
    <2>5. inCb' \in [Node -> Call \cup {None}]
      BY <1>5, <2>1 DEF ApplyExec, TypeOK, c
    <2>6. applied' \in [Node -> Nat]
      <3>1. applied' = [applied EXCEPT ![n] = applied[n] + 1]
        BY <1>5 DEF ApplyExec
      <3>2. applied \in [Node -> Nat]
        BY DEF TypeOK
      <3> QED BY <3>1, <3>2
    <2> QED BY <1>5, <2>4, <2>5, <2>6 DEF TypeOK, ApplyExec, raftVars, callVars,
                                          faultVars, PersistType
  <1>6. ASSUME NEW n \in Node, ApplyExecFails(n) PROVE TypeOK'
    <2>1. Next1(n) \in Call /\ Respond(n, Next1(n), "failed")
      BY <1>6, NextEntry DEF ApplyExecFails
    <2>2. res' \in [Call -> {"idle", "waiting", "ok", "failed", "lost", "refused"}]
      BY <2>1, RespondTyped
    <2>3. /\ skipped' = [skipped EXCEPT ![n] = skipped[n] \cup {Next1(n)}]
          /\ faults' = faults + 1 /\ applied' = [applied EXCEPT ![n] = applied[n] + 1]
          /\ UNCHANGED <<raftVars, via, phase, inCb, life, todo, snap>>
      BY <1>6 DEF ApplyExecFails
    <2>4. disk' \in [Node \cup {Cloud} -> [DB -> File]] /\ UNCHANGED persist
      BY <1>6, FailedExec
    <2>5. /\ skipped' \in [Node -> SUBSET Call] /\ applied' \in [Node -> Nat]
          /\ faults' \in Nat
      <3>1. /\ skipped \in [Node -> SUBSET Call] /\ applied \in [Node -> Nat]
            /\ faults \in Nat
        BY DEF TypeOK
      <3> QED BY <2>1, <2>3, <3>1
    <2> QED BY <2>2, <2>3, <2>4, <2>5 DEF TypeOK, raftVars
  <1>7. ASSUME NEW n \in Node, ApplyRejects(n) PROVE TypeOK'
    <2>1. Next1(n) \in Call /\ Respond(n, Next1(n), "failed")
      BY <1>7, NextEntry DEF ApplyRejects
    <2>2. res' \in [Call -> {"idle", "waiting", "ok", "failed", "lost", "refused"}]
      BY <2>1, RespondTyped
    <2>3. /\ applied' = [applied EXCEPT ![n] = applied[n] + 1]
          /\ UNCHANGED <<raftVars, via, phase, inCb, life, todo, disk, faultVars, persist,
                         snap>>
      BY <1>7 DEF ApplyRejects
    <2>4. applied' \in [Node -> Nat]
      BY <2>3 DEF TypeOK
    <2> QED BY <2>2, <2>3, <2>4 DEF TypeOK, raftVars, faultVars
  <1>8. ASSUME NEW n \in Node, Snapshot(n) PROVE TypeOK'
    <2>1. [NoPersist EXCEPT !.index = applied[n], !.left = DB] \in PersistType
      BY RecordsTyped DEF TypeOK, PersistType
    <2> QED BY <1>8, <2>1 DEF TypeOK, PersistType, Snapshot, raftVars, callVars,
                              nodeVars, faultVars
  <1>9. ASSUME NEW n \in Node, NEW k \in DB, PersistOpen(n, k) PROVE TypeOK'
    <2>1. disk[n][k] \in File /\ persist[n] \in PersistType
      BY DEF TypeOK, PersistType
    <2>2. persist' \in [Node -> PersistType]
      <3>1. Opened(persist[n], k, disk[n][k]) \in PersistType
        BY <2>1, OpenedFacts
      <3>2. persist' = [persist EXCEPT ![n] = Opened(persist[n], k, disk[n][k])]
        BY <1>9 DEF PersistOpen
      <3>3. persist \in [Node -> PersistType]
        BY DEF TypeOK, PersistType
      <3> QED BY <3>1, <3>2, <3>3
    <2> QED BY <1>9, <2>2 DEF TypeOK, PersistType, PersistOpen, raftVars, callVars,
                              nodeVars, faultVars
  <1>10. ASSUME NEW n \in Node, PersistCopied(n) PROVE TypeOK'
    <2>1. persist[n] \in PersistType /\ persist \in [Node -> PersistType]
      BY DEF TypeOK, PersistType
    <2>2. [persist[n] EXCEPT !.reading = None] \in PersistType
      BY <2>1 DEF PersistType
    <2>3. persist' = [persist EXCEPT ![n] = [persist[n] EXCEPT !.reading = None]]
      BY <1>10 DEF PersistCopied
    <2>4. persist' \in [Node -> PersistType]
      BY <2>1, <2>2, <2>3
    <2> QED BY <1>10, <2>4 DEF TypeOK, PersistType, PersistCopied, raftVars, callVars,
                               nodeVars, faultVars
  <1>11. ASSUME NEW n \in Node, PersistFails(n) PROVE TypeOK'
    BY <1>11, RecordsTyped DEF TypeOK, PersistFails, raftVars, callVars, nodeVars,
                               faultVars
  <1>12. ASSUME NEW n \in Node, PersistDone(n) PROVE TypeOK'
    BY <1>12, RecordsTyped DEF TypeOK, PersistDone, raftVars, callVars, nodeVars,
                               faultVars
  <1>13. ASSUME NEW n \in Node, InstallSnapshot(n) PROVE TypeOK'
    <2>1. /\ life' \in [Node -> Nat] /\ todo' \in [Node -> SUBSET DB]
          /\ phase' \in [Node -> {"down", "boot", "run", "install"}]
          /\ snap' \in [Node -> [index : Nat, files : [DB -> File]]]
      BY <1>13 DEF TypeOK, InstallSnapshot
    <2> QED BY <1>13, <2>1 DEF TypeOK, InstallSnapshot, raftVars, callVars, faultVars
  <1>14. ASSUME NEW n \in Node, NEW k \in DB, NEW j \in DB, RestoreFile(n, k, j)
         PROVE  TypeOK'
    <2>1. snap[n].files[k] \in File
      BY DEF TypeOK
    <2>2. /\ disk' \in [Node \cup {Cloud} -> [DB -> File]]
          /\ persist' \in [Node -> PersistType]
      BY <1>14, <2>1, PutFacts DEF RestoreFile
    <2> QED BY <1>14, <2>2 DEF TypeOK, PersistType, RestoreFile, raftVars, callVars,
                               faultVars
  <1>15. ASSUME NEW n \in Node, NEW j \in DB, RestoreFails(n, j) PROVE TypeOK'
    <2>1. /\ disk' \in [Node \cup {Cloud} -> [DB -> File]]
          /\ persist' \in [Node -> PersistType]
      BY <1>15, FilesTyped, PutFacts DEF RestoreFails
    <2>2. /\ phase' = [phase EXCEPT ![n] = IF phase[n] = "boot" THEN "down" ELSE "run"]
          /\ faults' = faults + 1 /\ todo' = [todo EXCEPT ![n] = {}]
          /\ UNCHANGED <<raftVars, callVars, applied, inCb, life, skipped, snap>>
      BY <1>15 DEF RestoreFails
    <2>3. phase' \in [Node -> {"down", "boot", "run", "install"}]
      BY <2>2 DEF TypeOK
    <2>4. faults' \in Nat /\ todo' \in [Node -> SUBSET DB]
      <3>1. faults \in Nat /\ todo \in [Node -> SUBSET DB]
        BY DEF TypeOK
      <3> QED BY <2>2, <3>1
    <2> QED BY <2>1, <2>2, <2>3, <2>4 DEF TypeOK, PersistType, raftVars, callVars
  <1>16. ASSUME NEW n \in Node, RestoreDone(n) PROVE TypeOK'
    BY <1>16 DEF TypeOK, RestoreDone, raftVars, callVars, faultVars
  <1>17. ASSUME NEW n \in Node, Crash(n) PROVE TypeOK'
    <2>1. disk' \in [Node \cup {Cloud} -> [DB -> File]]
      <3>1. CASE UNCHANGED disk
        BY <3>1 DEF TypeOK
      <3>2. ASSUME NEW j \in DB, disk' = [disk EXCEPT ![n][j] = Torn]
            PROVE  disk' \in [Node \cup {Cloud} -> [DB -> File]]
        BY <3>2, FilesTyped DEF TypeOK
      <3> QED BY <1>17, <3>1, <3>2 DEF Crash
    <2>2. inCb' \in [Node -> Call \cup {None}]
      BY <1>17 DEF TypeOK, Crash
    <2> QED BY <1>17, <2>1, <2>2, RecordsTyped DEF TypeOK, Crash, faultVars
  <1>18. ASSUME NEW n \in Node, Start(n) PROVE TypeOK'
    <2>1. /\ life' \in [Node -> Nat] /\ todo' \in [Node -> SUBSET DB]
          /\ phase' \in [Node -> {"down", "boot", "run", "install"}]
      BY <1>18 DEF TypeOK, Start
    <2> QED BY <1>18, <2>1 DEF TypeOK, Start, raftVars, callVars, faultVars
  <1>19. ASSUME NEW n \in Node, Callback(n) PROVE TypeOK'
    <2>1. inCb[n] \in Call /\ Respond(n, inCb[n], "ok")
      BY <1>19 DEF TypeOK, Callback
    <2>2. res' \in [Call -> {"idle", "waiting", "ok", "failed", "lost", "refused"}]
      BY <2>1, RespondTyped
    <2>3. inCb' \in [Node -> Call \cup {None}]
      BY <1>19 DEF TypeOK, Callback
    <2>4. UNCHANGED <<raftVars, via, phase, applied, life, todo, disk, faultVars, persist,
                      snap>>
      BY <1>19 DEF Callback
    <2> QED BY <2>2, <2>3, <2>4 DEF TypeOK, raftVars, faultVars
  <1>20. CASE UNCHANGED vars
    BY <1>20 DEF TypeOK, vars
  <1> QED BY <1>1, <1>2, <1>3, <1>4, <1>5, <1>6, <1>7, <1>8, <1>9, <1>10, <1>11,
             <1>12, <1>13, <1>14, <1>15, <1>16, <1>17, <1>18, <1>19, <1>20
          DEF Next, Apply

(* The variables of MultiFSM stay within their types. *)
THEOREM TypeCorrect == Spec => []TypeOK
  BY InitType, NextType, PTL DEF Spec

-----------------------------------------------------------------------------
(* What a file covers *)

LEMMA CoversStable ==
  ASSUME NEW l, NEW m, NEW s, NEW t, NEW f, NEW k,
         NEW i \in Nat, NEW j \in Nat, j <= i,
         CoversBy(l, s, f, k, i),
         \A p \in 1..j : m[p] = l[p],
         \A n \in Node : s[n] \subseteq t[n]
  PROVE  CoversBy(m, t, f, k, j)
  BY DEF CoversBy

LEMMA CoversNothing ==
  ASSUME NEW l, NEW s, NEW f, NEW k
  PROVE  CoversBy(l, s, f, k, 0)
  BY DEF CoversBy

LEMMA TornCovers ==
  ASSUME NEW l, NEW s, NEW f, NEW k, NEW i, f.torn
  PROVE  CoversBy(l, s, f, k, i)
  BY DEF CoversBy

(* Executing entry i + 1 extends what its file covers. *)
LEMMA ExecutedCovers ==
  ASSUME NEW l \in Seq(Call), NEW s, NEW f \in File, NEW k, NEW i \in Nat,
         i + 1 \in 1..Len(l), CoversBy(l, s, f, k, i)
  PROVE  CoversBy(l, s, Executed(f, l[i + 1]), k, i + 1)
  <1> DEFINE c == l[i + 1]
             g == Executed(f, c)
  <1>1. \A p \in 1..(i + 1) : l[p] \in Call
    OBVIOUS
  <1>2. g.torn = f.torn /\ g.rows[c] = f.rows[c] + 1 /\ f.rows[c] \in Nat
    BY <1>1, ExecutedFacts
  <1>3. \A d \in Call : f.rows[d] \in Nat /\ g.rows[d] >= f.rows[d]
                                             /\ g.rows[d] \in Nat
    BY <1>1 DEF Executed, File
  <1>4. CASE f.torn
    BY <1>2, <1>4, TornCovers
  <1>5. CASE ~f.torn
    <2> SUFFICES ASSUME NEW p \in 1..(i + 1), Target[l[p]] = k,
                        \A n \in Node : l[p] \notin s[n]
                 PROVE  g.rows[l[p]] >= 1
      BY DEF CoversBy
    <2>1. CASE p = i + 1
      BY <1>2, <2>1
    <2>2. CASE p # i + 1
      <3>1. p \in 1..i
        BY <2>2
      <3>2. f.rows[l[p]] >= 1
        BY <1>5, <3>1 DEF CoversBy
      <3> HIDE DEF g
      <3> QED BY <1>1, <1>3, <3>2
    <2> QED BY <2>1, <2>2
  <1> QED BY <1>4, <1>5

(* An entry for another database, or one skipped, asks nothing of a file. *)
LEMMA PassedCovers ==
  ASSUME NEW l, NEW s, NEW f, NEW k, NEW i \in Nat, CoversBy(l, s, f, k, i),
         Target[l[i + 1]] # k \/ \E n \in Node : l[i + 1] \in s[n]
  PROVE  CoversBy(l, s, f, k, i + 1)
  BY DEF CoversBy

-----------------------------------------------------------------------------
(* The inductive invariant *)

Parts == IndexesOrdered /\ NoLostWrite /\ SnapshotCovers /\ CopiesCover /\ RestoredCover

LEMMA InitParts == Init => Parts
  <1> SUFFICES ASSUME Init PROVE Parts
    OBVIOUS
  <1>1. \A n \in Node : applied[n] = 0 /\ snap[n].index = 0 /\ persist[n].index = 0
                        /\ phase[n] = "run"
    BY DEF Init, NoSnap, NoPersist
  <1>2. Len(log) = 0
    BY DEF Init
  <1> QED BY <1>1, <1>2, CoversNothing
          DEF Parts, IndexesOrdered, NoLostWrite, SnapshotCovers, CopiesCover,
              RestoredCover, Covers, Restoring

(* A step that touches none of the variables the parts speak of. *)
LEMMA PartsFrame ==
  ASSUME Parts,
         UNCHANGED <<log, phase, applied, todo, disk, skipped, persist, snap>>
  PROVE  Parts'
  BY DEF Parts, IndexesOrdered, NoLostWrite, SnapshotCovers, CopiesCover,
         RestoredCover, Covers, CoversBy, Restoring

(* What is known of the indexes of node n. *)
LEMMA Indexes ==
  ASSUME TypeOK, Parts, NEW n \in Node
  PROVE  /\ applied[n] \in Nat /\ snap[n].index \in Nat /\ persist[n].index \in Nat
         /\ Len(log) \in Nat
         /\ applied[n] <= Len(log) /\ snap[n].index <= Len(log)
         /\ persist[n].index <= applied[n]
         /\ Restoring(n) => applied[n] <= snap[n].index
         /\ phase[n] \in {"down", "boot"} => applied[n] = 0
  BY DEF TypeOK, Parts, IndexesOrdered

LEMMA CommitParts ==
  ASSUME TypeOK, Parts, NEW c \in Call, Commit(c)
  PROVE  Parts'
  <1> USE DEF Commit, nodeVars, faultVars
  <1>1. /\ Len(log') = Len(log) + 1
        /\ \A p \in 1..Len(log) : log'[p] = log[p]
    BY DEF TypeOK
  <1>2. ASSUME NEW f, NEW k, NEW i \in Nat, i <= Len(log), Covers(f, k, i)
        PROVE  CoversBy(log', skipped', f, k, i)
    <2>1. \A p \in 1..i : log'[p] = log[p]
      BY <1>1, <1>2 DEF TypeOK
    <2>2. CoversBy(log, skipped, f, k, i) /\ skipped' = skipped
      BY <1>2 DEF Covers
    <2> QED BY <2>1, <2>2 DEF CoversBy
  <1>3. IndexesOrdered'
    BY <1>1, Indexes DEF IndexesOrdered, Restoring
  <1>4. NoLostWrite'
    BY <1>2, Indexes DEF Parts, NoLostWrite, Covers
  <1>5. SnapshotCovers'
    BY <1>2, Indexes DEF Parts, SnapshotCovers, Covers
  <1>6. CopiesCover'
    <2> SUFFICES ASSUME NEW n \in Node, NEW k \in Tracked, k \notin persist[n].left
                 PROVE  CoversBy(log', skipped', persist[n].files[k], k, persist[n].index)
      BY DEF CopiesCover, Covers
    <2>1. persist[n].index <= Len(log) /\ persist[n].index \in Nat
      BY Indexes
    <2> QED BY <1>2, <2>1 DEF Parts, CopiesCover
  <1>7. RestoredCover'
    BY <1>2, Indexes DEF Parts, RestoredCover, Covers, Restoring
  <1> QED BY <1>3, <1>4, <1>5, <1>6, <1>7 DEF Parts

(* Writing a file leaves every copy covering what it covered. *)
LEMMA PutCopies ==
  ASSUME TypeOK, Parts, NEW h \in Node \cup {Cloud}, NEW k \in DB, NEW f \in File,
         Put(h, k, f), UNCHANGED <<log, skipped>>
  PROVE  CopiesCover'
  <1> SUFFICES ASSUME NEW n \in Node, NEW j \in Tracked, j \notin persist'[n].left
               PROVE  CoversBy(log, skipped, persist'[n].files[j], j, persist'[n].index)
    BY DEF CopiesCover, Covers
  <1>1. /\ persist'[n].index = persist[n].index
        /\ persist'[n].left = persist[n].left
        /\ \/ persist'[n].files[j] = persist[n].files[j]
           \/ persist'[n].files[j].torn
    BY PutFacts DEF Tracked
  <1>2. CoversBy(log, skipped, persist[n].files[j], j, persist[n].index)
    BY <1>1 DEF Parts, CopiesCover, Covers
  <1> QED BY <1>1, <1>2, TornCovers

LEMMA ApplyExecParts ==
  ASSUME TypeOK, Parts, NEW n \in Node, ApplyExec(n)
  PROVE  Parts'
  <1> DEFINE c == Next1(n)  k == Target[c]  h == Home(n, k)
             f == Executed(disk[h][k], c)
  <1>1. /\ c \in Call /\ k \in DB /\ Put(h, k, f)
        /\ applied[n] + 1 \in 1..Len(log) /\ phase[n] = "run"
    BY NextEntry DEF ApplyExec, CanApply
  <1>2. h \in Node \cup {Cloud} /\ disk[h][k] \in File
    BY <1>1, HomeTyped DEF TypeOK
  <1>3. f \in File
    BY <1>1, <1>2, ExecutedFacts
  <1>4. /\ UNCHANGED <<log, skipped, phase, todo, snap>>
        /\ applied' = [applied EXCEPT ![n] = @ + 1]
    BY DEF ApplyExec, raftVars, callVars, faultVars
  <1>others. \A m \in Node \cup {Cloud}, j \in DB :
               m # h \/ j # k => disk'[m][j] = disk[m][j]
    <2> HIDE DEF h, k, f
    <2> QED BY <1>1, <1>2, <1>3, PutFacts
  <1>5. CopiesCover'
    BY <1>1, <1>2, <1>3, <1>4, PutCopies
  <1>6. SnapshotCovers'
    BY <1>4 DEF Parts, SnapshotCovers, Covers
  <1>7. IndexesOrdered'
    <2> SUFFICES ASSUME NEW m \in Node
                 PROVE  /\ applied'[m] <= Len(log) /\ snap[m].index <= Len(log)
                        /\ persist'[m].index <= applied'[m]
                        /\ Restoring(m) => applied'[m] <= snap[m].index
                        /\ phase[m] \in {"down", "boot"} => applied'[m] = 0
      BY <1>4 DEF IndexesOrdered, Restoring
    <2>1. persist'[m].index = persist[m].index
      BY <1>1, <1>2, <1>3, PutFacts
    <2>2. CASE m = n
      <3>1. applied'[m] = applied[n] + 1 /\ ~Restoring(m)
        BY <1>1, <1>4, <2>2 DEF TypeOK, Restoring
      <3> QED BY <1>1, <2>1, <2>2, <3>1, Indexes
    <2>3. CASE m # n
      <3>1. applied'[m] = applied[m]
        BY <1>4, <2>3 DEF TypeOK
      <3> QED BY <2>1, <3>1, Indexes
    <2> QED BY <2>2, <2>3
  <1>8. NoLostWrite'
    <2> SUFFICES ASSUME NEW m \in Node, NEW j \in Tracked
                 PROVE  CoversBy(log, skipped, disk'[m][j], j, applied'[m])
      BY <1>4 DEF NoLostWrite, Covers
    <2>1. CoversBy(log, skipped, disk[m][j], j, applied[m])
      BY DEF Parts, NoLostWrite, Covers
    <2>2. j \in DB \ Remote /\ m \in Node \cup {Cloud}
      BY DEF Tracked
    <2>3. CASE m = n /\ j = k
      <3>1. h = n
        BY <2>2, <2>3 DEF Home
      <3>2. disk'[m][j] = f /\ disk[h][k] \in File
        BY <1>1, <1>2, <1>3, <2>3, <3>1, PutFacts
      <3>3. f = Executed(disk[n][j], log[applied[n] + 1])
        BY <2>3, <3>1 DEF Next1
      <3>4. applied'[m] = applied[n] + 1 /\ applied[n] \in Nat
        BY <1>4, <2>3 DEF TypeOK
      <3>5. log \in Seq(Call) /\ disk[n][j] \in File
        BY <2>2 DEF TypeOK
      <3>6. CoversBy(log, skipped, f, j, applied[n] + 1)
        <4> HIDE DEF f
        <4> QED BY <1>1, <2>1, <2>3, <3>3, <3>4, <3>5, ExecutedCovers
      <3> QED BY <3>2, <3>4, <3>6
    <2>4. CASE m = n /\ j # k
      <3>1. disk'[m][j] = disk[m][j]
        BY <1>others, <2>2, <2>4
      <3>2. applied'[m] = applied[m] + 1 /\ applied[m] \in Nat
        BY <1>4, <2>4 DEF TypeOK
      <3>3. Target[log[applied[m] + 1]] # j
        BY <2>4 DEF Next1
      <3> QED BY <2>1, <3>1, <3>2, <3>3, PassedCovers
    <2>5. CASE m # n
      <3>1. m # h
        BY <2>5, ScopeAssumption DEF Home
      <3>2. disk'[m][j] = disk[m][j]
        BY <1>others, <2>2, <3>1
      <3>3. applied'[m] = applied[m]
        BY <1>4, <2>5 DEF TypeOK
      <3> QED BY <2>1, <3>2, <3>3
    <2> QED BY <2>3, <2>4, <2>5
  <1>9. RestoredCover'
    <2> SUFFICES ASSUME NEW m \in Node, NEW j \in Tracked, Restoring(m), j \notin todo[m]
                 PROVE  CoversBy(log, skipped, disk'[m][j], j, snap[m].index)
      BY <1>4 DEF RestoredCover, Covers, Restoring
    <2>1. m # h
      BY <1>1, ScopeAssumption DEF Home, Restoring
    <2>2. disk'[m][j] = disk[m][j]
      BY <1>others, <2>1 DEF Tracked
    <2> QED BY <2>2 DEF Parts, RestoredCover, Covers
  <1> QED BY <1>5, <1>6, <1>7, <1>8, <1>9 DEF Parts

(* An entry that has no effect on n: rejected everywhere, or skipped by n. *)
LEMMA PassParts ==
  ASSUME TypeOK, Parts, NEW n \in Node, CanApply(n),
         UNCHANGED <<log, phase, todo, persist, snap>>,
         \A m \in Node : disk'[m] = disk[m],
         applied' = [applied EXCEPT ![n] = @ + 1],
         skipped' \in [Node -> SUBSET Call],
         \A m \in Node : skipped[m] \subseteq skipped'[m],
         Target[Next1(n)] = NoDB \/ Next1(n) \in skipped'[n]
  PROVE  Parts'
  <1>1. phase[n] = "run" /\ applied[n] + 1 \in 1..Len(log)
    BY NextEntry DEF CanApply
  <1>2. ASSUME NEW f, NEW k, NEW i \in Nat, Covers(f, k, i)
        PROVE  CoversBy(log, skipped', f, k, i)
    <2>1. CoversBy(log, skipped, f, k, i)
      BY <1>2 DEF Covers
    <2> QED BY <2>1, CoversStable
  <1>3. IndexesOrdered'
    <2> SUFFICES ASSUME NEW m \in Node
                 PROVE  /\ applied'[m] <= Len(log) /\ snap[m].index <= Len(log)
                        /\ persist[m].index <= applied'[m]
                        /\ Restoring(m) => applied'[m] <= snap[m].index
                        /\ phase[m] \in {"down", "boot"} => applied'[m] = 0
      BY DEF IndexesOrdered, Restoring
    <2>1. CASE m = n
      <3>1. applied'[m] = applied[n] + 1 /\ ~Restoring(m)
        BY <1>1, <2>1 DEF TypeOK, Restoring
      <3> QED BY <1>1, <2>1, <3>1, Indexes
    <2>2. CASE m # n
      <3>1. applied'[m] = applied[m]
        BY <2>2 DEF TypeOK
      <3> QED BY <3>1, Indexes
    <2> QED BY <2>1, <2>2
  <1>4. NoLostWrite'
    <2> SUFFICES ASSUME NEW m \in Node, NEW j \in Tracked
                 PROVE  CoversBy(log, skipped', disk[m][j], j, applied'[m])
      BY DEF NoLostWrite, Covers
    <2>1. CoversBy(log, skipped', disk[m][j], j, applied[m]) /\ applied[m] \in Nat
      BY <1>2, Indexes DEF Parts, NoLostWrite
    <2>2. CASE m = n
      <3>1. applied'[m] = applied[m] + 1
        BY <2>2 DEF TypeOK
      <3>2. \/ Target[log[applied[m] + 1]] # j
            \/ \E x \in Node : log[applied[m] + 1] \in skipped'[x]
        BY <2>2, ScopeAssumption DEF Next1, Tracked
      <3> QED BY <2>1, <3>1, <3>2, PassedCovers
    <2>3. CASE m # n
      <3>1. applied'[m] = applied[m]
        BY <2>3 DEF TypeOK
      <3> QED BY <2>1, <3>1
    <2> QED BY <2>2, <2>3
  <1>5. SnapshotCovers'
    BY <1>2, Indexes DEF Parts, SnapshotCovers, Covers
  <1>6. CopiesCover'
    <2> SUFFICES ASSUME NEW m \in Node, NEW j \in Tracked, j \notin persist[m].left
                 PROVE  CoversBy(log, skipped', persist[m].files[j], j, persist[m].index)
      BY DEF CopiesCover, Covers
    <2>1. persist[m].index \in Nat
      BY Indexes
    <2> QED BY <1>2, <2>1 DEF Parts, CopiesCover
  <1>7. RestoredCover'
    BY <1>2, Indexes DEF Parts, RestoredCover, Covers, Restoring
  <1> QED BY <1>3, <1>4, <1>5, <1>6, <1>7 DEF Parts

(* A step of the snapshot goroutine that does not complete the snapshot. *)
LEMMA PersistParts ==
  ASSUME Parts, CopiesCover',
         UNCHANGED <<log, phase, applied, todo, disk, skipped, snap>>,
         \A n \in Node : persist'[n].index <= applied[n]
  PROVE  Parts'
  BY DEF Parts, IndexesOrdered, NoLostWrite, SnapshotCovers, RestoredCover, Covers,
         Restoring

LEMMA SnapshotParts ==
  ASSUME TypeOK, Parts, NEW n \in Node, Snapshot(n)
  PROVE  Parts'
  <1>1. /\ persist'[n].index = applied[n] /\ persist'[n].left = DB
        /\ \A m \in Node : m # n => persist'[m] = persist[m]
        /\ UNCHANGED <<log, phase, applied, todo, disk, skipped, snap>>
    BY DEF Snapshot, NoPersist, TypeOK, raftVars, nodeVars, faultVars
  <1>2. CopiesCover'
    BY <1>1 DEF Parts, CopiesCover, Covers, Tracked
  <1>3. \A m \in Node : persist'[m].index <= applied[m]
    BY <1>1, Indexes
  <1> QED BY <1>1, <1>2, <1>3, PersistParts

LEMMA PersistOpenParts ==
  ASSUME TypeOK, Parts, NEW n \in Node, NEW k \in DB, PersistOpen(n, k)
  PROVE  Parts'
  <1>1. UNCHANGED <<log, phase, applied, todo, disk, skipped, snap>>
    BY DEF PersistOpen, raftVars, nodeVars, faultVars
  <1>2. persist[n] \in PersistType
    BY DEF TypeOK, PersistType
  <1>3. /\ persist'[n].index = persist[n].index
        /\ persist'[n].left = persist[n].left \ {k}
        /\ persist'[n].files[k] = disk[n][k]
        /\ \A j \in DB : j # k => persist'[n].files[j] = persist[n].files[j]
        /\ \A m \in Node : m # n => persist'[m] = persist[m]
    <2>1. persist' = [persist EXCEPT ![n] = Opened(persist[n], k, disk[n][k])]
      BY DEF PersistOpen
    <2>2. persist \in [Node -> PersistType] /\ disk[n][k] \in File
      BY DEF TypeOK, PersistType
    <2>3. persist'[n] = Opened(persist[n], k, disk[n][k])
      BY <2>1, <2>2
    <2>4. \A m \in Node : m # n => persist'[m] = persist[m]
      BY <2>1, <2>2
    <2> QED BY <1>2, <2>2, <2>3, <2>4, OpenedFacts
  <1>4. CopiesCover'
    <2> SUFFICES ASSUME NEW m \in Node, NEW j \in Tracked, j \notin persist'[m].left
                 PROVE  CoversBy(log, skipped, persist'[m].files[j], j, persist'[m].index)
      BY <1>1 DEF CopiesCover, Covers
    <2>1. CASE m = n /\ j = k
      <3>1. CoversBy(log, skipped, disk[n][k], k, applied[n])
        BY <2>1 DEF Parts, NoLostWrite, Covers
      <3>2. CoversBy(log, skipped, disk[n][k], k, persist[n].index)
        BY <3>1, Indexes DEF CoversBy
      <3> QED BY <1>3, <2>1, <3>2
    <2>2. CASE ~(m = n /\ j = k)
      BY <1>3, <2>2 DEF Parts, CopiesCover, Covers, Tracked
    <2> QED BY <2>1, <2>2
  <1>5. \A m \in Node : persist'[m].index <= applied[m]
    BY <1>3, Indexes
  <1> QED BY <1>1, <1>4, <1>5, PersistParts

LEMMA PersistCopiedParts ==
  ASSUME TypeOK, Parts, NEW n \in Node, PersistCopied(n)
  PROVE  Parts'
  <1>1. UNCHANGED <<log, phase, applied, todo, disk, skipped, snap>>
    BY DEF PersistCopied, raftVars, nodeVars, faultVars
  <1>2. persist[n] \in PersistType
    BY DEF TypeOK, PersistType
  <1>3. \A m \in Node : /\ persist'[m].index = persist[m].index
                        /\ persist'[m].left = persist[m].left
                        /\ persist'[m].files = persist[m].files
    BY <1>2 DEF PersistCopied, PersistType, TypeOK
  <1>4. CopiesCover'
    BY <1>1, <1>3 DEF Parts, CopiesCover, Covers
  <1>5. \A m \in Node : persist'[m].index <= applied[m]
    BY <1>3, Indexes
  <1> QED BY <1>1, <1>4, <1>5, PersistParts

LEMMA PersistFailsParts ==
  ASSUME TypeOK, Parts, NEW n \in Node, PersistFails(n)
  PROVE  Parts'
  <1>1. /\ persist'[n].index = 0
        /\ \A m \in Node : m # n => persist'[m] = persist[m]
        /\ UNCHANGED <<log, phase, applied, todo, disk, skipped, snap>>
    BY DEF PersistFails, NoPersist, TypeOK, raftVars, nodeVars, faultVars
  <1>2. CopiesCover'
    BY <1>1, CoversNothing DEF Parts, CopiesCover, Covers
  <1>3. \A m \in Node : persist'[m].index <= applied[m]
    BY <1>1, Indexes
  <1> QED BY <1>1, <1>2, <1>3, PersistParts

LEMMA PersistDoneParts ==
  ASSUME TypeOK, Parts, NEW n \in Node, PersistDone(n)
  PROVE  Parts'
  <1>1. /\ persist'[n].index = 0 /\ persist[n].left = {}
        /\ \A m \in Node : m # n => persist'[m] = persist[m] /\ snap'[m] = snap[m]
        /\ UNCHANGED <<log, phase, applied, todo, disk, skipped>>
    BY DEF PersistDone, NoPersist, TypeOK, raftVars, nodeVars, faultVars
  <1>2. \/ snap'[n] = snap[n]
        \/ /\ persist[n].index >= snap[n].index
           /\ snap'[n].index = persist[n].index
           /\ snap'[n].files = persist[n].files
    BY DEF PersistDone, TypeOK
  \* A snapshot completed during a restore replaces at most its equal.
  <1>3. Restoring(n) => snap'[n].index = snap[n].index
    BY <1>2, Indexes
  <1>4. IndexesOrdered'
    <2> SUFFICES ASSUME NEW m \in Node
                 PROVE  /\ applied[m] <= Len(log) /\ snap'[m].index <= Len(log)
                        /\ persist'[m].index <= applied[m]
                        /\ Restoring(m) => applied[m] <= snap'[m].index
                        /\ phase[m] \in {"down", "boot"} => applied[m] = 0
      BY <1>1 DEF IndexesOrdered, Restoring
    <2>1. CASE m = n
      BY <1>1, <1>2, <1>3, <2>1, Indexes
    <2>2. CASE m # n
      BY <1>1, <2>2, Indexes
    <2> QED BY <2>1, <2>2
  <1>5. NoLostWrite'
    BY <1>1 DEF Parts, NoLostWrite, Covers
  <1>6. SnapshotCovers'
    BY <1>1, <1>2 DEF Parts, SnapshotCovers, CopiesCover, Covers
  <1>7. CopiesCover'
    BY <1>1, CoversNothing DEF Parts, CopiesCover, Covers
  <1>8. RestoredCover'
    <2> SUFFICES ASSUME NEW m \in Node, NEW j \in Tracked, Restoring(m), j \notin todo[m]
                 PROVE  CoversBy(log, skipped, disk[m][j], j, snap'[m].index)
      BY <1>1 DEF RestoredCover, Covers, Restoring
    <2>1. snap'[m].index = snap[m].index
      BY <1>1, <1>3
    <2> QED BY <2>1 DEF Parts, RestoredCover, Covers
  <1> QED BY <1>4, <1>5, <1>6, <1>7, <1>8 DEF Parts

LEMMA InstallParts ==
  ASSUME TypeOK, Parts, NEW n \in Node, InstallSnapshot(n)
  PROVE  Parts'
  <1>1. /\ leader \in Node /\ snap'[n] = snap[leader]
        /\ snap[leader].index > applied[n]
        /\ phase'[n] = "install" /\ todo'[n] = DB
        /\ \A m \in Node : m # n =>
             phase'[m] = phase[m] /\ todo'[m] = todo[m] /\ snap'[m] = snap[m]
        /\ UNCHANGED <<log, applied, disk, skipped, persist>>
    BY DEF InstallSnapshot, TypeOK, raftVars, faultVars
  <1>2. IndexesOrdered'
    <2> SUFFICES ASSUME NEW m \in Node
                 PROVE  /\ applied[m] <= Len(log) /\ snap'[m].index <= Len(log)
                        /\ persist[m].index <= applied[m]
                        /\ Restoring(m)' => applied[m] <= snap'[m].index
                        /\ phase'[m] \in {"down", "boot"} => applied[m] = 0
      BY <1>1 DEF IndexesOrdered
    <2>1. CASE m = n
      BY <1>1, <2>1, Indexes
    <2>2. CASE m # n
      BY <1>1, <2>2, Indexes DEF Restoring
    <2> QED BY <2>1, <2>2
  <1>3. NoLostWrite' /\ CopiesCover'
    BY <1>1 DEF Parts, NoLostWrite, CopiesCover, Covers
  <1>4. SnapshotCovers'
    BY <1>1 DEF Parts, SnapshotCovers, Covers
  <1>5. RestoredCover'
    BY <1>1 DEF Parts, RestoredCover, Covers, Restoring, Tracked
  <1> QED BY <1>2, <1>3, <1>4, <1>5 DEF Parts

LEMMA RestoreFileParts ==
  ASSUME TypeOK, Parts, NEW n \in Node, NEW k \in DB, NEW j \in DB,
         RestoreFile(n, k, j)
  PROVE  Parts'
  <1> DEFINE f == snap[n].files[k]
  <1>1. /\ Restoring(n) /\ k \in todo[n] /\ Base[j] = Base[k]
        /\ Put(n, j, f)
        /\ todo'[n] = todo[n] \ {k}
        /\ \A m \in Node : m # n => todo'[m] = todo[m]
        /\ UNCHANGED <<log, skipped, phase, applied, snap>>
    BY DEF RestoreFile, TypeOK, raftVars, faultVars
  <1>2. f \in File
    BY DEF TypeOK
  <1> HIDE DEF f
  <1>3. /\ disk'[n][j] = f
        /\ \A m \in Node, i \in DB : m # n \/ i # j => disk'[m][i] = disk[m][i]
        /\ \A m \in Node : persist'[m].index = persist[m].index
    BY <1>1, <1>2, PutFacts
  \* A uniquely named database gets its own member of the archive.
  <1>4. j \in Tracked \/ k \in Tracked => j = k
    BY <1>1 DEF Tracked, UniqueName
  <1>5. j \in Tracked => /\ CoversBy(log, skipped, f, j, snap[n].index)
                        /\ CoversBy(log, skipped, f, j, applied[n])
    <2> SUFFICES ASSUME j \in Tracked
                 PROVE  /\ CoversBy(log, skipped, f, j, snap[n].index)
                        /\ CoversBy(log, skipped, f, j, applied[n])
      OBVIOUS
    <2>1. CoversBy(log, skipped, f, j, snap[n].index)
      BY <1>4 DEF Parts, SnapshotCovers, Covers, f
    <2>2. applied[n] <= snap[n].index /\ applied[n] \in Nat /\ snap[n].index \in Nat
      BY <1>1, Indexes
    <2> QED BY <2>1, <2>2 DEF CoversBy
  <1>6. IndexesOrdered'
    BY <1>1, <1>3 DEF Parts, IndexesOrdered, Restoring
  <1>7. NoLostWrite'
    BY <1>1, <1>3, <1>5 DEF Parts, NoLostWrite, Covers, Tracked
  <1>8. SnapshotCovers'
    BY <1>1 DEF Parts, SnapshotCovers, Covers
  <1>9. CopiesCover'
    BY <1>1, <1>2, PutCopies
  <1>10. RestoredCover'
    <2> SUFFICES ASSUME NEW m \in Node, NEW i \in Tracked, Restoring(m), i \notin todo'[m]
                 PROVE  CoversBy(log, skipped, disk'[m][i], i, snap[m].index)
      BY <1>1 DEF RestoredCover, Covers, Restoring
    <2>1. CASE m = n /\ i = j
      BY <1>3, <1>5, <2>1
    <2>2. CASE ~(m = n /\ i = j)
      <3>1. disk'[m][i] = disk[m][i] /\ i \notin todo[m]
        BY <1>1, <1>3, <1>4, <2>2 DEF Tracked
      <3> QED BY <3>1 DEF Parts, RestoredCover, Covers
    <2> QED BY <2>1, <2>2
  <1> QED BY <1>6, <1>7, <1>8, <1>9, <1>10 DEF Parts

LEMMA RestoreFailsParts ==
  ASSUME TypeOK, Parts, NEW n \in Node, NEW j \in DB, RestoreFails(n, j)
  PROVE  Parts'
  <1>1. /\ Restoring(n) /\ Put(n, j, Torn)
        /\ phase'[n] = IF phase[n] = "boot" THEN "down" ELSE "run"
        /\ \A m \in Node : m # n => phase'[m] = phase[m] /\ todo'[m] = todo[m]
        /\ UNCHANGED <<log, skipped, applied, snap>>
    BY DEF RestoreFails, TypeOK, raftVars
  <1>2. /\ disk'[n][j].torn
        /\ \A m \in Node, i \in DB : m # n \/ i # j => disk'[m][i] = disk[m][i]
        /\ \A m \in Node : persist'[m].index = persist[m].index
    BY <1>1, FilesTyped, PutFacts DEF Torn
  <1>3. IndexesOrdered'
    BY <1>1, <1>2 DEF Parts, IndexesOrdered, Restoring
  <1>4. NoLostWrite'
    BY <1>1, <1>2, TornCovers DEF Parts, NoLostWrite, Covers, Tracked
  <1>5. SnapshotCovers'
    BY <1>1 DEF Parts, SnapshotCovers, Covers
  <1>6. CopiesCover'
    BY <1>1, FilesTyped, PutCopies
  <1>7. RestoredCover'
    BY <1>1, <1>2 DEF Parts, RestoredCover, Covers, Restoring, Tracked
  <1> QED BY <1>3, <1>4, <1>5, <1>6, <1>7 DEF Parts

LEMMA RestoreDoneParts ==
  ASSUME TypeOK, Parts, NEW n \in Node, RestoreDone(n)
  PROVE  Parts'
  <1>1. /\ Restoring(n) /\ todo[n] = {}
        /\ phase'[n] = "run" /\ applied'[n] = snap[n].index
        /\ \A m \in Node : m # n => phase'[m] = phase[m] /\ applied'[m] = applied[m]
        /\ UNCHANGED <<log, skipped, todo, disk, persist, snap>>
    BY DEF RestoreDone, TypeOK, raftVars, faultVars
  <1>2. IndexesOrdered'
    <2> SUFFICES ASSUME NEW m \in Node
                 PROVE  /\ applied'[m] <= Len(log) /\ snap[m].index <= Len(log)
                        /\ persist[m].index <= applied'[m]
                        /\ Restoring(m)' => applied'[m] <= snap[m].index
                        /\ phase'[m] \in {"down", "boot"} => applied'[m] = 0
      BY <1>1 DEF IndexesOrdered
    <2>1. CASE m = n
      BY <1>1, <2>1, Indexes
    <2>2. CASE m # n
      BY <1>1, <2>2, Indexes DEF Restoring
    <2> QED BY <2>1, <2>2
  <1>3. NoLostWrite'
    BY <1>1 DEF Parts, NoLostWrite, RestoredCover, Covers
  <1>4. SnapshotCovers' /\ CopiesCover'
    BY <1>1 DEF Parts, SnapshotCovers, CopiesCover, Covers
  <1>5. RestoredCover'
    BY <1>1 DEF Parts, RestoredCover, Covers, Restoring
  <1> QED BY <1>2, <1>3, <1>4, <1>5 DEF Parts

LEMMA CrashParts ==
  ASSUME TypeOK, Parts, NEW n \in Node, Crash(n)
  PROVE  Parts'
  <1>1. /\ phase'[n] = "down" /\ applied'[n] = 0 /\ persist'[n].index = 0
        /\ \A m \in Node : m # n => /\ phase'[m] = phase[m]
                                    /\ applied'[m] = applied[m]
                                    /\ persist'[m] = persist[m]
                                    /\ todo'[m] = todo[m]
        /\ UNCHANGED <<log, skipped, snap>>
    BY DEF Crash, TypeOK, NoPersist, faultVars
  <1>2. \A m \in Node : m # n => disk'[m] = disk[m]
    BY DEF Crash, TypeOK
  <1>3. IndexesOrdered'
    <2> SUFFICES ASSUME NEW m \in Node
                 PROVE  /\ applied'[m] <= Len(log) /\ snap[m].index <= Len(log)
                        /\ persist'[m].index <= applied'[m]
                        /\ Restoring(m)' => applied'[m] <= snap[m].index
                        /\ phase'[m] \in {"down", "boot"} => applied'[m] = 0
      BY <1>1 DEF IndexesOrdered
    <2>1. CASE m = n
      BY <1>1, <2>1, Indexes DEF Restoring
    <2>2. CASE m # n
      BY <1>1, <2>2, Indexes DEF Restoring
    <2> QED BY <2>1, <2>2
  <1>4. NoLostWrite'
    BY <1>1, <1>2, CoversNothing DEF Parts, NoLostWrite, Covers
  <1>5. SnapshotCovers'
    BY <1>1 DEF Parts, SnapshotCovers, Covers
  <1>6. CopiesCover'
    BY <1>1, CoversNothing DEF Parts, CopiesCover, Covers
  <1>7. RestoredCover'
    BY <1>1, <1>2 DEF Parts, RestoredCover, Covers, Restoring
  <1> QED BY <1>3, <1>4, <1>5, <1>6, <1>7 DEF Parts

LEMMA StartParts ==
  ASSUME TypeOK, Parts, NEW n \in Node, Start(n)
  PROVE  Parts'
  <1>1. /\ phase[n] = "down" /\ phase'[n] \in {"run", "boot"}
        /\ phase'[n] = "boot" => todo'[n] = DB
        /\ \A m \in Node : m # n => phase'[m] = phase[m] /\ todo'[m] = todo[m]
        /\ UNCHANGED <<log, applied, disk, skipped, persist, snap>>
    BY DEF Start, TypeOK, raftVars, faultVars
  <1>2. IndexesOrdered'
    <2> SUFFICES ASSUME NEW m \in Node
                 PROVE  /\ applied[m] <= Len(log) /\ snap[m].index <= Len(log)
                        /\ persist[m].index <= applied[m]
                        /\ Restoring(m)' => applied[m] <= snap[m].index
                        /\ phase'[m] \in {"down", "boot"} => applied[m] = 0
      BY <1>1 DEF IndexesOrdered
    <2>1. CASE m = n
      BY <1>1, <2>1, Indexes
    <2>2. CASE m # n
      BY <1>1, <2>2, Indexes DEF Restoring
    <2> QED BY <2>1, <2>2
  <1>3. NoLostWrite' /\ SnapshotCovers' /\ CopiesCover'
    BY <1>1 DEF Parts, NoLostWrite, SnapshotCovers, CopiesCover, Covers
  <1>4. RestoredCover'
    BY <1>1 DEF Parts, RestoredCover, Covers, Restoring, Tracked
  <1> QED BY <1>2, <1>3, <1>4 DEF Parts

LEMMA NextParts == TypeOK /\ Parts /\ [Next]_vars => Parts'
  <1> SUFFICES ASSUME TypeOK, Parts, [Next]_vars PROVE Parts'
    OBVIOUS
  <1>1. ASSUME NEW n \in Node, Elect(n) PROVE Parts'
    BY <1>1, PartsFrame DEF Elect, nodeVars, faultVars
  <1>2. ASSUME NEW n \in Node, StepDown(n) PROVE Parts'
    BY <1>2, PartsFrame DEF StepDown, nodeVars, faultVars
  <1>3. ASSUME NEW n \in Node, NEW c \in Call, ApplyLog(n, c) PROVE Parts'
    BY <1>3, PartsFrame DEF ApplyLog, raftVars, nodeVars, faultVars
  <1>4. ASSUME NEW n \in Node, ApplyExecFails(n) PROVE Parts'
    <2>1. /\ UNCHANGED <<log, phase, todo, persist, snap>>
          /\ CanApply(n) /\ applied' = [applied EXCEPT ![n] = @ + 1]
          /\ skipped' = [skipped EXCEPT ![n] = @ \cup {Next1(n)}]
          /\ Next1(n) \in Call
          /\ \A m \in Node : disk'[m] = disk[m]
      BY <1>4, NextEntry, FailedExec DEF ApplyExecFails, raftVars
    <2>2. /\ skipped' \in [Node -> SUBSET Call]
          /\ \A m \in Node : skipped[m] \subseteq skipped'[m]
          /\ Next1(n) \in skipped'[n]
      BY <2>1 DEF TypeOK
    <2> QED BY <2>1, <2>2, PassParts
  <1>5. ASSUME NEW n \in Node, ApplyRejects(n) PROVE Parts'
    <2>1. /\ UNCHANGED <<log, phase, todo, disk, skipped, persist, snap>>
          /\ CanApply(n) /\ applied' = [applied EXCEPT ![n] = @ + 1]
          /\ Target[Next1(n)] = NoDB
      BY <1>5 DEF ApplyRejects, raftVars, faultVars
    <2>2. /\ skipped' \in [Node -> SUBSET Call]
          /\ \A m \in Node : skipped[m] \subseteq skipped'[m]
      BY <2>1 DEF TypeOK
    <2> QED BY <2>1, <2>2, PassParts
  <1>6. ASSUME NEW n \in Node, Callback(n) PROVE Parts'
    BY <1>6, PartsFrame DEF Callback, raftVars, faultVars
  <1>7. CASE UNCHANGED vars
    BY <1>7, PartsFrame DEF vars
  <1> QED BY <1>1, <1>2, <1>3, <1>4, <1>5, <1>6, <1>7, CommitParts, ApplyExecParts,
             SnapshotParts, PersistOpenParts, PersistCopiedParts, PersistFailsParts,
             PersistDoneParts, InstallParts, RestoreFileParts, RestoreFailsParts,
             RestoreDoneParts, CrashParts, StartParts
          DEF Next, Apply

(* The conjunction of the invariants above is inductive. *)
THEOREM Inductive == Spec => []IInv
  <1>1. Init => IInv
    BY InitType, InitParts DEF IInv, Parts
  <1>2. IInv /\ [Next]_vars => IInv'
    BY NextType, NextParts DEF IInv, Parts
  <1> QED BY <1>1, <1>2, PTL DEF Spec

(* No replica loses the effect of an entry it counts as applied. *)
THEOREM NoWriteIsLost == Spec => []NoLostWrite
  <1>1. IInv => NoLostWrite
    BY DEF IInv
  <1> QED BY <1>1, Inductive, PTL

(* No snapshot misses the effect of an entry its index covers. *)
THEOREM SnapshotsCover == Spec => []SnapshotCovers
  <1>1. IInv => SnapshotCovers
    BY DEF IInv
  <1> QED BY <1>1, Inductive, PTL
=============================================================================
