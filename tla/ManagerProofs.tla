---------------------------- MODULE ManagerProofs ----------------------------
(***************************************************************************)
(* Manager!IInv is inductive: with any number of clients, syncs, shutdowns *)
(* and databases the connectors are closed only when nothing uses them,    *)
(* stopCh is closed once, and the gate of the schedule never hides a write.*)
(* A manager whose FSM goroutine and whose callers wait for each other     *)
(* stays so, and no call of Exec ever succeeds.                            *)
(***************************************************************************)
EXTENDS Manager, TLAPS

-----------------------------------------------------------------------------
(* The inductive invariant *)

\* What makes the properties inductive: a writer is alone, a goroutine in the body of its
\* call holds the lock, a stopped manager has stopped Raft first, and a sync
\* has still to visit what was written, unless a stamp is to come.
Body == {"reading", "waiting", "sync", "snapshot", "persist", "stamp",
         "answered"}

LockHeld ==
  /\ mu.writer # None => mu.readers = {}
  /\ \A t \in Client \cup Syncer : pc[t] \in Body => Reading(t)
  /\ \A t \in Stopper : pc[t] = "raftwait" => Writing(t)

StopOrder ==
  /\ leading => raft = "up"
  /\ isRunning <=> raft = "up"
  /\ raft = "stopped" <=> pc[Fsm] = "done"
  /\ ~connected => raft = "stopped"

SyncCatchesUp ==
  \A t \in Syncer :
    InSync(t) => pc[Fsm] = "callback" \/ unsynced \subseteq missed \cup left[t]

Visited ==
  \A t \in Syncer : pc[t] \in {"snapshot", "persist", "stamp"} => left[t] = {}

IInv ==
  /\ TypeOK /\ LockHeld /\ StopOrder /\ SafeClose /\ StopOnce
  /\ SyncCatchesUp /\ Visited /\ GateCoversWrites

-----------------------------------------------------------------------------
(* The lock *)

\* A writer is alone.
Alone(m) == m.writer # None => m.readers = {}

LEMMA RLockFacts ==
  ASSUME NEW m \in Rw!Mutex, NEW t \in Thread, Alone(m)
  PROVE  /\ Rw!RLock(m, t) \in Rw!Mutex /\ Alone(Rw!RLock(m, t))
         /\ Rw!RLock(m, t).writer = m.writer
         /\ m.readers \subseteq Rw!RLock(m, t).readers
  BY DEF Rw!Mutex, Rw!RLock, Alone

LEMMA RUnlockFacts ==
  ASSUME NEW m \in Rw!Mutex, NEW t \in m.readers, Alone(m)
  PROVE  /\ Rw!RUnlock(m, t) \in Rw!Mutex /\ Alone(Rw!RUnlock(m, t))
         /\ m.writer = None
         /\ Rw!RUnlock(m, t).readers = m.readers \ {t}
  BY DEF Rw!Mutex, Rw!RUnlock, Alone

LEMMA LockFacts ==
  ASSUME NEW m \in Rw!Mutex, NEW t \in Thread, Alone(m)
  PROVE  /\ Rw!Lock(m, t) \in Rw!Mutex /\ Alone(Rw!Lock(m, t))
         /\ m.writer # None => Rw!Lock(m, t).writer = m.writer
         /\ Rw!Lock(m, t).readers = m.readers
  BY DEF Rw!Mutex, Rw!Lock, Alone

LEMMA UnlockFacts ==
  ASSUME NEW m \in Rw!Mutex, NEW n \in Rw!Unlock(m)
  PROVE  n \in Rw!Mutex /\ Alone(n)
  <1> DEFINE freed == [m EXCEPT !.writer = None, !.readers = m.shut, !.shut = {}]
             ready(t) == [freed EXCEPT !.queue = @ \ {t}]
  <1>1. freed \in Rw!Mutex /\ freed.writer = None
    BY DEF Rw!Mutex
  <1>2. CASE n = freed
    BY <1>1, <1>2 DEF Alone
  <1>3. ASSUME NEW t \in m.queue, n = Rw!Lock(ready(t), t)
        PROVE  n \in Rw!Mutex /\ Alone(n)
    <2>1. t \in Thread
      BY DEF Rw!Mutex
    <2>2. ready(t) \in Rw!Mutex /\ ready(t).writer = None
      BY <1>1 DEF Rw!Mutex
    <2> HIDE DEF ready
    <2> QED BY <1>3, <2>1, <2>2, LockFacts DEF Alone
  <1> QED BY <1>2, <1>3 DEF Rw!Unlock

-----------------------------------------------------------------------------
(* Types *)

LEMMA LockTyped ==
  ASSUME NEW m \in Rw!Mutex, NEW t \in Thread, Alone(m)
  PROVE  /\ Rw!RLock(m, t) \in Rw!Mutex /\ Rw!Lock(m, t) \in Rw!Mutex
         /\ Rw!Unlock(m) \subseteq Rw!Mutex
         /\ t \in m.readers => Rw!RUnlock(m, t) \in Rw!Mutex
  BY RLockFacts, LockFacts, UnlockFacts, RUnlockFacts

LEMMA AppendTyped ==
  ASSUME NEW S, NEW q \in Seq(S), NEW e \in S
  PROVE  Append(q, e) \in Seq(S)
  OBVIOUS

LEMMA ServeTyped ==
  ASSUME TypeOK, Alone(mu), LockHeld, NEW t \in Client,
         Serve(t) \/ \E o \in Ask : Call(t, o)
  PROVE  TypeOK'
  <1> USE DEF TypeOK, Label, Result, Goto, Answer, syncVars, raftVars
  <1>1. t \in Thread
    BY DEF Thread
  <1>2. ASSUME NEW o \in Ask, Call(t, o) PROVE TypeOK'
    BY <1>1, <1>2, LockTyped DEF Call
  <1>3. CASE NotRunning(t)
    BY <1>3 DEF NotRunning
  <1>4. CASE Read(t)
    BY <1>4 DEF Read
  <1>5. CASE ReadDone(t)
    BY <1>5 DEF ReadDone
  <1>6. CASE Propose(t)
    <2>1. CASE leading
      BY <1>6, <2>1 DEF Propose
    <2>2. CASE ~leading
      BY <1>6, <2>2 DEF Propose
    <2> QED BY <2>1, <2>2
  <1>7. CASE Commit(t)
    <2> DEFINE e == [who |-> t, kind |-> op[t]]
    <2>1. e \in Entry
      BY DEF Entry
    <2> HIDE DEF e
    <2>2. Append(queue, e) \in Seq(Entry)
      BY <2>1, AppendTyped
    <2>3. queue' \in Seq(Entry)
      BY <1>7, <2>2 DEF Commit, e
    <2> QED BY <1>7, <2>3 DEF Commit
  <1>8. CASE Return(t)
    BY <1>1, <1>8, LockTyped DEF Return, LockHeld, Body, Reading
  <1> QED BY <1>2, <1>3, <1>4, <1>5, <1>6, <1>7, <1>8 DEF Serve

LEMMA SyncTyped ==
  ASSUME TypeOK, Alone(mu), LockHeld, NEW t \in Syncer,
         Sync(t) \/ (t = Loop /\ (LoopGate \/ LoopSkip \/ LoopSync))
  PROVE  TypeOK'
  <1> USE DEF TypeOK, Label, Result, Goto, Answer, syncVars, raftVars
  <1>1. t \in Thread
    BY DEF Thread
  <1>2. CASE SyncCall(t)
    BY <1>1, <1>2, LockTyped DEF SyncCall
  <1>12. CASE t = Loop /\ LoopSync
    BY <1>1, <1>12, LockTyped DEF LoopSync
  <1>3. CASE t = Loop /\ (LoopGate \/ LoopSkip)
    BY <1>3 DEF LoopGate, LoopSkip
  <1>4. CASE SyncStart(t)
    BY <1>4 DEF SyncStart
  <1>5. CASE SyncSnapshot(t)
    BY <1>5 DEF SyncSnapshot
  <1>6. CASE SyncStamp(t)
    BY <1>6 DEF SyncStamp
  <1>7. ASSUME NEW k \in Key, SyncKey(t, k) PROVE TypeOK'
    BY <1>7 DEF SyncKey
  <1>8. ASSUME NEW k \in Key, SyncKeyFails(t, k) PROVE TypeOK'
    BY <1>8 DEF SyncKeyFails
  <1>9. CASE FsmSnapshot(t) \/ Persisted(t)
    BY <1>9 DEF FsmSnapshot, Persisted
  <1>10. CASE PersistFails(t)
    BY <1>10 DEF PersistFails
  <1>11. CASE Return(t)
    BY <1>1, <1>11, LockTyped DEF Return, LockHeld, Body, Reading
  <1> HIDE DEF TypeOK, Label, Result, Goto, Answer
  <1> QED BY <1>2, <1>3, <1>4, <1>5, <1>6, <1>7, <1>8, <1>9, <1>10, <1>11,
           <1>12 DEF Sync

LEMMA StopsCounted ==
  ASSUME NEW t \in Stopper, StopRaft(t), stopCh \in Nat
  PROVE  stopCh' \in Nat
  BY DEF StopRaft

LEMMA StopTyped ==
  ASSUME TypeOK, Alone(mu), NEW t \in Stopper, StopCall(t) \/ Stop(t)
  PROVE  TypeOK'
  <1> USE DEF TypeOK, Label, Result, Goto, Answer, syncVars, raftVars
  <1>1. t \in Thread
    BY DEF Thread
  <1>2. CASE StopCall(t)
    BY <1>1, <1>2, LockTyped DEF StopCall
  <1>3. CASE StopAgain(t)
    BY <1>1, <1>3, LockTyped DEF StopAgain
  <1>4. CASE StopRaft(t)
    <2>1. stopCh' \in Nat
      BY <1>4, StopsCounted
    <2> QED BY <1>4, <2>1 DEF StopRaft
  <1>5. CASE StopClose(t)
    BY <1>1, <1>5, LockTyped DEF StopClose
  <1> QED BY <1>2, <1>3, <1>4, <1>5 DEF Stop

LEMMA CompleteTyped ==
  ASSUME NEW T, NEW a \in Result, NEW f \in [Thread -> Label], Complete(T, a, f),
         ans \in [Thread -> Result]
  PROVE  pc' \in [Thread -> Label] /\ ans' \in [Thread -> Result]
  BY DEF Complete, Label

LEMMA RespondTyped ==
  ASSUME NEW a \in Result, Respond(a), TypeOK
  PROVE  pc' \in [Thread -> Label] /\ ans' \in [Thread -> Result] /\ cur' \in Entry
  <1>1. [pc EXCEPT ![Fsm] = "idle"] \in [Thread -> Label]
    BY DEF TypeOK, Label
  <1>2. pc' \in [Thread -> Label] /\ ans' \in [Thread -> Result]
    BY <1>1, CompleteTyped DEF Respond, TypeOK
  <1>3. cur' \in Entry
    BY DEF Respond, NoEntry, Entry
  <1> QED BY <1>2, <1>3

LEMMA TakeTyped ==
  ASSUME NEW S, NEW q \in Seq(S), q # << >>
  PROVE  Head(q) \in S /\ Tail(q) \in Seq(S)
  OBVIOUS

LEMMA FsmTyped ==
  ASSUME TypeOK, Alone(mu), FsmStep
  PROVE  TypeOK'
  <1> USE DEF TypeOK, syncVars, raftVars
  <1>1. Fsm \in Thread
    BY DEF Thread
  <1>2. CASE FsmTake
    <2>1. Head(queue) \in Entry /\ Tail(queue) \in Seq(Entry)
      BY <1>2, TakeTyped DEF FsmTake
    <2> QED BY <1>2, <2>1 DEF FsmTake, Goto, Label
  <1>3. CASE FsmReject
    <2>1. PICK a \in Result : Respond(a)
      BY <1>3 DEF FsmReject, Result
    <2>2. pc' \in [Thread -> Label] /\ ans' \in [Thread -> Result] /\ cur' \in Entry
      BY <2>1, RespondTyped
    <2> QED BY <1>3, <2>2 DEF FsmReject
  <1>4. ASSUME NEW k \in Key, FsmExec(k) PROVE TypeOK'
    BY <1>1, <1>4, LockTyped DEF FsmExec, Goto, Label
  <1>5. CASE FsmStamp
    <2>1. mu' \in Rw!Mutex
      BY <1>1, <1>5, LockTyped DEF FsmStamp
    <2>2. Respond("ok") /\ "ok" \in Result
      BY <1>5 DEF FsmStamp, Result
    <2>3. pc' \in [Thread -> Label] /\ ans' \in [Thread -> Result] /\ cur' \in Entry
      BY <2>2, RespondTyped
    <2> QED BY <1>5, <2>1, <2>3 DEF FsmStamp
  <1>6. CASE FsmExit
    BY <1>6 DEF FsmExit, Goto, Label
  <1> HIDE DEF TypeOK
  <1> QED BY <1>2, <1>3, <1>4, <1>5, <1>6 DEF FsmStep

LEMMA RemoteBounded ==
  ASSUME remote \in 0..MaxRemote, RemoteCommit
  PROVE  remote' \in 0..MaxRemote
  BY ManagerAssumption DEF RemoteCommit

LEMMA RaftTyped ==
  ASSUME TypeOK, Elect \/ StepDown \/ RemoteCommit
  PROVE  TypeOK'
  <1> USE DEF TypeOK, syncVars, raftVars
  <1>1. CASE Elect
    BY <1>1 DEF Elect
  <1>2. CASE StepDown
    <2>1. pc' \in [Thread -> Label] /\ ans' \in [Thread -> Result]
      BY <1>2, CompleteTyped DEF StepDown, Result
    <2> QED BY <1>2, <2>1 DEF StepDown
  <1>3. CASE RemoteCommit
    <2> DEFINE e == [who |-> None, kind |-> "exec"]
    <2>1. e \in Entry
      BY DEF Entry
    <2> HIDE DEF e
    <2>2. Append(queue, e) \in Seq(Entry)
      BY <2>1, AppendTyped
    <2>3. queue' \in Seq(Entry)
      BY <1>3, <2>2 DEF RemoteCommit, e
    <2>4. remote' \in 0..MaxRemote
      BY <1>3, RemoteBounded
    <2> QED BY <1>3, <2>3, <2>4 DEF RemoteCommit
  <1> QED BY <1>1, <1>2, <1>3

-----------------------------------------------------------------------------
(* The lock is held where it has to be *)

\* Steps that leave the lock alone and enter a body only from a body, or with
\* the lock just granted.
LEMMA SameLock ==
  ASSUME LockHeld, mu' = mu,
         \A t \in Client \cup Syncer : pc'[t] \in Body => pc[t] \in Body \/ Reading(t),
         \A t \in Stopper : pc'[t] = "raftwait" => pc[t] = "raftwait" \/ Writing(t)
  PROVE  LockHeld'
  BY DEF LockHeld, Reading, Writing

\* A caller asks for the lock.
LEMMA AskLock ==
  ASSUME TypeOK, LockHeld, NEW t \in Thread,
         mu' = Rw!RLock(mu, t) \/ mu' = Rw!Lock(mu, t),
         \A u \in Client \cup Syncer : pc'[u] \in Body => pc[u] \in Body,
         \A u \in Stopper : pc'[u] = "raftwait" => pc[u] = "raftwait"
  PROVE  LockHeld'
  <1>1. mu \in Rw!Mutex /\ Alone(mu)
    BY DEF TypeOK, LockHeld, Alone
  <1>2. /\ Alone(mu') /\ mu.readers \subseteq mu'.readers
        /\ mu.writer # None => mu'.writer = mu.writer
    BY <1>1, RLockFacts, LockFacts
  <1>3. None \notin Stopper
    BY ManagerAssumption DEF Thread
  <1> QED BY <1>2, <1>3 DEF LockHeld, Alone, Reading, Writing

\* The writer gives the lock back: nobody else was in a body.
LEMMA DropLock ==
  ASSUME TypeOK, LockHeld, NEW t \in Thread, Writing(t), mu' \in Rw!Unlock(mu),
         \A u \in Client \cup Syncer : pc'[u] \in Body => pc[u] \in Body,
         \A u \in Stopper : pc'[u] = "raftwait" => pc[u] = "raftwait" /\ u # t
  PROVE  LockHeld'
  <1>1. mu.readers = {} /\ mu.writer = t
    BY ManagerAssumption DEF Writing, LockHeld
  <1>2. Alone(mu')
    BY UnlockFacts DEF TypeOK
  <1>3. \A u \in Client \cup Syncer : pc'[u] \notin Body
    BY <1>1 DEF LockHeld, Reading
  <1>4. \A u \in Stopper : pc'[u] # "raftwait"
    BY <1>1 DEF LockHeld, Writing
  <1> QED BY <1>2, <1>3, <1>4 DEF LockHeld, Alone

LEMMA ReturnLock ==
  ASSUME TypeOK, LockHeld, NEW t \in Client \cup Syncer, Return(t)
  PROVE  LockHeld'
  <1>1. mu \in Rw!Mutex /\ Alone(mu) /\ t \in mu.readers
    BY DEF TypeOK, LockHeld, Alone, Return, Body, Reading
  <1>2. Alone(mu') /\ mu.writer = None /\ mu'.readers = mu.readers \ {t}
    BY <1>1, RUnlockFacts DEF Return
  <1>3. pc'[t] \notin Body
    BY DEF Return, Goto, TypeOK, Body, Thread
  <1>4. \A u \in Client \cup Syncer : pc'[u] \in Body => Reading(u)'
    BY <1>2, <1>3 DEF LockHeld, Return, Goto, TypeOK, Reading
  <1>5. \A u \in Stopper : pc'[u] # "raftwait"
    BY <1>2, ManagerAssumption DEF LockHeld, Return, Goto, TypeOK, Writing, Thread
  <1> QED BY <1>2, <1>4, <1>5 DEF LockHeld, Alone

\* A step of one goroutine that leaves the lock alone.
LEMMA MoveLock ==
  ASSUME TypeOK, LockHeld, NEW t \in Client \cup Syncer, NEW l, mu' = mu,
         pc' = [pc EXCEPT ![t] = l],
         l \in Body => pc[t] \in Body \/ Reading(t)
  PROVE  LockHeld'
  <1>1. t \notin Stopper /\ pc \in [Thread -> Label] /\ Client \cup Syncer \cup Stopper \subseteq Thread
    BY ManagerAssumption DEF TypeOK, Thread
  <1>2. \A u \in Client \cup Syncer : pc'[u] \in Body => pc[u] \in Body \/ Reading(u)
    BY <1>1
  <1>3. \A u \in Stopper : pc'[u] = pc[u]
    BY <1>1
  <1> QED BY <1>2, <1>3, SameLock

\* A step of one goroutine that asks for the lock.
LEMMA AskMove ==
  ASSUME TypeOK, LockHeld, NEW t \in Thread, NEW l, l \notin Body, l # "raftwait",
         pc' = [pc EXCEPT ![t] = l],
         mu' = Rw!RLock(mu, t) \/ mu' = Rw!Lock(mu, t)
  PROVE  LockHeld'
  <1>1. pc \in [Thread -> Label] /\ Client \cup Syncer \cup Stopper \subseteq Thread
    BY DEF TypeOK, Thread
  <1>2. \A u \in Thread : pc'[u] = pc[u] \/ pc'[u] = l
    BY <1>1
  <1>3. \A u \in Client \cup Syncer : pc'[u] \in Body => pc[u] \in Body
    BY <1>1, <1>2
  <1>4. \A u \in Stopper : pc'[u] = "raftwait" => pc[u] = "raftwait"
    BY <1>1, <1>2
  <1> QED BY <1>3, <1>4, AskLock

LEMMA ServeLock ==
  ASSUME TypeOK, LockHeld, NEW t \in Client,
         Serve(t) \/ \E o \in Ask : Call(t, o)
  PROVE  LockHeld'
  <1> USE DEF Goto, Answer
  <1>1. t \in Thread /\ t \in Client \cup Syncer
    BY DEF Thread
  <1>2. ASSUME NEW o \in Ask, Call(t, o) PROVE LockHeld'
    BY <1>1, <1>2, AskMove DEF Call, Body
  <1>3. CASE NotRunning(t)
    BY <1>1, <1>3, MoveLock DEF NotRunning
  <1>4. CASE Read(t)
    BY <1>1, <1>4, MoveLock DEF Read
  <1>5. CASE ReadDone(t)
    BY <1>1, <1>5, MoveLock DEF ReadDone, Body
  <1>6. CASE Commit(t)
    BY <1>6, SameLock DEF Commit
  <1>7. CASE Propose(t)
    BY <1>1, <1>7, MoveLock DEF Propose
  <1> HIDE DEF Goto, Answer
  <1> QED BY <1>1, <1>2, <1>3, <1>4, <1>5, <1>6, <1>7, ReturnLock DEF Serve

LEMMA SyncLock ==
  ASSUME TypeOK, LockHeld, NEW t \in Syncer,
         Sync(t) \/ (t = Loop /\ (LoopGate \/ LoopSkip \/ LoopSync))
  PROVE  LockHeld'
  <1> USE DEF Goto, Answer
  <1>1. t \in Thread /\ t \in Client \cup Syncer
    BY DEF Thread
  <1>2. CASE SyncCall(t)
    BY <1>1, <1>2, AskMove DEF SyncCall, Body
  <1>3. CASE t = Loop /\ LoopSync
    BY <1>1, <1>3, AskMove DEF LoopSync, Body
  <1>4. CASE t = Loop /\ LoopGate
    BY <1>1, <1>4, MoveLock DEF LoopGate, Body
  <1>5. CASE t = Loop /\ LoopSkip
    BY <1>1, <1>5, MoveLock DEF LoopSkip, Body
  <1>6. CASE SyncStart(t)
    BY <1>1, <1>6, MoveLock DEF SyncStart
  <1>7. CASE SyncSnapshot(t)
    BY <1>1, <1>7, MoveLock DEF SyncSnapshot, Body
  <1>8. CASE SyncStamp(t)
    BY <1>1, <1>8, MoveLock DEF SyncStamp, Body
  <1>9. CASE FsmSnapshot(t)
    BY <1>1, <1>9, MoveLock DEF FsmSnapshot, Body
  <1>10. CASE Persisted(t)
    BY <1>1, <1>10, MoveLock DEF Persisted, Body
  <1>11. CASE PersistFails(t)
    BY <1>1, <1>11, MoveLock DEF PersistFails, Body
  <1>12. ASSUME NEW k \in Key, SyncKey(t, k) \/ SyncKeyFails(t, k) PROVE LockHeld'
    BY <1>12, SameLock DEF SyncKey, SyncKeyFails
  <1> HIDE DEF Goto, Answer
  <1> QED BY <1>1, <1>2, <1>3, <1>4, <1>5, <1>6, <1>7, <1>8, <1>9, <1>10, <1>11,
             <1>12, ReturnLock DEF Sync

LEMMA StopLock ==
  ASSUME TypeOK, LockHeld, NEW t \in Stopper, StopCall(t) \/ Stop(t)
  PROVE  LockHeld'
  <1> USE DEF Goto, Body
  <1>1. t \in Thread /\ pc \in [Thread -> Label] /\ t \notin Client \cup Syncer
    BY ManagerAssumption DEF TypeOK, Thread
  <1>2. CASE StopCall(t)
    BY <1>1, <1>2, AskLock DEF StopCall
  <1>3. CASE StopAgain(t)
    BY <1>1, <1>3, DropLock DEF StopAgain
  <1>4. CASE StopRaft(t)
    BY <1>1, <1>4, SameLock DEF StopRaft
  <1>5. CASE StopClose(t)
    <2>1. Writing(t)
      BY <1>5 DEF StopClose, LockHeld
    <2> QED BY <1>1, <1>5, <2>1, DropLock DEF StopClose
  <1> QED BY <1>2, <1>3, <1>4, <1>5 DEF Stop

\* Completing the futures of clients: they were in a body already.
LEMMA CompleteLock ==
  ASSUME TypeOK, LockHeld, mu' = mu \/ (Writing(Fsm) /\ mu' \in Rw!Unlock(mu)),
         NEW T, NEW a, NEW f, Complete(T, a, f), T \subseteq Client \cup {None},
         \A u \in Client \cup Syncer \cup Stopper : f[u] = pc[u]
  PROVE  LockHeld'
  <1>1. Fsm \in Thread /\ Client \cup Syncer \cup Stopper \subseteq Thread
    BY DEF Thread
  <1>2. \A u \in Client \cup Syncer : pc'[u] \in Body => pc[u] \in Body
    BY <1>1 DEF Complete, Body
  <1>3. \A u \in Stopper : pc'[u] = pc[u] /\ u # Fsm
    BY <1>1, ManagerAssumption DEF Complete
  <1>4. CASE mu' = mu
    BY <1>2, <1>3, <1>4, SameLock
  <1>5. CASE Writing(Fsm) /\ mu' \in Rw!Unlock(mu)
    BY <1>1, <1>2, <1>3, <1>5, DropLock
  <1> QED BY <1>4, <1>5

LEMMA FsmLock ==
  ASSUME TypeOK, LockHeld, FsmStep \/ Elect \/ StepDown \/ RemoteCommit
  PROVE  LockHeld'
  <1>1. /\ Fsm \in Thread /\ Fsm \notin Client \cup Syncer \cup Stopper
        /\ Client \cup Syncer \cup Stopper \subseteq Thread
        /\ pc \in [Thread -> Label] /\ cur \in Entry
    BY ManagerAssumption DEF TypeOK, Thread
  <1>2. CASE FsmTake \/ FsmExit
    <2>1. \A u \in Client \cup Syncer \cup Stopper : pc'[u] = pc[u]
      BY <1>1, <1>2 DEF FsmTake, FsmExit, Goto
    <2>2. mu' = mu
      BY <1>2 DEF FsmTake, FsmExit
    <2> QED BY <2>1, <2>2, SameLock
  <1>3. ASSUME NEW a, Respond(a), mu' = mu \/ (Writing(Fsm) /\ mu' \in Rw!Unlock(mu))
        PROVE  LockHeld'
    <2> DEFINE f == [pc EXCEPT ![Fsm] = "idle"]
    <2>1. Complete({cur.who}, a, f)
      BY <1>3 DEF Respond
    <2>2. \A u \in Client \cup Syncer \cup Stopper : f[u] = pc[u]
      BY <1>1
    <2>3. {cur.who} \subseteq Client \cup {None}
      BY <1>1 DEF Entry
    <2> HIDE DEF f
    <2> QED BY <1>3, <2>1, <2>2, <2>3, CompleteLock
  <1>4. CASE FsmReject
    BY <1>3, <1>4 DEF FsmReject
  <1>5. ASSUME NEW k \in Key, FsmExec(k) PROVE LockHeld'
    BY <1>1, <1>5, AskMove DEF FsmExec, Goto, Body
  <1>6. CASE FsmStamp
    BY <1>3, <1>6 DEF FsmStamp
  <1>7. CASE Elect \/ RemoteCommit
    BY <1>7, SameLock DEF Elect, RemoteCommit
  <1>8. CASE StepDown
    <2>1. pending \subseteq Client \cup {None} /\ mu' = mu
      BY <1>8 DEF TypeOK, StepDown
    <2> QED BY <1>8, <2>1, CompleteLock DEF StepDown
  <1> QED BY <1>2, <1>4, <1>5, <1>6, <1>7, <1>8 DEF FsmStep

-----------------------------------------------------------------------------
(* Shutdown comes in order *)

Using == {"reading", "waiting", "sync", "snapshot", "persist", "stamp"}

Order == StopOrder /\ StopOnce /\ SafeClose

\* Steps other than those of Shutdown and of the end of Raft: they begin to use
\* the connectors only on a running manager or on a leader.
LEMMA SameOrder ==
  ASSUME Order, isRunning' = isRunning, stopCh' = stopCh, connected' = connected,
         raft' = raft, leading' => raft = "up",
         pc'[Fsm] = "done" <=> pc[Fsm] = "done",
         \A u \in Client \cup Syncer :
           pc'[u] \in Using => pc[u] \in Using \/ isRunning \/ leading
  PROVE  Order'
  <1>1. StopOrder' /\ StopOnce'
    BY DEF Order, StopOrder, StopOnce
  <1>2. SafeClose'
    BY DEF Order, StopOrder, SafeClose, Using
  <1> QED BY <1>1, <1>2 DEF Order

LEMMA MoveOrder ==
  ASSUME TypeOK, Order, NEW t \in Client \cup Syncer \cup Stopper, NEW l,
         pc' = [pc EXCEPT ![t] = l],
         UNCHANGED <<isRunning, stopCh, connected, raft, leading>>,
         l \in Using => pc[t] \in Using \/ isRunning \/ leading
  PROVE  Order'
  <1>1. Fsm # t /\ pc \in [Thread -> Label] /\ Fsm \in Thread /\ Client \cup Syncer \subseteq Thread
    BY ManagerAssumption DEF TypeOK, Thread
  <1>2. pc'[Fsm] = pc[Fsm]
    BY <1>1
  <1>3. \A u \in Client \cup Syncer :
           pc'[u] \in Using => pc[u] \in Using \/ isRunning \/ leading
    BY <1>1
  <1>4. leading' => raft = "up"
    BY DEF Order, StopOrder
  <1> QED BY <1>2, <1>3, <1>4, SameOrder

LEMMA ServeOrder ==
  ASSUME TypeOK, Order, NEW t \in Client, Serve(t) \/ \E o \in Ask : Call(t, o)
  PROVE  Order'
  <1> USE DEF Goto, Answer, raftVars
  <1>1. t \in Client \cup Syncer \cup Stopper
    OBVIOUS
  <1>2. ASSUME NEW o \in Ask, Call(t, o) PROVE Order'
    BY <1>1, <1>2, MoveOrder DEF Call, Using
  <1>3. CASE NotRunning(t)
    BY <1>1, <1>3, MoveOrder DEF NotRunning, Using
  <1>4. CASE Read(t)
    BY <1>1, <1>4, MoveOrder DEF Read
  <1>5. CASE ReadDone(t)
    BY <1>1, <1>5, MoveOrder DEF ReadDone, Using
  <1>6. CASE Commit(t)
    BY <1>6, SameOrder DEF Commit, Order, StopOrder
  <1>7. CASE Propose(t)
    BY <1>1, <1>7, MoveOrder DEF Propose, Using
  <1>8. CASE Return(t)
    BY <1>1, <1>8, MoveOrder DEF Return, Using
  <1> HIDE DEF Goto, Answer
  <1> QED BY <1>2, <1>3, <1>4, <1>5, <1>6, <1>7, <1>8 DEF Serve

LEMMA SyncOrder ==
  ASSUME TypeOK, Order, NEW t \in Syncer,
         Sync(t) \/ (t = Loop /\ (LoopGate \/ LoopSkip \/ LoopSync))
  PROVE  Order'
  <1> USE DEF Goto, Answer, raftVars
  <1>1. t \in Client \cup Syncer \cup Stopper
    OBVIOUS
  <1>2. CASE SyncCall(t)
    BY <1>1, <1>2, MoveOrder DEF SyncCall, Using
  <1>3. CASE t = Loop /\ LoopSync
    BY <1>1, <1>3, MoveOrder DEF LoopSync, Using
  <1>4. CASE t = Loop /\ LoopGate
    BY <1>1, <1>4, MoveOrder DEF LoopGate, Using
  <1>5. CASE t = Loop /\ LoopSkip
    BY <1>1, <1>5, MoveOrder DEF LoopSkip, Using
  <1>6. CASE SyncStart(t)
    BY <1>1, <1>6, MoveOrder DEF SyncStart, Using
  <1>7. CASE SyncSnapshot(t)
    BY <1>1, <1>7, MoveOrder DEF SyncSnapshot, Using
  <1>8. CASE SyncStamp(t)
    BY <1>1, <1>8, MoveOrder DEF SyncStamp, Using
  <1>9. CASE FsmSnapshot(t)
    BY <1>1, <1>9, MoveOrder DEF FsmSnapshot, Using
  <1>10. CASE Persisted(t)
    BY <1>1, <1>10, MoveOrder DEF Persisted, Using
  <1>11. CASE PersistFails(t)
    BY <1>1, <1>11, MoveOrder DEF PersistFails, Using
  <1>12. CASE Return(t)
    BY <1>1, <1>12, MoveOrder DEF Return, Using
  <1>13. ASSUME NEW k \in Key, SyncKey(t, k) \/ SyncKeyFails(t, k) PROVE Order'
    BY <1>13, SameOrder DEF SyncKey, SyncKeyFails, Order, StopOrder
  <1> HIDE DEF Goto, Answer
  <1> QED BY <1>2, <1>3, <1>4, <1>5, <1>6, <1>7, <1>8, <1>9, <1>10, <1>11, <1>12,
             <1>13 DEF Sync

\* Nobody uses the connectors while Shutdown holds the lock.
LEMMA CloseIsSafe ==
  ASSUME TypeOK, LockHeld, Order, NEW t \in Stopper, StopClose(t)
  PROVE  Order'
  <1>1. /\ t # Fsm /\ t \notin Client \cup Syncer /\ t # None
        /\ pc \in [Thread -> Label] /\ Fsm \in Thread /\ Client \cup Syncer \subseteq Thread
    BY ManagerAssumption DEF TypeOK, Thread
  <1>2. Writing(t) /\ mu.readers = {}
    BY <1>1 DEF StopClose, LockHeld, Writing
  <1>3. \A u \in Client \cup Syncer : pc[u] \notin Body
    BY <1>2 DEF LockHeld, Reading
  <1>4. pc'[Fsm] = pc[Fsm] /\ \A u \in Client \cup Syncer : pc'[u] = pc[u]
    BY <1>1 DEF StopClose, Goto
  <1>5. pc'[Fsm] = "done" /\ raft = "stopped"
    BY <1>4 DEF StopClose, Order, StopOrder
  <1>6. SafeClose'
    BY <1>3, <1>4, <1>5 DEF SafeClose, Body
  <1>7. StopOrder' /\ StopOnce'
    BY <1>4, <1>5 DEF StopClose, Order, StopOrder, StopOnce, raftVars
  <1> QED BY <1>6, <1>7 DEF Order

LEMMA StopOrderStep ==
  ASSUME TypeOK, LockHeld, Order, NEW t \in Stopper, StopCall(t) \/ Stop(t)
  PROVE  Order'
  <1>1. /\ t # Fsm /\ t \notin Client \cup Syncer
        /\ pc \in [Thread -> Label] /\ Fsm \in Thread /\ Client \cup Syncer \subseteq Thread
        /\ t \in Client \cup Syncer \cup Stopper
    BY ManagerAssumption DEF TypeOK, Thread
  <1>2. CASE StopCall(t)
    BY <1>1, <1>2, MoveOrder DEF StopCall, Goto, raftVars, Using
  <1>3. CASE StopAgain(t)
    BY <1>1, <1>3, MoveOrder DEF StopAgain, Goto, raftVars, Using
  <1>4. CASE StopRaft(t)
    <2>1. pc'[Fsm] = pc[Fsm]
      BY <1>1, <1>4 DEF StopRaft, Goto
    <2>2. raft = "up" /\ pc[Fsm] # "done" /\ connected
      BY <1>4 DEF StopRaft, Order, StopOrder
    <2>3. StopOrder' /\ SafeClose'
      BY <1>4, <2>1, <2>2 DEF StopRaft, StopOrder, SafeClose
    <2>4. StopOnce'
      BY <1>4 DEF StopRaft, Order, StopOnce
    <2> QED BY <2>3, <2>4 DEF Order
  <1> QED BY <1>2, <1>3, <1>4, CloseIsSafe DEF Stop

LEMMA CompleteOrder ==
  ASSUME Order, NEW T, NEW a, NEW f, Complete(T, a, f), Fsm \notin T,
         \A u \in Client \cup Syncer : f[u] = pc[u],
         f[Fsm] = "done" <=> pc[Fsm] = "done",
         UNCHANGED <<isRunning, stopCh, connected, raft>>, leading' => leading
  PROVE  Order'
  <1>1. Fsm \in Thread /\ Client \cup Syncer \subseteq Thread
    BY DEF Thread
  <1>2. pc'[Fsm] = f[Fsm]
    BY <1>1 DEF Complete
  <1>3. \A u \in Client \cup Syncer : pc'[u] \in Using => pc[u] \in Using
    BY <1>1 DEF Complete, Using
  <1>4. leading' => raft = "up"
    BY DEF Order, StopOrder
  <1> QED BY <1>2, <1>3, <1>4, SameOrder

LEMMA FsmOrder ==
  ASSUME TypeOK, Order, FsmStep \/ Elect \/ StepDown \/ RemoteCommit
  PROVE  Order'
  <1>1. /\ Fsm \in Thread /\ Fsm \notin Client \cup Syncer
        /\ Client \cup Syncer \subseteq Thread
        /\ pc \in [Thread -> Label] /\ cur \in Entry /\ Fsm \notin Client \cup {None}
    BY ManagerAssumption DEF TypeOK, Thread
  <1>2. CASE FsmTake
    <2>1. pc'[Fsm] = "apply" /\ pc[Fsm] = "idle" /\ \A u \in Client \cup Syncer : pc'[u] = pc[u]
      BY <1>1, <1>2 DEF FsmTake, Goto
    <2> QED BY <1>2, <2>1, SameOrder DEF FsmTake, syncVars, Order, StopOrder
  <1>3. CASE FsmExit
    <2>1. pc'[Fsm] = "done" /\ \A u \in Client \cup Syncer : pc'[u] = pc[u]
      BY <1>1, <1>3 DEF FsmExit, Goto
    <2> QED BY <1>3, <2>1 DEF FsmExit, Order, StopOrder, StopOnce, SafeClose
  <1>4. ASSUME NEW a, Respond(a), pc[Fsm] # "done",
               UNCHANGED <<isRunning, stopCh, connected, raft, leading>>
        PROVE  Order'
    <2> DEFINE f == [pc EXCEPT ![Fsm] = "idle"]
    <2>1. Complete({cur.who}, a, f)
      BY <1>4 DEF Respond
    <2>2. f[Fsm] = "idle" /\ \A u \in Client \cup Syncer : f[u] = pc[u]
      BY <1>1
    <2>3. Fsm \notin {cur.who}
      BY <1>1 DEF Entry
    <2> HIDE DEF f
    <2> QED BY <1>4, <2>1, <2>2, <2>3, CompleteOrder
  <1>5. CASE FsmReject
    BY <1>4, <1>5 DEF FsmReject
  <1>6. CASE FsmStamp
    BY <1>4, <1>6 DEF FsmStamp
  <1>7. ASSUME NEW k \in Key, FsmExec(k) PROVE Order'
    <2>1. pc'[Fsm] = "callback" /\ pc[Fsm] = "apply" /\ \A u \in Client \cup Syncer : pc'[u] = pc[u]
      BY <1>1, <1>7 DEF FsmExec, Goto
    <2> QED BY <1>7, <2>1, SameOrder DEF FsmExec, raftVars, Order, StopOrder
  <1>8. CASE Elect \/ RemoteCommit
    BY <1>8, SameOrder DEF Elect, RemoteCommit, Order, StopOrder
  <1>9. CASE StepDown
    <2>1. Fsm \notin pending
      BY <1>1 DEF TypeOK
    <2> QED BY <1>9, <2>1, CompleteOrder DEF StepDown
  <1> QED BY <1>2, <1>3, <1>5, <1>6, <1>7, <1>8, <1>9 DEF FsmStep

-----------------------------------------------------------------------------
(* No write is hidden from the schedule *)

Syncing == {"sync", "snapshot", "persist", "stamp"}

Gate == SyncCatchesUp /\ Visited /\ GateCoversWrites

\* Steps that start no sync, end none, and record no write.
LEMMA SameGate ==
  ASSUME Gate, UNCHANGED <<due, unsynced, missed, left>>,
         pc[Fsm] = "callback" => pc'[Fsm] = "callback",
         \A u \in Syncer : pc'[u] = pc[u] \/ (pc[u] \notin Syncing /\ pc'[u] \notin Syncing)
  PROVE  Gate'
  <1>1. SyncCatchesUp'
    BY DEF Gate, SyncCatchesUp, InSync, Syncing
  <1>2. Visited'
    BY DEF Gate, Visited, Syncing
  <1>3. GateCoversWrites'
    BY DEF Gate, GateCoversWrites, InSync, Syncing
  <1> QED BY <1>1, <1>2, <1>3 DEF Gate

LEMMA MoveGate ==
  ASSUME TypeOK, Gate, NEW t \in Client \cup Syncer \cup Stopper, NEW l,
         pc' = [pc EXCEPT ![t] = l], UNCHANGED syncVars,
         t \notin Syncer \/ (pc[t] \notin Syncing /\ l \notin Syncing)
  PROVE  Gate'
  <1>1. /\ pc \in [Thread -> Label] /\ Fsm # t /\ Fsm \in Thread /\ t \in Thread
        /\ Syncer \subseteq Thread
    BY ManagerAssumption DEF TypeOK, Thread
  <1>2. pc'[Fsm] = pc[Fsm]
    BY <1>1
  <1>3. \A u \in Syncer : pc'[u] = pc[u] \/ (pc[u] \notin Syncing /\ pc'[u] \notin Syncing)
    BY <1>1
  <1>4. UNCHANGED <<due, unsynced, missed, left>>
    BY DEF syncVars
  <1> QED BY <1>2, <1>3, <1>4, SameGate

LEMMA ServeGate ==
  ASSUME TypeOK, Gate, NEW t \in Client, Serve(t) \/ \E o \in Ask : Call(t, o)
  PROVE  Gate'
  <1> USE DEF Goto, Answer
  <1>1. t \in Client \cup Syncer \cup Stopper /\ t \notin Syncer
    BY ManagerAssumption
  <1>2. ASSUME NEW o \in Ask, Call(t, o) PROVE Gate'
    BY <1>1, <1>2, MoveGate DEF Call
  <1>3. CASE NotRunning(t)
    BY <1>1, <1>3, MoveGate DEF NotRunning
  <1>4. CASE Read(t)
    BY <1>1, <1>4, MoveGate DEF Read
  <1>5. CASE ReadDone(t)
    BY <1>1, <1>5, MoveGate DEF ReadDone
  <1>6. CASE Commit(t)
    BY <1>6, SameGate DEF Commit, syncVars
  <1>7. CASE Propose(t)
    BY <1>1, <1>7, MoveGate DEF Propose
  <1>8. CASE Return(t)
    BY <1>1, <1>8, MoveGate DEF Return
  <1> HIDE DEF Goto, Answer
  <1> QED BY <1>2, <1>3, <1>4, <1>5, <1>6, <1>7, <1>8 DEF Serve

LEMMA StopGate ==
  ASSUME TypeOK, Gate, NEW t \in Stopper, StopCall(t) \/ Stop(t)
  PROVE  Gate'
  <1> USE DEF Goto
  <1>1. t \in Client \cup Syncer \cup Stopper /\ t \notin Syncer
    BY ManagerAssumption
  <1>2. CASE StopCall(t)
    BY <1>1, <1>2, MoveGate DEF StopCall
  <1>3. CASE StopAgain(t)
    BY <1>1, <1>3, MoveGate DEF StopAgain
  <1>4. CASE StopRaft(t)
    BY <1>1, <1>4, MoveGate DEF StopRaft
  <1>5. CASE StopClose(t)
    BY <1>1, <1>5, MoveGate DEF StopClose
  <1> QED BY <1>2, <1>3, <1>4, <1>5 DEF Stop

\* A step inside the body of SyncAll, from label to label.
LEMMA BodyGate ==
  ASSUME TypeOK, Gate, NEW t \in Syncer, NEW l \in Syncing, pc[t] \in Syncing,
         pc' = [pc EXCEPT ![t] = l], UNCHANGED <<due, unsynced, missed, left>>,
         l = "sync" \/ left[t] = {}
  PROVE  Gate'
  <1>1. /\ pc \in [Thread -> Label] /\ Fsm # t /\ t \in Thread /\ Fsm \in Thread
        /\ Syncer \subseteq Thread
    BY ManagerAssumption DEF TypeOK, Thread
  <1>2. /\ pc'[Fsm] = pc[Fsm] /\ pc'[t] = l
        /\ \A u \in Syncer \ {t} : pc'[u] = pc[u]
    BY <1>1
  <1>3. \A u \in Syncer : InSync(u) <=> InSync(u)'
    BY <1>2 DEF InSync, Syncing
  <1>4. SyncCatchesUp'
    BY <1>2, <1>3 DEF Gate, SyncCatchesUp
  <1>5. Visited'
    BY <1>2 DEF Gate, Visited
  <1>6. GateCoversWrites'
    BY <1>2, <1>3 DEF Gate, GateCoversWrites
  <1> QED BY <1>4, <1>5, <1>6 DEF Gate

\* SyncAll starts: it has every database still to visit.
LEMMA StartGate ==
  ASSUME TypeOK, Gate, NEW t \in Syncer, SyncStart(t)
  PROVE  Gate'
  <1>1. /\ pc \in [Thread -> Label] /\ left \in [Syncer -> SUBSET Key]
        /\ Fsm # t /\ t \in Thread /\ Fsm \in Thread /\ Syncer \subseteq Thread
        /\ t \in Client \cup Syncer \cup Stopper /\ unsynced \subseteq Key
    BY ManagerAssumption DEF TypeOK, Thread
  <1>2. CASE ~leading
    BY <1>1, <1>2, MoveGate DEF SyncStart, Answer, Syncing, syncVars
  <1>3. CASE leading
    <2>1. /\ pc' = [pc EXCEPT ![t] = "sync"] /\ left' = [left EXCEPT ![t] = Key]
          /\ due' = due /\ unsynced' = unsynced /\ missed' = missed
      BY <1>3 DEF SyncStart, Goto
    <2>2. /\ pc'[Fsm] = pc[Fsm] /\ pc'[t] = "sync" /\ left'[t] = Key
          /\ \A u \in Syncer \ {t} : pc'[u] = pc[u] /\ left'[u] = left[u]
      BY <1>1, <2>1
    <2>3. SyncCatchesUp'
      BY <1>1, <2>1, <2>2 DEF Gate, SyncCatchesUp, InSync
    <2>4. Visited'
      BY <2>2 DEF Gate, Visited
    <2>5. GateCoversWrites'
      BY <2>1, <2>2 DEF Gate, GateCoversWrites, InSync
    <2> QED BY <2>3, <2>4, <2>5 DEF Gate
  <1> QED BY <1>2, <1>3

\* SyncDatabase is called for one database, and succeeds or fails.
LEMMA VisitGate ==
  ASSUME TypeOK, Gate, NEW t \in Syncer, NEW k \in Key, SyncKey(t, k) \/ SyncKeyFails(t, k)
  PROVE  Gate'
  <1>1. /\ pc' = pc /\ due' = due /\ pc[t] = "sync"
        /\ left' = [left EXCEPT ![t] = left[t] \ {k}]
    BY DEF SyncKey, SyncKeyFails
  <1>2. /\ left'[t] = left[t] \ {k}
        /\ \A u \in Syncer \ {t} : left'[u] = left[u]
    BY <1>1 DEF TypeOK
  <1>3. \/ unsynced' = unsynced \ {k} /\ missed' = missed \ {k}
        \/ unsynced' = unsynced /\ missed' = missed \cup {k}
    BY DEF SyncKey, SyncKeyFails
  <1>4. SyncCatchesUp'
    BY <1>1, <1>2, <1>3 DEF Gate, SyncCatchesUp, InSync
  <1>5. Visited'
    BY <1>1, <1>2 DEF Gate, Visited
  <1>6. GateCoversWrites'
    BY <1>1 DEF GateCoversWrites, InSync
  <1> QED BY <1>4, <1>5, <1>6 DEF Gate

\* SyncAll stamps or gives up: it has visited every database, and what is
\* still unsynchronised failed, or its callback is to come.
LEMMA EndGate ==
  ASSUME TypeOK, Gate, NEW t \in Syncer, SyncStamp(t) \/ PersistFails(t)
  PROVE  Gate'
  <1>1. /\ pc \in [Thread -> Label] /\ Fsm # t /\ t \in Thread /\ Fsm \in Thread
        /\ Syncer \subseteq Thread
    BY ManagerAssumption DEF TypeOK, Thread
  <1>2. /\ pc' = [pc EXCEPT ![t] = "answered"]
        /\ unsynced' = unsynced /\ missed' = missed /\ left' = left
    BY DEF SyncStamp, PersistFails, Answer, syncVars
  <1>3. /\ pc'[Fsm] = pc[Fsm] /\ pc'[t] = "answered"
        /\ \A u \in Syncer \ {t} : pc'[u] = pc[u]
    BY <1>1, <1>2
  <1>4. left[t] = {} /\ InSync(t)
    BY DEF Gate, Visited, SyncStamp, PersistFails, InSync
  <1>5. pc[Fsm] = "callback" \/ unsynced \subseteq missed
    BY <1>4 DEF Gate, SyncCatchesUp
  <1>6. SyncCatchesUp'
    BY <1>2, <1>3 DEF Gate, SyncCatchesUp, InSync
  <1>7. Visited'
    BY <1>2, <1>3 DEF Gate, Visited
  <1>8. GateCoversWrites'
    BY <1>2, <1>3, <1>5 DEF GateCoversWrites
  <1> QED BY <1>6, <1>7, <1>8 DEF Gate

LEMMA SyncGate ==
  ASSUME TypeOK, Gate, NEW t \in Syncer,
         Sync(t) \/ (t = Loop /\ (LoopGate \/ LoopSkip \/ LoopSync))
  PROVE  Gate'
  <1> USE DEF Goto, Answer
  <1>1. t \in Client \cup Syncer \cup Stopper
    OBVIOUS
  <1>2. CASE SyncCall(t)
    BY <1>1, <1>2, MoveGate DEF SyncCall, Syncing
  <1>3. CASE t = Loop /\ LoopSync
    BY <1>1, <1>3, MoveGate DEF LoopSync, Syncing
  <1>4. CASE t = Loop /\ LoopGate
    BY <1>1, <1>4, MoveGate DEF LoopGate, Syncing
  <1>5. CASE t = Loop /\ LoopSkip
    BY <1>1, <1>5, MoveGate DEF LoopSkip, Syncing
  <1>6. CASE Return(t)
    BY <1>1, <1>6, MoveGate DEF Return, Syncing
  <1>7. CASE SyncSnapshot(t)
    BY <1>7, BodyGate DEF SyncSnapshot, syncVars, Syncing
  <1>8. CASE FsmSnapshot(t)
    <2>1. left[t] = {}
      BY <1>8 DEF FsmSnapshot, Gate, Visited
    <2> QED BY <1>8, <2>1, BodyGate DEF FsmSnapshot, syncVars, Syncing
  <1>9. CASE Persisted(t)
    <2>1. left[t] = {}
      BY <1>9 DEF Persisted, Gate, Visited
    <2> QED BY <1>9, <2>1, BodyGate DEF Persisted, syncVars, Syncing
  <1> HIDE DEF Goto, Answer
  <1> QED BY <1>2, <1>3, <1>4, <1>5, <1>6, <1>7, <1>8, <1>9, StartGate, VisitGate,
             EndGate DEF Sync

LEMMA CompleteGate ==
  ASSUME Gate, NEW T, NEW a, NEW f, Complete(T, a, f), Fsm \notin T,
         T \cap Syncer = {}, \A u \in Syncer : f[u] = pc[u],
         pc[Fsm] = "callback" => f[Fsm] = "callback", UNCHANGED syncVars
  PROVE  Gate'
  <1>1. Fsm \in Thread /\ Syncer \subseteq Thread
    BY DEF Thread
  <1>2. pc'[Fsm] = f[Fsm] /\ \A u \in Syncer : pc'[u] = pc[u]
    BY <1>1 DEF Complete
  <1> QED BY <1>2, SameGate DEF syncVars

\* The callback has the lock, so no sync is under way; afterwards the gate is
\* open.
LEMMA StampGate ==
  ASSUME TypeOK, LockHeld, Gate, FsmStamp
  PROVE  Gate'
  <1>1. Fsm # None
    BY ManagerAssumption DEF Thread
  <1>2. \A u \in Syncer : pc[u] \notin Body
    BY <1>1 DEF FsmStamp, Writing, LockHeld, Reading
  <1>3. \A u \in Syncer : pc'[u] = pc[u]
    <2>1. Syncer \subseteq Thread /\ Fsm \notin Syncer /\ pc \in [Thread -> Label]
      BY ManagerAssumption DEF Thread, TypeOK
    <2>2. \A u \in Syncer : pc[u] # "waiting" /\ [pc EXCEPT ![Fsm] = "idle"][u] = pc[u]
      BY <1>2, <2>1 DEF Body
    <2> QED BY <2>1, <2>2 DEF FsmStamp, Respond, Complete
  <1>4. \A u \in Syncer : pc'[u] \notin Body
    BY <1>2, <1>3
  <1>5. due' = TRUE
    BY DEF FsmStamp
  <1> QED BY <1>4, <1>5 DEF Gate, SyncCatchesUp, Visited, GateCoversWrites, InSync, Body

LEMMA FsmGate ==
  ASSUME TypeOK, LockHeld, Gate, FsmStep \/ Elect \/ StepDown \/ RemoteCommit
  PROVE  Gate'
  <1>1. /\ Fsm \in Thread /\ Fsm \notin Syncer /\ Syncer \subseteq Thread
        /\ pc \in [Thread -> Label] /\ cur \in Entry
        /\ Fsm \notin Client \cup {None} /\ (Client \cup {None}) \cap Syncer = {}
    BY ManagerAssumption DEF TypeOK, Thread
  <1>2. CASE FsmTake
    <2>1. pc[Fsm] = "idle" /\ \A u \in Syncer : pc'[u] = pc[u]
      BY <1>1, <1>2 DEF FsmTake, Goto
    <2> QED BY <1>2, <2>1, SameGate DEF FsmTake, syncVars
  <1>3. CASE FsmExit
    <2>1. pc[Fsm] = "idle" /\ \A u \in Syncer : pc'[u] = pc[u]
      BY <1>1, <1>3 DEF FsmExit, Goto
    <2> QED BY <1>3, <2>1, SameGate DEF FsmExit, syncVars
  <1>4. CASE FsmReject
    <2> DEFINE f == [pc EXCEPT ![Fsm] = "idle"]
    <2>1. PICK a : Complete({cur.who}, a, f)
      BY <1>4 DEF FsmReject, Respond
    <2>2. pc[Fsm] # "callback" /\ \A u \in Syncer : f[u] = pc[u]
      BY <1>1, <1>4 DEF FsmReject
    <2>3. Fsm \notin {cur.who} /\ {cur.who} \cap Syncer = {}
      BY <1>1 DEF Entry
    <2>4. UNCHANGED syncVars
      BY <1>4 DEF FsmReject
    <2> HIDE DEF f
    <2> QED BY <2>1, <2>2, <2>3, <2>4, CompleteGate
  <1>5. ASSUME NEW k \in Key, FsmExec(k) PROVE Gate'
    <2>1. pc'[Fsm] = "callback" /\ \A u \in Syncer : pc'[u] = pc[u]
      BY <1>1, <1>5 DEF FsmExec, Goto
    <2>2. left' = left
      BY <1>5 DEF FsmExec
    <2> QED BY <2>1, <2>2 DEF Gate, SyncCatchesUp, Visited, GateCoversWrites
  <1>6. CASE Elect \/ RemoteCommit
    BY <1>6, SameGate DEF Elect, RemoteCommit, syncVars
  <1>7. CASE StepDown
    <2>1. Fsm \notin pending /\ pending \cap Syncer = {}
      BY <1>1 DEF TypeOK
    <2> QED BY <1>7, <2>1, CompleteGate DEF StepDown
  <1> QED BY <1>2, <1>3, <1>4, <1>5, <1>6, <1>7, StampGate DEF FsmStep

-----------------------------------------------------------------------------
(* A wedged manager stays wedged *)

\* A goroutine that does not wait for the FSM goroutine moves: it may ask for the
\* lock, or return its own.
LEMMA MoveWedge ==
  ASSUME TypeOK, LockHeld, Wedged, NEW t \in Thread, t # Fsm, NEW l,
         pc' = [pc EXCEPT ![t] = l],
         pc[t] \notin {"waiting", "snapshot", "raftwait"},
         pending' \subseteq pending \cup {t},
         \/ mu' = mu \/ mu' = Rw!RLock(mu, t) \/ mu' = Rw!Lock(mu, t)
         \/ t \in mu.readers /\ mu' = Rw!RUnlock(mu, t)
  PROVE  Wedged'
  <1>1. /\ pc \in [Thread -> Label] /\ mu \in Rw!Mutex /\ Alone(mu)
        /\ mu.readers \subseteq Thread /\ Fsm \in Thread
        /\ Stopper \subseteq Thread /\ None \notin Stopper
    BY ManagerAssumption DEF TypeOK, LockHeld, Alone, Thread, Rw!Mutex
  <1>2. \A u \in Thread \ {t} : pc'[u] = pc[u]
    BY <1>1
  <1>3. mu.readers \ {t} \subseteq mu'.readers /\ (mu.writer # None => mu'.writer = mu.writer)
    <2>1. CASE mu' = Rw!RLock(mu, t)
      BY <1>1, <2>1, RLockFacts
    <2>2. CASE mu' = Rw!Lock(mu, t)
      BY <1>1, <2>2, LockFacts
    <2>3. CASE t \in mu.readers /\ mu' = Rw!RUnlock(mu, t)
      BY <1>1, <2>3, RUnlockFacts
    <2> QED BY <2>1, <2>2, <2>3
  <1>4. \A u \in Stopper : Writing(u) => Writing(u)'
    BY <1>1, <1>3 DEF Writing
  <1>5. pc'[Fsm] = "callback"
    BY <1>1, <1>2 DEF Wedged
  <1>6. CASE \E u \in mu.readers : (pc[u] = "waiting" /\ u \notin pending) \/ pc[u] = "snapshot"
    <2>1. PICK u \in mu.readers : (pc[u] = "waiting" /\ u \notin pending) \/ pc[u] = "snapshot"
      BY <1>6
    <2>2. u # t
      BY <2>1
    <2>3. u \in mu'.readers /\ pc'[u] = pc[u] /\ (u \notin pending => u \notin pending')
      BY <1>1, <1>2, <1>3, <2>2
    <2> QED BY <1>5, <2>1, <2>3 DEF Wedged
  <1>7. CASE \E u \in Stopper : Writing(u) /\ pc[u] = "raftwait"
    BY <1>1, <1>2, <1>4, <1>5, <1>7 DEF Wedged
  <1> QED BY <1>6, <1>7 DEF Wedged

\* No goroutine takes the lock of a wedged manager to write.
LEMMA WedgedWriter ==
  ASSUME TypeOK, LockHeld, Wedged, NEW t \in Thread, Writing(t)
  PROVE  t \in Stopper /\ pc[t] = "raftwait"
  BY ManagerAssumption DEF Wedged, LockHeld, Writing, Thread

LEMMA ServeWedge ==
  ASSUME TypeOK, LockHeld, Wedged, NEW t \in Client,
         Serve(t) \/ \E o \in Ask : Call(t, o)
  PROVE  Wedged'
  <1> USE DEF Goto, Answer, raftVars
  <1>1. t \in Thread /\ t # Fsm
    BY ManagerAssumption DEF Thread
  <1>2. ASSUME NEW o \in Ask, Call(t, o) PROVE Wedged'
    BY <1>1, <1>2, MoveWedge DEF Call
  <1>3. CASE NotRunning(t)
    BY <1>1, <1>3, MoveWedge DEF NotRunning
  <1>4. CASE Read(t)
    BY <1>1, <1>4, MoveWedge DEF Read
  <1>5. CASE ReadDone(t)
    BY <1>1, <1>5, MoveWedge DEF ReadDone
  <1>6. CASE Propose(t)
    BY <1>1, <1>6, MoveWedge DEF Propose
  <1>7. CASE Commit(t)
    BY <1>7 DEF Commit, Wedged, Writing
  <1>8. CASE Return(t)
    <2>1. t \in mu.readers
      BY <1>8 DEF Return, LockHeld, Body, Reading
    <2> QED BY <1>1, <1>8, <2>1, MoveWedge DEF Return
  <1> QED BY <1>2, <1>3, <1>4, <1>5, <1>6, <1>7, <1>8 DEF Serve

LEMMA SyncWedge ==
  ASSUME TypeOK, LockHeld, Wedged, NEW t \in Syncer,
         Sync(t) \/ (t = Loop /\ (LoopGate \/ LoopSkip \/ LoopSync))
  PROVE  Wedged'
  <1> USE DEF Goto, Answer, raftVars
  <1>1. t \in Thread /\ t # Fsm
    BY ManagerAssumption DEF Thread
  <1>2. CASE SyncCall(t)
    BY <1>1, <1>2, MoveWedge DEF SyncCall
  <1>3. CASE t = Loop /\ LoopSync
    BY <1>1, <1>3, MoveWedge DEF LoopSync
  <1>4. CASE t = Loop /\ LoopGate
    BY <1>1, <1>4, MoveWedge DEF LoopGate
  <1>5. CASE t = Loop /\ LoopSkip
    BY <1>1, <1>5, MoveWedge DEF LoopSkip
  <1>6. CASE SyncStart(t)
    BY <1>1, <1>6, MoveWedge DEF SyncStart
  <1>7. CASE SyncSnapshot(t)
    BY <1>1, <1>7, MoveWedge DEF SyncSnapshot
  <1>8. CASE SyncStamp(t)
    BY <1>1, <1>8, MoveWedge DEF SyncStamp
  <1>9. CASE FsmSnapshot(t)
    BY <1>9 DEF FsmSnapshot, Wedged
  <1>10. CASE Persisted(t)
    BY <1>1, <1>10, MoveWedge DEF Persisted
  <1>11. CASE PersistFails(t)
    BY <1>1, <1>11, MoveWedge DEF PersistFails
  <1>12. ASSUME NEW k \in Key, SyncKey(t, k) \/ SyncKeyFails(t, k) PROVE Wedged'
    BY <1>12 DEF SyncKey, SyncKeyFails, Wedged, Writing
  <1>13. CASE Return(t)
    <2>1. t \in mu.readers
      BY <1>13 DEF Return, LockHeld, Body, Reading
    <2> QED BY <1>1, <1>13, <2>1, MoveWedge DEF Return
  <1> QED BY <1>2, <1>3, <1>4, <1>5, <1>6, <1>7, <1>8, <1>9, <1>10, <1>11, <1>12,
             <1>13 DEF Sync

LEMMA StopWedge ==
  ASSUME TypeOK, LockHeld, Order, Wedged, NEW t \in Stopper, StopCall(t) \/ Stop(t)
  PROVE  Wedged'
  <1>1. t \in Thread /\ t # Fsm
    BY ManagerAssumption DEF Thread
  <1>2. CASE StopCall(t)
    BY <1>1, <1>2, MoveWedge DEF StopCall, Goto, raftVars
  <1>3. CASE StopAgain(t) \/ StopRaft(t)
    BY <1>1, <1>3, WedgedWriter DEF StopAgain, StopRaft
  <1>4. CASE StopClose(t)
    BY <1>4 DEF StopClose, Order, StopOrder, Wedged
  <1> QED BY <1>2, <1>3, <1>4 DEF Stop

LEMMA FsmWedge ==
  ASSUME TypeOK, LockHeld, Wedged, FsmStep \/ Elect \/ StepDown \/ RemoteCommit
  PROVE  Wedged'
  <1>1. /\ Fsm \in Thread /\ Fsm \notin Stopper /\ Stopper \subseteq Thread
        /\ pc \in [Thread -> Label] /\ mu.readers \subseteq Thread
    BY ManagerAssumption DEF TypeOK, Thread, Rw!Mutex
  <1>2. ~FsmTake /\ ~FsmReject /\ ~FsmExit /\ \A k \in Key : ~FsmExec(k)
    BY DEF FsmTake, FsmReject, FsmExit, FsmExec, Wedged
  <1>3. ~FsmStamp
    BY <1>1, WedgedWriter DEF FsmStamp
  <1>4. CASE Elect \/ RemoteCommit
    BY <1>4 DEF Elect, RemoteCommit, Wedged, Writing
  <1>5. CASE StepDown
    <2>1. mu' = mu /\ pending' = {} /\ Complete(pending, "lost", pc)
      BY <1>5 DEF StepDown
    <2>2. \A u \in Thread : pc[u] # "waiting" \/ u \notin pending => pc'[u] = pc[u]
      BY <2>1 DEF Complete
    <2> QED BY <1>1, <2>1, <2>2 DEF Wedged, Writing
  <1> QED BY <1>2, <1>3, <1>4, <1>5 DEF FsmStep

LEMMA NextWedge ==
  ASSUME IInv, Wedged, [Next]_vars
  PROVE  Wedged'
  <1> USE DEF IInv, Order
  <1>1. ASSUME NEW t \in Client, Serve(t) \/ \E o \in Ask : Call(t, o) PROVE Wedged'
    BY <1>1, ServeWedge
  <1>2. ASSUME NEW t \in Syncer,
               Sync(t) \/ (t = Loop /\ (LoopGate \/ LoopSkip \/ LoopSync))
        PROVE  Wedged'
    BY <1>2, SyncWedge
  <1>3. ASSUME NEW t \in Stopper, StopCall(t) \/ Stop(t) PROVE Wedged'
    BY <1>3, StopWedge
  <1>4. CASE FsmStep \/ Elect \/ StepDown \/ RemoteCommit
    BY <1>4, FsmWedge
  <1>5. CASE UNCHANGED vars
    BY <1>5 DEF vars, raftVars, Wedged, Writing
  <1> QED BY <1>1, <1>2, <1>3, <1>4, <1>5 DEF Next

-----------------------------------------------------------------------------
(* The futures of proposers *)

\* Each entry in its callback that a caller of this node proposed wedges the
\* manager: the proposer is still waiting, and it holds the lock.
OwnEntryWedges == pc[Fsm] = "callback" /\ cur.who # None => Wedged

\* A client that proposed waits in one place only: its entry is not committed, is
\* in the queue of the FSM goroutine, or is the one that goroutine applies.
Futures ==
  /\ \A t \in pending : pc[t] = "waiting"
  /\ \A i \in 1..Len(queue) : queue[i].who # None =>
       /\ pc[queue[i].who] = "waiting" /\ queue[i].who \notin pending
       /\ queue[i].who # cur.who
       /\ \A j \in 1..Len(queue) : queue[j].who = queue[i].who => j = i
  /\ cur.who # None => pc[cur.who] = "waiting" /\ cur.who \notin pending

LEMMA QueueWho ==
  ASSUME TypeOK
  PROVE  \A i \in 1..Len(queue) : queue[i].who \in Client \cup {None}
  <1>1. \A i \in 1..Len(queue) : queue[i] \in Entry
    BY DEF TypeOK
  <1> QED BY <1>1 DEF Entry

\* Steps of anyone but a proposer, its commit and the FSM goroutine.
LEMMA SameFutures ==
  ASSUME TypeOK, Futures, UNCHANGED <<pending, queue, cur>>,
         \A t \in Client : pc[t] = "waiting" => pc'[t] = "waiting"
  PROVE  Futures'
  <1>1. pending \subseteq Client /\ queue \in Seq(Entry) /\ cur.who \in Client \cup {None}
    BY DEF TypeOK, Entry
  <1>2. \A i \in 1..Len(queue) : queue[i].who \in Client \cup {None}
    BY QueueWho
  <1> QED BY <1>1, <1>2 DEF Futures

\* An entry of a client that waits nowhere else, or of another node.
LEMMA AppendFutures ==
  ASSUME TypeOK, Futures, NEW e \in Entry, queue' = Append(queue, e),
         cur' = cur, pc' = pc, pending' = pending \ {e.who},
         e.who # None => e.who \in pending
  PROVE  Futures'
  <1>1. queue \in Seq(Entry) /\ Len(queue) \in Nat
    BY DEF TypeOK
  <1>2. /\ Len(queue') = Len(queue) + 1
        /\ queue'[Len(queue) + 1] = e
        /\ \A i \in 1..Len(queue) : queue'[i] = queue[i]
    BY <1>1
  <1>3. \A i \in 1..Len(queue') : i = Len(queue) + 1 \/ i \in 1..Len(queue)
    BY <1>1, <1>2
  <1>4. \A t \in pending' : pc'[t] = "waiting"
    BY DEF Futures
  <1>5. cur.who # None => cur'.who # e.who /\ pc'[cur'.who] = "waiting" /\ cur'.who \notin pending'
    BY DEF Futures
  <1>6. ASSUME NEW i \in 1..Len(queue'), queue'[i].who # None
        PROVE  /\ pc'[queue'[i].who] = "waiting" /\ queue'[i].who \notin pending'
               /\ queue'[i].who # cur'.who
               /\ \A j \in 1..Len(queue') : queue'[j].who = queue'[i].who => j = i
    <2>1. CASE i \in 1..Len(queue)
      <3>1. queue'[i].who # e.who
        BY <1>2, <1>6, <2>1 DEF Futures
      <3> QED BY <1>2, <1>3, <1>6, <2>1, <3>1 DEF Futures
    <2>2. CASE i = Len(queue) + 1
      <3>1. e.who \in pending
        BY <1>2, <1>6, <2>2
      <3>2. pc[e.who] = "waiting" /\ \A j \in 1..Len(queue) : queue[j].who # e.who
        BY <1>2, <1>6, <2>2, <3>1 DEF Futures
      <3> QED BY <1>2, <1>3, <1>5, <1>6, <2>2, <3>1, <3>2
    <2> QED BY <1>3, <2>1, <2>2
  <1> QED BY <1>4, <1>5, <1>6 DEF Futures

LEMMA ServeFutures ==
  ASSUME TypeOK, Futures, NEW t \in Client, Serve(t) \/ \E o \in Ask : Call(t, o)
  PROVE  Futures'
  <1> USE DEF Goto, Answer, raftVars
  <1>1. /\ pc \in [Thread -> Label] /\ t \in Thread /\ Client \subseteq Thread
        /\ t # None /\ queue \in Seq(Entry) /\ cur \in Entry /\ pending \subseteq Client
    BY ManagerAssumption DEF TypeOK, Thread
  <1>2. ASSUME NEW l, pc' = [pc EXCEPT ![t] = l], pc[t] # "waiting"
        PROVE  \A u \in Client : pc[u] = "waiting" => pc'[u] = "waiting"
    BY <1>1, <1>2
  <1>3. ASSUME NEW o \in Ask, Call(t, o) PROVE Futures'
    BY <1>2, <1>3, SameFutures DEF Call
  <1>4. CASE NotRunning(t)
    BY <1>2, <1>4, SameFutures DEF NotRunning
  <1>5. CASE Read(t)
    BY <1>2, <1>5, SameFutures DEF Read
  <1>6. CASE ReadDone(t)
    BY <1>2, <1>6, SameFutures DEF ReadDone
  <1>7. CASE Return(t)
    BY <1>2, <1>7, SameFutures DEF Return
  <1>8. CASE Propose(t) /\ ~leading
    BY <1>2, <1>8, SameFutures DEF Propose
  <1>9. CASE Propose(t) /\ leading
    <2>1. /\ pc[t] = "rlock" /\ pc' = [pc EXCEPT ![t] = "waiting"]
          /\ pending' = pending \cup {t} /\ queue' = queue /\ cur' = cur
      BY <1>9 DEF Propose
    <2>2. \A i \in 1..Len(queue) : queue[i].who \in Client \cup {None}
      BY QueueWho
    <2>3. cur.who \in Client \cup {None}
      BY <1>1 DEF Entry
    <2>4. \A u \in pending' : pc'[u] = "waiting"
      BY <1>1, <2>1 DEF Futures
    <2>5. cur.who # None => cur.who # t /\ pc'[cur.who] = "waiting" /\ cur.who \notin pending'
      BY <1>1, <2>1, <2>3 DEF Futures
    <2>6. ASSUME NEW i \in 1..Len(queue), queue[i].who # None
          PROVE  /\ pc'[queue[i].who] = "waiting" /\ queue[i].who \notin pending'
                 /\ queue[i].who # cur.who
                 /\ \A j \in 1..Len(queue) : queue[j].who = queue[i].who => j = i
      BY <1>1, <2>1, <2>2, <2>6 DEF Futures
    <2> QED BY <2>1, <2>4, <2>5, <2>6 DEF Futures
  <1>10. CASE Commit(t)
    <2> DEFINE e == [who |-> t, kind |-> op[t]]
    <2>1. e \in Entry /\ e.who = t
      BY DEF Entry, TypeOK
    <2>2. /\ queue' = Append(queue, e) /\ cur' = cur /\ pc' = pc
          /\ pending' = pending \ {e.who} /\ e.who \in pending
      BY <1>10 DEF Commit
    <2> HIDE DEF e
    <2> QED BY <2>1, <2>2, AppendFutures
  <1> QED BY <1>3, <1>4, <1>5, <1>6, <1>7, <1>8, <1>9, <1>10 DEF Serve

LEMMA OtherFutures ==
  ASSUME TypeOK, Futures, NEW t \in Syncer \cup Stopper,
         \/ Sync(t) \/ StopCall(t) \/ Stop(t)
         \/ t = Loop /\ (LoopGate \/ LoopSkip \/ LoopSync)
  PROVE  Futures'
  <1> USE DEF Goto, Answer, raftVars
  <1>1. pc \in [Thread -> Label] /\ Client \subseteq Thread /\ t \notin Client
    BY ManagerAssumption DEF TypeOK, Thread
  <1>2. ASSUME NEW l, pc' = [pc EXCEPT ![t] = l]
        PROVE  \A u \in Client : pc'[u] = pc[u]
    BY <1>1, <1>2
  <1>3. UNCHANGED <<pending, queue, cur>>
    BY DEF Sync, StopCall, Stop, LoopGate, LoopSkip, LoopSync, SyncCall, SyncStart,
           SyncSnapshot, SyncStamp, SyncKey, SyncKeyFails, FsmSnapshot, Persisted,
           PersistFails, Return, StopAgain, StopRaft, StopClose
  <1>4. CASE Sync(t)
    <2>1. ASSUME NEW k \in Key, SyncKey(t, k) \/ SyncKeyFails(t, k)
          PROVE  \A u \in Client : pc'[u] = pc[u]
      BY <2>1 DEF SyncKey, SyncKeyFails
    <2>2. ASSUME NEW l, pc' = [pc EXCEPT ![t] = l] PROVE Futures'
      BY <1>2, <1>3, <2>2, SameFutures
    <2>3. CASE SyncCall(t)
      BY <2>2, <2>3 DEF SyncCall
    <2>4. CASE SyncStart(t)
      BY <2>2, <2>4 DEF SyncStart
    <2>5. CASE SyncSnapshot(t)
      BY <2>2, <2>5 DEF SyncSnapshot
    <2>6. CASE SyncStamp(t)
      BY <2>2, <2>6 DEF SyncStamp
    <2>7. CASE FsmSnapshot(t) \/ Persisted(t)
      BY <2>2, <2>7 DEF FsmSnapshot, Persisted
    <2>8. CASE PersistFails(t) \/ Return(t)
      BY <2>2, <2>8 DEF PersistFails, Return
    <2> QED BY <1>3, <1>4, <2>1, <2>3, <2>4, <2>5, <2>6, <2>7, <2>8, SameFutures DEF Sync
  <1>5. CASE t = Loop /\ (LoopGate \/ LoopSkip \/ LoopSync)
    <2>1. \A u \in Client : pc'[u] = pc[u]
      BY <1>2, <1>5 DEF LoopGate, LoopSkip, LoopSync
    <2> QED BY <1>3, <2>1, SameFutures
  <1>6. CASE StopCall(t) \/ Stop(t)
    <2>1. \A u \in Client : pc'[u] = pc[u]
      BY <1>2, <1>6 DEF StopCall, Stop, StopAgain, StopRaft, StopClose
    <2> QED BY <1>3, <2>1, SameFutures
  <1> QED BY <1>4, <1>5, <1>6

\* The future of the entry in hand completes: only its proposer stops to wait.
LEMMA RespondFutures ==
  ASSUME TypeOK, Futures, NEW a, Respond(a), UNCHANGED <<pending, queue>>
  PROVE  Futures'
  <1>1. /\ pc \in [Thread -> Label] /\ Client \subseteq Thread /\ Fsm \notin Client
        /\ queue \in Seq(Entry) /\ pending \subseteq Client
    BY ManagerAssumption DEF TypeOK, Thread
  <1>2. \A i \in 1..Len(queue) : queue[i].who \in Client \cup {None}
    BY QueueWho
  <1>3. \A u \in Client : u # cur.who => pc'[u] = pc[u]
    BY <1>1 DEF Respond, Complete
  <1>4. cur'.who = None
    BY DEF Respond, NoEntry
  <1>5. \A u \in pending : u # cur.who
    BY ManagerAssumption, <1>1 DEF Futures, Thread
  <1> QED BY <1>1, <1>2, <1>3, <1>4, <1>5 DEF Futures

LEMMA FsmFutures ==
  ASSUME TypeOK, Futures, FsmStep \/ Elect \/ StepDown \/ RemoteCommit
  PROVE  Futures'
  <1>1. /\ pc \in [Thread -> Label] /\ Client \subseteq Thread /\ Fsm \notin Client
        /\ queue \in Seq(Entry) /\ pending \subseteq Client /\ None \notin Client
    BY ManagerAssumption DEF TypeOK, Thread
  <1>2. CASE FsmTake
    <2>1. /\ queue # << >> /\ cur' = Head(queue) /\ queue' = Tail(queue)
          /\ pending' = pending /\ \A u \in Client : pc'[u] = pc[u]
      BY <1>1, <1>2 DEF FsmTake, Goto
    <2>2. /\ cur' = queue[1] /\ 1 \in 1..Len(queue)
          /\ Len(queue') = Len(queue) - 1 /\ Len(queue) \in Nat
          /\ \A i \in 1..Len(queue') : queue'[i] = queue[i + 1] /\ i + 1 \in 1..Len(queue)
      BY <1>1, <2>1
    <2>3. \A i \in 1..Len(queue) : queue[i].who \in Client \cup {None}
      BY QueueWho
    <2>4. ASSUME NEW i \in 1..Len(queue'), queue'[i].who # None
          PROVE  /\ pc'[queue'[i].who] = "waiting" /\ queue'[i].who \notin pending'
                 /\ queue'[i].who # cur'.who
                 /\ \A j \in 1..Len(queue') : queue'[j].who = queue'[i].who => j = i
      BY <2>1, <2>2, <2>3, <2>4 DEF Futures
    <2>5. cur'.who # None => pc'[cur'.who] = "waiting" /\ cur'.who \notin pending'
      BY <2>1, <2>2, <2>3 DEF Futures
    <2>6. \A u \in pending' : pc'[u] = "waiting"
      BY <1>1, <2>1 DEF Futures
    <2> QED BY <2>4, <2>5, <2>6 DEF Futures
  <1>3. CASE FsmReject
    BY <1>3, RespondFutures DEF FsmReject
  <1>4. CASE FsmStamp
    BY <1>4, RespondFutures DEF FsmStamp
  <1>5. CASE FsmExit \/ \E k \in Key : FsmExec(k)
    <2>1. \A u \in Client : pc'[u] = pc[u]
      BY <1>1, <1>5 DEF FsmExit, FsmExec, Goto
    <2> QED BY <1>5, <2>1, SameFutures DEF FsmExit, FsmExec, raftVars
  <1>6. CASE Elect
    BY <1>6, SameFutures DEF Elect
  <1>7. CASE RemoteCommit
    <2> DEFINE e == [who |-> None, kind |-> "exec"]
    <2>1. e \in Entry /\ e.who = None
      BY DEF Entry
    <2>2. queue' = Append(queue, e) /\ cur' = cur /\ pc' = pc /\ pending' = pending \ {None}
      BY <1>1, <1>7 DEF RemoteCommit
    <2> HIDE DEF e
    <2> QED BY <2>1, <2>2, AppendFutures
  <1>8. CASE StepDown
    <2>1. /\ pending' = {} /\ queue' = queue /\ cur' = cur
          /\ \A u \in Client : u \notin pending => pc'[u] = pc[u]
      BY <1>1, <1>8 DEF StepDown, Complete
    <2>2. \A i \in 1..Len(queue) : queue[i].who \in Client \cup {None}
      BY QueueWho
    <2>3. cur.who \in Client \cup {None}
      BY DEF TypeOK, Entry
    <2> QED BY <2>1, <2>2, <2>3 DEF Futures
  <1> QED BY <1>2, <1>3, <1>4, <1>5, <1>6, <1>7, <1>8 DEF FsmStep

LEMMA NextFutures ==
  ASSUME TypeOK, Futures, [Next]_vars
  PROVE  Futures'
  <1>1. ASSUME NEW t \in Client, Serve(t) \/ \E o \in Ask : Call(t, o) PROVE Futures'
    BY <1>1, ServeFutures
  <1>2. ASSUME NEW t \in Syncer,
               Sync(t) \/ (t = Loop /\ (LoopGate \/ LoopSkip \/ LoopSync))
        PROVE  Futures'
    BY <1>2, OtherFutures
  <1>3. ASSUME NEW t \in Stopper, StopCall(t) \/ Stop(t) PROVE Futures'
    BY <1>3, OtherFutures
  <1>4. CASE FsmStep \/ Elect \/ StepDown \/ RemoteCommit
    BY <1>4, FsmFutures
  <1>5. CASE UNCHANGED vars
    BY <1>5, SameFutures DEF vars, raftVars
  <1> QED BY <1>1, <1>2, <1>3, <1>4, <1>5 DEF Next

-----------------------------------------------------------------------------
(* What an Exec can answer *)

\* Exec never reports success to its caller.
NoExecSucceeds == \A t \in Client : op[t] = "exec" => ans[t] # "ok"

\* An entry is of the kind its proposer asked for, and nobody has an answer
\* before its call.
Kinds ==
  /\ \A t \in Client : /\ pc[t] = "idle" => ans[t] = "none"
                       /\ pc[t] = "reading" => op[t] = "read"
  /\ \A i \in 1..Len(queue) : queue[i].who # None => queue[i].kind = op[queue[i].who]
  /\ cur.who # None => cur.kind = op[cur.who]

Answers == Kinds /\ NoExecSucceeds

\* Steps that put no entry anywhere, and in which an Exec is told no success.
LEMMA SameAnswers ==
  ASSUME TypeOK, Answers, UNCHANGED <<op, queue, cur>>,
         \A t \in Client : /\ pc'[t] = "reading" => op[t] = "read"
                           /\ pc'[t] = "idle" => pc[t] = "idle" /\ ans'[t] = ans[t]
                           /\ op[t] = "exec" => ans'[t] = ans[t] \/ ans'[t] # "ok"
  PROVE  Answers'
  BY DEF Answers, Kinds, NoExecSucceeds

\* One client moves on, with an answer or without.
LEMMA MoveAnswers ==
  ASSUME TypeOK, Answers, NEW t \in Client, UNCHANGED <<op, queue, cur>>,
         NEW l, l # "idle", l = "reading" => op[t] = "read",
         pc' = [pc EXCEPT ![t] = l],
         NEW a, op[t] = "exec" => a # "ok",
         ans' = ans \/ ans' = [ans EXCEPT ![t] = a]
  PROVE  Answers'
  <1>1. pc \in [Thread -> Label] /\ ans \in [Thread -> Result] /\ Client \subseteq Thread
    BY DEF TypeOK, Thread
  <1>2. \A u \in Client : u # t => pc'[u] = pc[u] /\ ans'[u] = ans[u]
    BY <1>1
  <1>3. pc'[t] = l /\ (op[t] = "exec" => ans'[t] = ans[t] \/ ans'[t] # "ok")
    BY <1>1
  <1>4. \A u \in Client : pc'[u] = "reading" => op[u] = "read"
    BY <1>2, <1>3 DEF Answers, Kinds
  <1> QED BY <1>2, <1>3, <1>4, SameAnswers

LEMMA ServeAnswers ==
  ASSUME TypeOK, Futures, Answers, NEW t \in Client, Serve(t) \/ \E o \in Ask : Call(t, o)
  PROVE  Answers'
  <1> USE DEF Goto, Answer, raftVars
  <1>1. /\ pc \in [Thread -> Label] /\ ans \in [Thread -> Result]
        /\ op \in [Client -> Ask \cup {"none"}] /\ Client \subseteq Thread
        /\ t # None /\ t # Loop /\ queue \in Seq(Entry)
    BY ManagerAssumption DEF TypeOK, Thread
  <1>2. ASSUME NEW o \in Ask, Call(t, o) PROVE Answers'
    <2>1. pc[t] = "idle" /\ UNCHANGED <<ans, queue, cur>>
      BY <1>2 DEF Call
    <2>2. ans[t] = "none" /\ \A u \in Client : u # t => op'[u] = op[u] /\ pc'[u] = pc[u]
      BY <1>1, <1>2, <2>1 DEF Call, Answers, Kinds
    <2>3. pc'[t] = "rlock"
      BY <1>1, <1>2 DEF Call
    <2>4. \A i \in 1..Len(queue) : queue[i].who # None => queue[i].who \in Client \ {t}
      BY <2>1, QueueWho DEF Futures
    <2>5. cur.who # None => cur.who \in Client \ {t}
      BY <2>1 DEF Futures, TypeOK, Entry
    <2> QED BY <2>1, <2>2, <2>3, <2>4, <2>5 DEF Answers, Kinds, NoExecSucceeds
  <1>3. CASE NotRunning(t)
    BY <1>3, MoveAnswers DEF NotRunning
  <1>4. CASE Read(t)
    BY <1>4, MoveAnswers DEF Read
  <1>5. CASE ReadDone(t)
    <2>1. op[t] = "read"
      BY <1>5 DEF ReadDone, Answers, Kinds
    <2> QED BY <1>5, <2>1, MoveAnswers DEF ReadDone
  <1>6. CASE Return(t)
    BY <1>1, <1>6, MoveAnswers DEF Return
  <1>7. CASE Propose(t) /\ leading
    BY <1>7, MoveAnswers DEF Propose
  <1>8. CASE Propose(t) /\ ~leading
    BY <1>8, MoveAnswers DEF Propose
  <1>9. CASE Commit(t)
    <2> DEFINE e == [who |-> t, kind |-> op[t]]
    <2>1. e \in Entry /\ e.kind = op[e.who]
      BY <1>1 DEF Entry
    <2>2. queue' = Append(queue, e) /\ UNCHANGED <<cur, pc, op, ans>>
      BY <1>9 DEF Commit
    <2> HIDE DEF e
    <2>3. \A i \in 1..Len(queue') : queue'[i] = e \/ (i \in 1..Len(queue) /\ queue'[i] = queue[i])
      BY <1>1, <2>1, <2>2
    <2> QED BY <2>1, <2>2, <2>3 DEF Answers, Kinds, NoExecSucceeds
  <1> QED BY <1>2, <1>3, <1>4, <1>5, <1>6, <1>7, <1>8, <1>9 DEF Serve

LEMMA OtherAnswers ==
  ASSUME TypeOK, Answers, NEW t \in Syncer \cup Stopper,
         \/ Sync(t) \/ StopCall(t) \/ Stop(t)
         \/ t = Loop /\ (LoopGate \/ LoopSkip \/ LoopSync)
  PROVE  Answers'
  <1> USE DEF Goto, Answer, raftVars
  <1>1. /\ pc \in [Thread -> Label] /\ ans \in [Thread -> Result]
        /\ Client \subseteq Thread /\ t \notin Client
    BY ManagerAssumption DEF TypeOK, Thread
  <1>2. ASSUME UNCHANGED <<op, queue, cur>>, NEW l, pc' = pc \/ pc' = [pc EXCEPT ![t] = l],
               NEW a, ans' = ans \/ ans' = [ans EXCEPT ![t] = a]
        PROVE  Answers'
    <2>1. \A u \in Client : pc'[u] = pc[u] /\ ans'[u] = ans[u]
      BY <1>1, <1>2
    <2> QED BY <1>2, <2>1, SameAnswers DEF Answers, Kinds
  <1>3. CASE Sync(t)
    <2>1. ASSUME NEW k \in Key, SyncKey(t, k) \/ SyncKeyFails(t, k) PROVE Answers'
      BY <1>2, <2>1 DEF SyncKey, SyncKeyFails
    <2>2. CASE SyncCall(t)
      BY <1>2, <2>2 DEF SyncCall
    <2>3. CASE SyncStart(t)
      BY <1>2, <2>3 DEF SyncStart
    <2>4. CASE SyncSnapshot(t)
      BY <1>2, <2>4 DEF SyncSnapshot
    <2>5. CASE SyncStamp(t)
      BY <1>2, <2>5 DEF SyncStamp
    <2>6. CASE FsmSnapshot(t) \/ Persisted(t)
      BY <1>2, <2>6 DEF FsmSnapshot, Persisted
    <2>7. CASE PersistFails(t) \/ Return(t)
      BY <1>2, <2>7 DEF PersistFails, Return
    <2> QED BY <1>3, <2>1, <2>2, <2>3, <2>4, <2>5, <2>6, <2>7 DEF Sync
  <1>4. CASE t = Loop /\ (LoopGate \/ LoopSkip \/ LoopSync)
    BY <1>2, <1>4 DEF LoopGate, LoopSkip, LoopSync
  <1>5. CASE StopCall(t)
    BY <1>2, <1>5 DEF StopCall
  <1>6. CASE Stop(t)
    BY <1>2, <1>6 DEF Stop, StopAgain, StopRaft, StopClose
  <1> QED BY <1>3, <1>4, <1>5, <1>6

\* Futures complete with a result that tells no Exec of success.
LEMMA CompleteAnswers ==
  ASSUME TypeOK, Answers, NEW T, NEW a, NEW f, Complete(T, a, f),
         op' = op, queue' = queue, cur' = cur \/ cur' = NoEntry,
         \A u \in Client : f[u] = pc[u],
         \A u \in T \cap Client : pc[u] = "waiting" /\ op[u] = "exec" => a # "ok"
  PROVE  Answers'
  <1>1. Client \subseteq Thread
    BY DEF Thread
  <1>2. \A u \in Client : \/ pc'[u] = pc[u] /\ ans'[u] = ans[u]
                          \/ u \in T /\ pc[u] = "waiting" /\ pc'[u] = "answered" /\ ans'[u] = a
    BY <1>1 DEF Complete
  <1>3. NoExecSucceeds'
    BY <1>2 DEF Answers, NoExecSucceeds
  <1>4. Kinds'
    BY <1>2 DEF Answers, Kinds, NoEntry
  <1> QED BY <1>3, <1>4 DEF Answers

LEMMA FsmAnswers ==
  ASSUME TypeOK, LockHeld, Futures, Answers, FsmStep \/ Elect \/ StepDown \/ RemoteCommit
  PROVE  Answers'
  <1>1. /\ pc \in [Thread -> Label] /\ Client \subseteq Thread /\ Fsm \in Thread \ Client
        /\ queue \in Seq(Entry) /\ cur \in Entry /\ None \notin Thread
        /\ ans \in [Thread -> Result]
    BY ManagerAssumption DEF TypeOK, Thread
  <1>2. CASE FsmTake
    <2>1. /\ queue # << >> /\ cur' = Head(queue) /\ queue' = Tail(queue)
          /\ UNCHANGED <<op, ans>> /\ \A u \in Client : pc'[u] = pc[u]
      BY <1>1, <1>2 DEF FsmTake, Goto
    <2>2. /\ cur' = queue[1] /\ 1 \in 1..Len(queue)
          /\ \A i \in 1..Len(queue') : queue'[i] = queue[i + 1] /\ i + 1 \in 1..Len(queue)
      BY <1>1, <2>1
    <2> QED BY <2>1, <2>2 DEF Answers, Kinds, NoExecSucceeds
  <1>3. CASE FsmReject
    <2> DEFINE f == [pc EXCEPT ![Fsm] = "idle"]
               a == IF cur.kind = "peer" THEN "ok" ELSE "failed"
    <2>1. Complete({cur.who}, a, f) /\ cur' = NoEntry /\ op' = op /\ queue' = queue
      BY <1>3 DEF FsmReject, Respond
    <2>2. \A u \in Client : f[u] = pc[u]
      BY <1>1
    <2>3. \A u \in {cur.who} \cap Client : op[u] = "exec" => a # "ok"
      BY <1>1 DEF Answers, Kinds
    <2> HIDE DEF f, a
    <2> QED BY <2>1, <2>2, <2>3, CompleteAnswers
  <1>4. CASE FsmStamp
    <2> DEFINE f == [pc EXCEPT ![Fsm] = "idle"]
    <2>1. /\ Complete({cur.who}, "ok", f) /\ cur' = NoEntry /\ op' = op /\ queue' = queue
          /\ Writing(Fsm)
      BY <1>4 DEF FsmStamp, Respond
    <2>2. \A u \in Client : f[u] = pc[u]
      BY <1>1
    <2>3. \A u \in Client : pc[u] # "waiting"
      BY <1>1, <2>1 DEF LockHeld, Writing, Reading, Body
    <2> HIDE DEF f
    <2> QED BY <2>1, <2>2, <2>3, CompleteAnswers
  <1>5. CASE FsmExit \/ \E k \in Key : FsmExec(k)
    <2>1. \A u \in Client : pc'[u] = pc[u]
      BY <1>1, <1>5 DEF FsmExit, FsmExec, Goto
    <2>2. UNCHANGED <<op, ans, queue, cur>>
      BY <1>5 DEF FsmExit, FsmExec, raftVars
    <2> QED BY <2>1, <2>2, SameAnswers DEF Answers, Kinds
  <1>6. CASE Elect
    BY <1>6 DEF Elect, Answers, Kinds, NoExecSucceeds
  <1>7. CASE RemoteCommit
    <2> DEFINE e == [who |-> None, kind |-> "exec"]
    <2>1. e \in Entry /\ e.who = None
      BY DEF Entry
    <2>2. queue' = Append(queue, e) /\ UNCHANGED <<cur, pc, op, ans>>
      BY <1>7 DEF RemoteCommit
    <2> HIDE DEF e
    <2>3. \A i \in 1..Len(queue') : queue'[i] = e \/ (i \in 1..Len(queue) /\ queue'[i] = queue[i])
      BY <1>1, <2>1, <2>2
    <2> QED BY <2>1, <2>2, <2>3 DEF Answers, Kinds, NoExecSucceeds
  <1>8. CASE StepDown
    <2>1. Complete(pending, "lost", pc) /\ UNCHANGED <<op, queue, cur>>
      BY <1>8 DEF StepDown
    <2> QED BY <2>1, CompleteAnswers
  <1> QED BY <1>2, <1>3, <1>4, <1>5, <1>6, <1>7, <1>8 DEF FsmStep

LEMMA NextAnswers ==
  ASSUME TypeOK, LockHeld, Futures, Answers, [Next]_vars
  PROVE  Answers'
  <1>1. ASSUME NEW t \in Client, Serve(t) \/ \E o \in Ask : Call(t, o) PROVE Answers'
    BY <1>1, ServeAnswers
  <1>2. ASSUME NEW t \in Syncer,
               Sync(t) \/ (t = Loop /\ (LoopGate \/ LoopSkip \/ LoopSync))
        PROVE  Answers'
    BY <1>2, OtherAnswers
  <1>3. ASSUME NEW t \in Stopper, StopCall(t) \/ Stop(t) PROVE Answers'
    BY <1>3, OtherAnswers
  <1>4. CASE FsmStep \/ Elect \/ StepDown \/ RemoteCommit
    BY <1>4, FsmAnswers
  <1>5. CASE UNCHANGED vars
    BY <1>5 DEF vars, raftVars, Answers, Kinds, NoExecSucceeds
  <1> QED BY <1>1, <1>2, <1>3, <1>4, <1>5 DEF Next

-----------------------------------------------------------------------------
(* The theorems *)

LEMMA InitInv == Init => IInv
  <1> SUFFICES ASSUME Init PROVE IInv
    OBVIOUS
  <1>1. mu \in Rw!Mutex
    BY DEF Init, Rw!Unlocked, Rw!Mutex
  <1>2. queue \in Seq(Entry) /\ cur \in Entry
    BY DEF Init, NoEntry, Entry
  <1>3. remote \in 0..MaxRemote
    BY ManagerAssumption DEF Init
  <1>4. TypeOK
    BY <1>1, <1>2, <1>3 DEF Init, TypeOK, Label, Result
  <1>5. LockHeld
    BY DEF Init, LockHeld, Body, Thread, Rw!Unlocked
  <1>6. StopOrder /\ StopOnce /\ SafeClose
    BY DEF Init, StopOrder, StopOnce, SafeClose, Thread
  <1>7. SyncCatchesUp /\ Visited /\ GateCoversWrites
    BY DEF Init, SyncCatchesUp, Visited, GateCoversWrites, InSync, Thread
  <1> QED BY <1>4, <1>5, <1>6, <1>7 DEF IInv

LEMMA NextInv == IInv /\ [Next]_vars => IInv'
  <1> SUFFICES ASSUME TypeOK, LockHeld, Order, Gate, [Next]_vars
               PROVE  TypeOK' /\ LockHeld' /\ Order' /\ Gate'
    BY DEF IInv, Order, Gate
  <1>1. Alone(mu)
    BY DEF LockHeld, Alone
  <1>2. ASSUME NEW t \in Client, Serve(t) \/ \E o \in Ask : Call(t, o)
        PROVE  TypeOK' /\ LockHeld' /\ Order' /\ Gate'
    BY <1>1, <1>2, ServeTyped, ServeLock, ServeOrder, ServeGate
  <1>3. ASSUME NEW t \in Syncer,
               Sync(t) \/ (t = Loop /\ (LoopGate \/ LoopSkip \/ LoopSync))
        PROVE  TypeOK' /\ LockHeld' /\ Order' /\ Gate'
    BY <1>1, <1>3, SyncTyped, SyncLock, SyncOrder, SyncGate
  <1>4. ASSUME NEW t \in Stopper, StopCall(t) \/ Stop(t)
        PROVE  TypeOK' /\ LockHeld' /\ Order' /\ Gate'
    BY <1>1, <1>4, StopTyped, StopLock, StopOrderStep, StopGate
  <1>5. CASE FsmStep \/ Elect \/ StepDown \/ RemoteCommit
    BY <1>1, <1>5, FsmTyped, RaftTyped, FsmLock, FsmOrder, FsmGate
  <1>6. CASE UNCHANGED vars
    <2> USE <1>6 DEF vars, syncVars, raftVars
    <2>1. TypeOK'
      BY DEF TypeOK
    <2>2. LockHeld'
      BY DEF LockHeld, Reading, Writing
    <2>3. Order'
      BY DEF Order, StopOrder, StopOnce, SafeClose
    <2>4. Gate'
      BY DEF Gate, SyncCatchesUp, Visited, GateCoversWrites, InSync
    <2> QED BY <2>1, <2>2, <2>3, <2>4
  <1> QED BY <1>2, <1>3, <1>4, <1>5, <1>6 DEF Next

\* The invariant holds in every reachable state of a manager.
THEOREM ManagerInductive == Spec => []IInv
  BY InitInv, NextInv, PTL DEF Spec

\* The variables of the manager stay within their types.
THEOREM ManagerTyped == Spec => []TypeOK
  <1>1. IInv => TypeOK
    BY DEF IInv
  <1> QED BY <1>1, ManagerInductive, PTL

\* Shutdown closes the connectors only when no entry is applied and no query or
\* sync runs, however many goroutines call the manager.
THEOREM ClosesSafely == Spec => []SafeClose
  <1>1. IInv => SafeClose
    BY DEF IInv
  <1> QED BY <1>1, ManagerInductive, PTL

\* However many goroutines call Shutdown, stopCh is closed once at most.
THEOREM StopsOnce == Spec => []StopOnce
  <1>1. IInv => StopOnce
    BY DEF IInv
  <1> QED BY <1>1, ManagerInductive, PTL

\* The schedule never skips a sync while a database has a write that no sync has
\* visited and that no pending callback, sync or failure accounts for.
THEOREM NoWriteIsHidden == Spec => []GateCoversWrites
  <1>1. IInv => GateCoversWrites
    BY DEF IInv
  <1> QED BY <1>1, ManagerInductive, PTL

\* Whatever is called, elected or shut down afterwards, a wedged manager stays
\* wedged.
THEOREM NothingUnwedges == Spec => StaysWedged
  <1>1. IInv /\ [Next]_vars => (Wedged => Wedged')
    BY NextWedge
  <1> QED BY <1>1, ManagerInductive, PTL DEF Spec, StaysWedged

\* A proposer waits in one place only until the entry it proposed was applied or
\* refused.
THEOREM OneFuture == Spec => []Futures
  <1>1. Init => Futures
    BY DEF Init, Futures, NoEntry
  <1>2. TypeOK /\ Futures /\ [Next]_vars => Futures'
    BY NextFutures
  <1> QED BY <1>1, <1>2, ManagerTyped, PTL DEF Spec

\* Every statement that a node executes for a caller of its own wedges its
\* manager: the caller waits with the lock the callback wants.
THEOREM OwnEntriesWedge == Spec => []OwnEntryWedges
  <1>1. IInv /\ Futures => OwnEntryWedges
    <2> SUFFICES ASSUME IInv, Futures, pc[Fsm] = "callback", cur.who # None
                 PROVE  Wedged
      BY DEF OwnEntryWedges
    <2>1. cur.who \in Client
      BY DEF IInv, TypeOK, Entry
    <2>2. pc[cur.who] = "waiting" /\ cur.who \notin pending
      BY DEF Futures
    <2>3. cur.who \in mu.readers
      BY <2>1, <2>2 DEF IInv, LockHeld, Body, Reading
    <2> QED BY <2>2, <2>3 DEF Wedged
  <1> QED BY <1>1, ManagerInductive, OneFuture, PTL

\* No Exec ever returns success on the node that proposed it: one that succeeds
\* never returns, whatever the number of callers, databases and entries.
THEOREM ExecNeverSucceeds == Spec => []NoExecSucceeds
  <1>1. Init => Answers
    BY ManagerAssumption DEF Init, Answers, Kinds, NoExecSucceeds, NoEntry, Thread
  <1>2. IInv /\ Futures /\ Answers /\ [Next]_vars => Answers'
    BY NextAnswers DEF IInv
  <1>3. Answers => NoExecSucceeds
    BY DEF Answers
  <1> QED BY <1>1, <1>2, <1>3, ManagerInductive, OneFuture, PTL DEF Spec
=============================================================================
