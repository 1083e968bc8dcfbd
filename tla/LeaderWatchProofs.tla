--------------------------- MODULE LeaderWatchProofs ---------------------------
(* Theorems about LeaderWatch, for any number of changes of leadership. *)
EXTENDS LeaderWatch, FiniteSetTheorems, TLAPS

-----------------------------------------------------------------------------
(* The inductive invariant *)

\* What makes the properties inductive: the sync goroutines are numbered in the order they
\* were started, each for a notification of its own ...
Numbered ==
  /\ Made = 1..Cardinality(Made)
  /\ Cardinality(Made) <= changes
  /\ watcher = "start" \/ leaderCh # Nil => Fresh <= changes
  /\ watcher = "start" /\ leaderCh # Nil => Fresh < changes

\* ... and the shared variables and the open channels agree with where the
\* watcher is.
SharedInOrder ==
  /\ \A i \in Id \ Made : closed[i] = 0
  /\ watcher = "select" => /\ syncTicker = syncStop /\ ticking \subseteq {syncStop}
                           /\ syncStop # Nil => syncStop \in Made /\ closed[syncStop] = 0
  /\ watcher = "start" => /\ syncTicker = Fresh /\ syncStop = Nil
                          /\ ticking \subseteq {Fresh}
  /\ watcher = "clear ticker" => syncTicker \in Id /\ ticking = {}
  /\ watcher = "clear stop" => syncTicker = Nil /\ ticking = {}

IInv == TypeOK /\ NoDoubleClose /\ Numbered /\ SharedInOrder

-----------------------------------------------------------------------------
(* The numbers of the sync goroutines *)

LEMMA MadeFinite == IsFiniteSet(Made) /\ Cardinality(Made) \in Nat
  <1>1. MaxChanges \in Int /\ 1 \in Int
    BY WatchAssumption
  <1>2. IsFiniteSet(Id)
    BY <1>1, FS_Interval DEF Id
  <1>3. Made \in SUBSET Id
    BY DEF Made
  <1> QED BY <1>2, <1>3, FS_Subset, FS_CardinalityType

\* There is room for the next goroutine as long as a notification stands for it.
LEMMA FreshTyped ==
  ASSUME TypeOK, Numbered, watcher = "start" \/ leaderCh # Nil
  PROVE  Fresh \in Id /\ Fresh \notin Made /\ Made = 1..(Fresh - 1)
  <1>1. Cardinality(Made) \in Nat /\ Made = 1..Cardinality(Made) /\ Fresh <= changes
    BY MadeFinite DEF Numbered
  <1>2. changes \in 0..MaxChanges /\ MaxChanges \in Nat
    BY WatchAssumption DEF TypeOK
  <1> QED BY <1>1, <1>2 DEF Id, Fresh

LEMMA MadeGrows ==
  ASSUME TypeOK, Numbered, StartSync
  PROVE  /\ Made' = Made \cup {Fresh} /\ Made' = 1..Fresh
         /\ Cardinality(Made') = Cardinality(Made) + 1
         /\ Fresh = Cardinality(Made) + 1
  <1>1. Fresh \in Id /\ Fresh \notin Made /\ Made = 1..(Fresh - 1)
    BY FreshTyped DEF StartSync
  <1>2. Made' = Made \cup {Fresh}
    BY <1>1 DEF StartSync, Made, TypeOK
  <1>3. Cardinality(Made') = Cardinality(Made) + 1
    BY <1>1, <1>2, MadeFinite, FS_AddElement
  <1>4. Made \cup {Fresh} = 1..Fresh
    BY <1>1 DEF Id
  <1> QED BY <1>2, <1>3, <1>4 DEF Fresh

\* No other step makes a goroutine, or forgets one.
LEMMA MadeStays ==
  ASSUME TypeOK, [Next]_vars, ~StartSync
  PROVE  Made' = Made
  <1> SUFFICES ASSUME NEW i \in Id PROVE pc'[i] # "none" <=> pc[i] # "none"
    BY DEF Made
  <1>1. ASSUME NEW j \in Id, SyncStep(j) PROVE pc'[i] # "none" <=> pc[i] # "none"
    BY <1>1 DEF SyncStep, ReadStop, ReadTicker, SeeStop, SeeTick, Synced, TypeOK
  <1>2. (\A j \in Id : ~SyncStep(j)) => UNCHANGED pc
    BY DEF Next, Watch, Change, Cancel, Shutdown, CtxDone, StopCh, Gain, Lose, ClearTicker,
           ClearStop, Tick, vars, goVars
  <1> QED BY <1>1, <1>2

-----------------------------------------------------------------------------
(* Type correctness, with the numbering it needs *)

LEMMA NextType ==
  ASSUME TypeOK, Numbered, [Next]_vars
  PROVE  TypeOK'
  <1> USE DEF raftVars, endVars, sharedVars, goVars
  <1>1. ASSUME Change \/ Cancel \/ Shutdown PROVE TypeOK'
    <2>1. CASE Change
      <3>1. isLeader' \in BOOLEAN /\ leaderCh' \in BOOLEAN
        BY <2>1, Zenon DEF Change
      <3>2. changes < MaxChanges /\ changes' = changes + 1
        BY <2>1, Zenon DEF Change
      <3>3. changes \in 0..MaxChanges /\ MaxChanges \in Nat
        BY WatchAssumption DEF TypeOK
      <3>4. changes' \in 0..MaxChanges
        BY <3>2, <3>3
      <3> QED BY <2>1, <3>1, <3>4, Zenon DEF Change, TypeOK
    <2>2. CASE Cancel \/ Shutdown
      BY <2>2, Zenon DEF Cancel, Shutdown, TypeOK
    <2> QED BY <1>1, <2>1, <2>2
  <1>2. ASSUME NEW i \in Id, Tick(i) PROVE TypeOK'
    BY <1>2 DEF Tick, TypeOK
  <1>3. ASSUME StopSync PROVE ticking' \subseteq Id /\ closed' \in [Id -> Nat]
    <2>1. ticking \subseteq Id /\ closed \in [Id -> Nat]
      BY DEF TypeOK
    <2>2. ticking' \subseteq Id
      BY <1>3, <2>1 DEF StopSync
    <2>3. closed' = [closed EXCEPT ![syncStop] = closed[syncStop] + 1]
      BY <1>3 DEF StopSync
    <2>4. CASE syncStop \in Id
      BY <2>1, <2>2, <2>3, <2>4
    <2>5. CASE syncStop \notin Id
      <3>1. closed' = closed
        BY <2>1, <2>3, <2>5
      <3> QED BY <2>1, <2>2, <3>1
    <2> QED BY <2>4, <2>5
  <1>4. ASSUME CtxDone \/ ClearTicker \/ ClearStop PROVE TypeOK'
    BY <1>4 DEF CtxDone, ClearTicker, ClearStop, TypeOK
  <1>5. ASSUME StopCh \/ Lose PROVE TypeOK'
    <2>1. ticking' \subseteq Id /\ closed' \in [Id -> Nat]
      BY <1>3, <1>5 DEF StopCh, Lose, TypeOK
    <2> QED BY <1>5, <2>1 DEF StopCh, Lose, TypeOK
  <1>6. ASSUME Gain PROVE TypeOK'
    <2>1. Fresh \in Id
      BY <1>6, FreshTyped, WatchAssumption DEF Gain
    <2>2. /\ syncTicker' \in Id \cup {Nil} /\ ticking' \subseteq Id
          /\ watcher' \in {"start", watcher} /\ leaderCh' = Nil
      BY <1>6, <2>1 DEF Gain, TypeOK
    <2> QED BY <1>6, <2>2 DEF Gain, TypeOK
  <1>7. ASSUME StartSync PROVE TypeOK'
    <2>1. Fresh \in Id
      BY <1>7, FreshTyped DEF StartSync
    <2> QED BY <1>7, <2>1 DEF StartSync, TypeOK
  <1>8. ASSUME NEW i \in Id, SyncStep(i) PROVE TypeOK'
    <2>1. CASE ReadStop(i)
      <3>1. myStop' \in [Id -> Id \cup {Nil}]
        BY <2>1 DEF ReadStop, TypeOK
      <3>2. pc' \in [Id -> {"none", "top", "read", "wait", "sync", "done", "dead"}]
        BY <2>1 DEF ReadStop, TypeOK
      <3> QED BY <2>1, <3>1, <3>2 DEF ReadStop, TypeOK
    <2>2. CASE ReadTicker(i)
      <3>1. myTicker' \in [Id -> Id \cup {Nil}]
        BY <2>2 DEF ReadTicker, TypeOK
      <3>2. pc' \in [Id -> {"none", "top", "read", "wait", "sync", "done", "dead"}]
        BY <2>2 DEF ReadTicker, TypeOK
      <3>3. watcher' \in {watcher, "dead"} /\ ticking' \subseteq Id
        BY <2>2 DEF ReadTicker, TypeOK
      <3> QED BY <2>2, <3>1, <3>2, <3>3 DEF ReadTicker, TypeOK
    <2>3. CASE SeeStop(i) \/ SeeTick(i) \/ Synced(i)
      <3>1. pc' \in [Id -> {"none", "top", "read", "wait", "sync", "done", "dead"}]
        BY <2>3 DEF SeeStop, SeeTick, Synced, TypeOK
      <3>2. tick' \subseteq Id
        BY <2>3 DEF SeeStop, SeeTick, Synced, TypeOK
      <3> QED BY <2>3, <3>1, <3>2 DEF SeeStop, SeeTick, Synced, TypeOK
    <2> QED BY <1>8, <2>1, <2>2, <2>3 DEF SyncStep
  <1>9. CASE UNCHANGED vars
    BY <1>9 DEF vars, TypeOK
  <1> QED BY <1>1, <1>2, <1>4, <1>5, <1>6, <1>7, <1>8, <1>9 DEF Next, Watch

LEMMA NextNumbered ==
  ASSUME TypeOK, Numbered, [Next]_vars
  PROVE  Numbered'
  <1> USE DEF raftVars, endVars, sharedVars, goVars
  <1>1. PICK m \in Nat : m = Cardinality(Made)
    BY MadeFinite
  <1>c. changes \in 0..MaxChanges /\ MaxChanges \in Nat
    BY WatchAssumption DEF TypeOK
  <1>2. PICK c \in Nat : c = changes
    BY <1>c
  <1>3. /\ Made = 1..m /\ m <= c
        /\ watcher = "start" \/ leaderCh # Nil => m + 1 <= c
        /\ watcher = "start" /\ leaderCh # Nil => m + 1 < c
    BY <1>1, <1>2 DEF Numbered, Fresh
  <1>4. CASE StartSync
    <2>1. Cardinality(Made)' = m + 1 /\ Made' = 1..(m + 1)
      BY <1>1, <1>4, MadeGrows
    <2>2. watcher = "start" /\ watcher' = "select" /\ leaderCh' = leaderCh /\ changes' = c
      BY <1>2, <1>4 DEF StartSync
    <2> QED BY <1>3, <2>1, <2>2 DEF Numbered, Fresh
  <1>5. CASE ~StartSync
    <2>1. Cardinality(Made)' = m /\ Made' = 1..m
      BY <1>1, <1>3, <1>5, MadeStays
    <2>2. CASE Change
      <3>1. changes' = c + 1 /\ watcher' = watcher
        BY <1>2, <2>2, Zenon DEF Change
      <3> QED BY <1>3, <2>1, <3>1 DEF Numbered, Fresh
    <2>3. CASE Gain \/ Lose
      <3>1. leaderCh # Nil /\ leaderCh' = Nil /\ changes' = c
        BY <1>2, <2>3, WatchAssumption, Zenon DEF Gain, Lose
      <3> QED BY <1>3, <2>1, <3>1 DEF Numbered, Fresh
    <2>4. CASE \/ CtxDone \/ StopCh \/ ClearTicker \/ ClearStop \/ Cancel \/ Shutdown
               \/ UNCHANGED vars \/ \E i \in Id : Tick(i) \/ SyncStep(i)
      <3>1. changes' = c /\ leaderCh' = leaderCh /\ (watcher' = watcher \/ watcher' # "start")
        BY <1>2, <2>4 DEF CtxDone, StopCh, ClearTicker, ClearStop, Cancel, Shutdown, vars,
                    Tick, SyncStep, ReadTicker, ReadStop, SeeStop, SeeTick, Synced
      <3> QED BY <1>3, <2>1, <3>1 DEF Numbered, Fresh
    <2> QED BY <1>5, <2>2, <2>3, <2>4 DEF Next, Watch
  <1> QED BY <1>4, <1>5

-----------------------------------------------------------------------------
(* The shared variables and the channels *)

\* Closing the channel that is in syncStop, while it is open.
LEMMA StopSyncOnce ==
  ASSUME TypeOK, NoDoubleClose, SharedInOrder, watcher = "select", syncTicker # Nil,
         StopSync
  PROVE  /\ NoDoubleClose' /\ ticking' = {} /\ syncTicker \in Id
         /\ \A i \in Id \ Made : closed'[i] = 0
  <1>1. /\ syncTicker = syncStop /\ syncStop \in Made /\ closed[syncStop] = 0
        /\ ticking \subseteq {syncStop} /\ \A i \in Id \ Made : closed[i] = 0
    BY DEF SharedInOrder
  <1>2. syncStop \in Id /\ closed \in [Id -> Nat]
    BY <1>1 DEF Made, TypeOK
  <1>3. \A i \in Id : closed'[i] = IF i = syncStop THEN 1 ELSE closed[i]
    BY <1>1, <1>2 DEF StopSync
  <1>4. NoDoubleClose'
    BY <1>3 DEF NoDoubleClose
  <1>5. ticking' = {}
    BY <1>1 DEF StopSync
  <1> QED BY <1>1, <1>2, <1>3, <1>4, <1>5

LEMMA NextShared ==
  ASSUME TypeOK, Numbered, NoDoubleClose, SharedInOrder, [Next]_vars
  PROVE  NoDoubleClose' /\ SharedInOrder'
  <1> DEFINE Goal == NoDoubleClose' /\ SharedInOrder'
  <1> USE DEF raftVars, endVars, sharedVars, goVars
  <1>made. ~StartSync => Made' = Made /\ Fresh' = Fresh
    BY MadeStays DEF Fresh
  <1>1. ASSUME ~StartSync, UNCHANGED <<watcher, sharedVars, ticking, closed>> PROVE Goal
    BY <1>1, <1>made DEF NoDoubleClose, SharedInOrder
  <1>2. ASSUME ~StartSync, watcher' \in {"done", "dead"}, UNCHANGED closed PROVE Goal
    BY <1>2, <1>made DEF NoDoubleClose, SharedInOrder
  <1>3. CASE CtxDone
    <2>1. watcher' = "done" /\ watcher = "select" /\ UNCHANGED closed
      BY <1>3 DEF CtxDone
    <2> QED BY <1>2, <2>1 DEF StartSync
  <1>4. CASE StopCh
    <2>1. watcher' = "done" /\ watcher = "select"
      BY <1>4 DEF StopCh
    <2>2. CASE syncTicker # Nil
      <3>1. NoDoubleClose' /\ \A i \in Id \ Made : closed'[i] = 0
        BY <1>4, <2>1, <2>2, StopSyncOnce DEF StopCh
      <3> QED BY <1>made, <2>1, <3>1 DEF StartSync, SharedInOrder
    <2>3. CASE syncTicker = Nil
      BY <1>2, <1>4, <2>1, <2>3 DEF StopCh, StartSync
    <2> QED BY <2>2, <2>3
  <1>5. CASE Gain
    <2>1. watcher = "select" /\ UNCHANGED <<syncStop, closed>>
      BY <1>5, Zenon DEF Gain
    <2>2. CASE syncTicker = Nil
      <3>1. syncTicker' = Fresh /\ ticking' = ticking \cup {Fresh} /\ watcher' = "start"
        BY <1>5, <2>2, Zenon DEF Gain
      <3>2. syncStop = Nil /\ ticking = {}
        <4>1. syncStop = Nil /\ ticking \subseteq {Nil} /\ ticking \subseteq Id
          BY <2>1, <2>2 DEF SharedInOrder, TypeOK
        <4>2. Nil \notin Id
          BY WatchAssumption DEF Id
        <4> QED BY <4>1, <4>2
      <3> QED BY <1>made, <2>1, <3>1, <3>2 DEF StartSync, NoDoubleClose, SharedInOrder
    <2>3. CASE syncTicker # Nil
      <3>1. UNCHANGED <<syncTicker, ticking, watcher>>
        BY <1>5, <2>3, Zenon DEF Gain
      <3> QED BY <1>1, <2>1, <3>1 DEF StartSync
    <2> QED BY <2>2, <2>3
  <1>6. CASE StartSync
    <2>1. Made' = Made \cup {Fresh} /\ Fresh \in Id /\ Fresh \notin Made
      BY <1>6, MadeGrows, FreshTyped DEF StartSync
    <2>2. /\ watcher = "start" /\ watcher' = "select" /\ syncStop' = Fresh
          /\ UNCHANGED <<syncTicker, ticking, closed>>
      BY <1>6 DEF StartSync
    <2>3. syncTicker = Fresh /\ ticking \subseteq {Fresh} /\ closed[Fresh] = 0
      BY <2>1, <2>2 DEF SharedInOrder
    <2> QED BY <2>1, <2>2, <2>3 DEF NoDoubleClose, SharedInOrder
  <1>7. CASE Lose
    <2>1. watcher = "select" /\ UNCHANGED sharedVars
      BY <1>7, Zenon DEF Lose
    <2>2. CASE syncTicker # Nil
      <3>1. StopSync /\ watcher' = "clear ticker"
        BY <1>7, <2>2, Zenon DEF Lose
      <3>2. /\ NoDoubleClose' /\ ticking' = {} /\ syncTicker \in Id
            /\ \A i \in Id \ Made : closed'[i] = 0
        BY <2>1, <2>2, <3>1, StopSyncOnce
      <3> QED BY <1>made, <2>1, <3>1, <3>2 DEF StartSync, SharedInOrder
    <2>3. CASE syncTicker = Nil
      <3>1. UNCHANGED <<ticking, closed, watcher>>
        BY <1>7, <2>3, Zenon DEF Lose
      <3> QED BY <1>1, <2>1, <3>1 DEF StartSync
    <2> QED BY <2>2, <2>3
  <1>8. CASE ClearTicker
    <2>1. /\ watcher = "clear ticker" /\ watcher' = "clear stop" /\ syncTicker' = Nil
          /\ UNCHANGED <<ticking, closed>>
      BY <1>8 DEF ClearTicker
    <2> QED BY <1>made, <2>1 DEF StartSync, NoDoubleClose, SharedInOrder
  <1>9. CASE ClearStop
    <2>1. /\ watcher = "clear stop" /\ watcher' = "select" /\ syncStop' = Nil
          /\ UNCHANGED <<syncTicker, ticking, closed>>
      BY <1>9 DEF ClearStop
    <2> QED BY <1>made, <2>1 DEF StartSync, NoDoubleClose, SharedInOrder
  <1>10. ASSUME NEW i \in Id, SyncStep(i), ~StartSync PROVE Goal
    <2>1. UNCHANGED <<sharedVars, closed>>
      BY <1>10 DEF SyncStep, ReadStop, ReadTicker, SeeStop, SeeTick, Synced
    <2>2. watcher' = "dead" \/ UNCHANGED <<watcher, ticking>>
      BY <1>10 DEF SyncStep, ReadStop, ReadTicker, SeeStop, SeeTick, Synced
    <2> QED BY <1>1, <1>2, <1>10, <2>1, <2>2
  <1>11. ASSUME ~StartSync,
                Change \/ Cancel \/ Shutdown \/ UNCHANGED vars \/ \E i \in Id : Tick(i)
         PROVE  Goal
    BY <1>1, <1>11 DEF Change, Cancel, Shutdown, vars, Tick
  <1> QED BY <1>3, <1>4, <1>5, <1>6, <1>7, <1>8, <1>9, <1>10, <1>11 DEF Next, Watch

-----------------------------------------------------------------------------
LEMMA InitInv == Init => IInv
  <1> SUFFICES ASSUME Init PROVE IInv
    OBVIOUS
  <1>1. TypeOK
    <2>1. changes \in 0..MaxChanges
      BY WatchAssumption DEF Init
    <2>2. closed \in [Id -> Nat]
      BY DEF Init
    <2>3. pc \in [Id -> {"none", "top", "read", "wait", "sync", "done", "dead"}]
      BY DEF Init
    <2>4. isLeader \in BOOLEAN /\ ctxDone \in BOOLEAN /\ stopped \in BOOLEAN
      BY DEF Init
    <2> QED BY <2>1, <2>2, <2>3, <2>4, Zenon DEF Init, TypeOK
  <1>2. Made = {}
    BY DEF Init, Made
  <1>3. Numbered
    <2>1. Cardinality(Made) = 0
      BY <1>2, FS_EmptySet
    <2> QED BY <1>2, <2>1 DEF Init, Numbered
  <1>4. NoDoubleClose /\ SharedInOrder
    BY DEF Init, NoDoubleClose, SharedInOrder
  <1> QED BY <1>1, <1>3, <1>4 DEF IInv

LEMMA NextInv == IInv /\ [Next]_vars => IInv'
  BY NextType, NextNumbered, NextShared DEF IInv

(* The sync goroutines are numbered by the notifications that started them, and
   the shared variables, tickers and channels agree with where the watcher is. *)
THEOREM WatchInductive == Spec => []IInv
  BY InitInv, NextInv, PTL DEF Spec

(* The variables of LeaderWatch stay within their types: no sync goroutine is
   ever started for which the changes of leadership do not account. *)
THEOREM WatchTypeCorrect == Spec => []TypeOK
  <1>1. IInv => TypeOK
    BY DEF IInv
  <1> QED BY <1>1, WatchInductive, PTL

(* No stop channel is closed twice, which would panic. *)
THEOREM ClosedOnce == Spec => []NoDoubleClose
  <1>1. IInv => NoDoubleClose
    BY DEF IInv
  <1> QED BY <1>1, WatchInductive, PTL

(* While the watcher waits, a ticker that runs is the one it knows of, and its
   stop channel is open. *)
THEOREM OnlyOneTicker == Spec => []OneTicker
  <1>1. IInv => OneTicker
    <2> SUFFICES ASSUME IInv, watcher = "select", NEW i \in ticking
                 PROVE  i = syncTicker /\ i = syncStop /\ closed[i] = 0
      BY DEF OneTicker
    <2>1. i \in Id /\ syncTicker = syncStop /\ ticking \subseteq {syncStop}
      BY DEF IInv, TypeOK, SharedInOrder
    <2>2. i # Nil
      BY <2>1, WatchAssumption DEF Id
    <2> QED BY <2>1, <2>2 DEF IInv, SharedInOrder
  <1> QED BY <1>1, WatchInductive, PTL

-----------------------------------------------------------------------------
(* Before the first loss of the leadership *)

\* A ticker is there before the first goroutine is, and nothing takes it away.
Lossless ==
  changes < 2 =>
    /\ leaderCh # FALSE /\ (changes = 0 => ~isLeader)
    /\ watcher \notin {"clear ticker", "clear stop", "dead"}
    /\ Made # {} => syncTicker # Nil

LEMMA NextLossless ==
  ASSUME IInv, Lossless, [Next]_vars
  PROVE  Lossless'
  <1> USE DEF raftVars, sharedVars, endVars, goVars
  <1>1. TypeOK /\ changes \in 0..MaxChanges /\ MaxChanges \in Nat /\ Nil \notin Nat /\ Nil \notin BOOLEAN
    BY WatchAssumption DEF IInv, TypeOK
  <1>2. CASE Change
    <2>1. Made' = Made
      BY <1>2 DEF Change, Made
    <2>2. /\ changes' = changes + 1 /\ isLeader' = ~isLeader /\ leaderCh' = ~isLeader
          /\ watcher' = watcher /\ syncTicker' = syncTicker
      BY <1>2 DEF Change
    <2>3. changes' # 0 /\ (changes' < 2 => changes < 2 /\ changes = 0)
      BY <1>1, <2>2
    <2>4. changes' < 2 => ~isLeader
      BY <2>3 DEF Lossless
    <2>5. changes' < 2 => leaderCh' # FALSE
      BY <2>2, <2>4, Zenon
    <2> QED BY <2>1, <2>2, <2>3, <2>5, Zenon DEF Lossless
  <1>3. CASE StartSync
    <2>1. syncTicker' = Fresh /\ Fresh \in Id
      BY <1>1, <1>3, FreshTyped DEF StartSync, IInv, SharedInOrder
    <2>2. syncTicker' # Nil
      BY <1>1, <2>1 DEF Id
    <2>3. watcher' = "select" /\ UNCHANGED raftVars
      BY <1>3 DEF StartSync
    <2> QED BY <2>2, <2>3 DEF Lossless
  <1>4. CASE Gain
    <2>1. Made' = Made /\ leaderCh' = Nil /\ changes' = changes /\ isLeader' = isLeader
      BY <1>4 DEF Gain, Made
    <2>2. CASE syncTicker = Nil
      <3>1. Fresh \in Id
        BY <1>1, <1>4, FreshTyped DEF Gain, IInv
      <3>2. syncTicker' # Nil /\ watcher' = "start"
        BY <1>1, <1>4, <2>2, <3>1 DEF Gain, Id
      <3> QED BY <1>1, <2>1, <3>2 DEF Lossless
    <2>3. CASE syncTicker # Nil
      <3>1. syncTicker' = syncTicker /\ watcher' = watcher
        BY <1>4, <2>3 DEF Gain
      <3>2. Nil # FALSE
        BY <1>1
      <3> QED BY <2>1, <2>3, <3>1, <3>2, Zenon DEF Lossless
    <2> QED BY <2>2, <2>3
  <1>5. CASE Lose \/ ClearTicker \/ ClearStop
    <2>1. ~(changes < 2)
      BY <1>5 DEF Lose, ClearTicker, ClearStop, Lossless
    <2>2. changes' = changes
      BY <1>5 DEF Lose, ClearTicker, ClearStop
    <2> QED BY <2>1, <2>2 DEF Lossless
  <1>6. ASSUME NEW i \in Id, ReadTicker(i) PROVE Lossless'
    <2>1. Made' = Made
      BY <1>1, <1>6, MadeStays DEF Next, SyncStep, ReadTicker, Made, TypeOK
    <2>2. i \in Made /\ UNCHANGED raftVars /\ syncTicker' = syncTicker
      BY <1>6 DEF ReadTicker, Made
    <2>3. changes < 2 => watcher' = watcher
      BY <1>6, <2>2 DEF ReadTicker, Lossless
    <2> QED BY <2>1, <2>2, <2>3 DEF Lossless
  <1>7. ASSUME NEW i \in Id, ReadStop(i) \/ SeeStop(i) \/ SeeTick(i) \/ Synced(i) PROVE Lossless'
    <2>1. Made' = Made
      BY <1>1, <1>7 DEF ReadStop, SeeStop, SeeTick, Synced, Made, TypeOK
    <2>2. UNCHANGED raftVars /\ watcher' = watcher /\ syncTicker' = syncTicker
      BY <1>7 DEF ReadStop, SeeStop, SeeTick, Synced
    <2> QED BY <2>1, <2>2 DEF Lossless
  <1>8. CASE CtxDone \/ StopCh
    <2>1. Made' = Made /\ UNCHANGED raftVars /\ watcher' = "done" /\ syncTicker' = syncTicker
      BY <1>8 DEF CtxDone, StopCh, Made
    <2> QED BY <2>1 DEF Lossless
  <1>9. CASE Cancel \/ Shutdown \/ (\E i \in Id : Tick(i)) \/ UNCHANGED vars
    <2>1. Made' = Made /\ UNCHANGED raftVars /\ watcher' = watcher /\ syncTicker' = syncTicker
      BY <1>9 DEF Cancel, Shutdown, Tick, vars, Made
    <2> QED BY <2>1 DEF Lossless
  <1> QED BY <1>2, <1>3, <1>4, <1>5, <1>6, <1>7, <1>8, <1>9 DEF Next, Watch, SyncStep

\* The process panics only on a node that has lost the leadership: neither the
\* start of the first sync goroutine nor the end of the manager brings it down.
CrashNeedsLoss == Crashed => changes >= 2

\* The panic of the sync goroutine takes a loss of the leadership: a node that
\* became the leader once and stays it, or is shut down, does not crash.
THEOREM OnlyLossCrashes == Spec => []CrashNeedsLoss
  <1>1. Init => Lossless
    <2> SUFFICES ASSUME Init PROVE Lossless
      OBVIOUS
    <2>1. Made = {}
      BY DEF Init, Made
    <2>2. leaderCh # FALSE
      BY WatchAssumption DEF Init
    <2>3. ~isLeader /\ watcher = "select"
      BY DEF Init
    <2> QED BY <2>1, <2>2, <2>3 DEF Lossless
  <1>2. IInv /\ Lossless /\ [Next]_vars => Lossless'
    BY NextLossless
  <1>3. IInv /\ Lossless => CrashNeedsLoss
    BY WatchAssumption DEF IInv, TypeOK, Lossless, CrashNeedsLoss, Crashed
  <1> QED BY <1>1, <1>2, <1>3, WatchInductive, PTL DEF Spec
=============================================================================
