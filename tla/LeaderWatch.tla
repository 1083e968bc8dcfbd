----------------------------- MODULE LeaderWatch ----------------------------
(***************************************************************************)
(* Manager.watchLeadership: the goroutine that follows the leadership of   *)
(* Raft, and the sync goroutines it starts, one each time the node becomes *)
(* the leader.  The closures of all of them share the variables syncTicker *)
(* and syncStop of the watcher, with no lock; a sync goroutine reads both  *)
(* every time it comes to its select.                                      *)
(*                                                                         *)
(* External: Raft's LeaderCh, a channel of capacity one in which a newer   *)
(* notification replaces one not yet received; time.Ticker, a channel of   *)
(* capacity one.  Ticker number i and stop channel number i are the ones   *)
(* made for the i-th sync goroutine.                                       *)
(***************************************************************************)
EXTENDS Naturals, FiniteSets

CONSTANTS
  MaxChanges,  \* bound: changes of leadership
  Nil          \* no ticker, no channel, no notification

ASSUME WatchAssumption == MaxChanges \in Nat /\ Nil \notin Nat /\ Nil \notin BOOLEAN

Id == 1..MaxChanges

VARIABLES
  isLeader,    \* Raft's view of the leadership of this node
  changes,     \* changes of it so far
  leaderCh,    \* the notification in Raft's LeaderCh
  ctxDone,     \* ctx is cancelled
  stopped,     \* Manager.stopCh is closed (Shutdown)
  watcher,     \* where the watcher is
  syncTicker,  \* the shared variables
  syncStop,
  ticking,     \* tickers that are not stopped
  tick,        \* tickers with a tick in their channel
  closed,      \* how often each stop channel was closed
  pc,          \* where each sync goroutine is
  myStop,      \* the operands of the select it waits in
  myTicker

raftVars == <<isLeader, changes, leaderCh>>
endVars == <<ctxDone, stopped>>
sharedVars == <<syncTicker, syncStop>>
goVars == <<pc, myStop, myTicker>>
vars == <<raftVars, endVars, watcher, sharedVars, ticking, tick, closed, goVars>>

Init ==
  /\ isLeader = FALSE /\ changes = 0 /\ leaderCh = Nil
  /\ ctxDone = FALSE /\ stopped = FALSE
  /\ watcher = "select"
  /\ syncTicker = Nil /\ syncStop = Nil
  /\ ticking = {} /\ tick = {} /\ closed = [i \in Id |-> 0]
  /\ pc = [i \in Id |-> "none"]
  /\ myStop = [i \in Id |-> Nil] /\ myTicker = [i \in Id |-> Nil]

Made == {i \in Id : pc[i] # "none"}
Fresh == Cardinality(Made) + 1

-----------------------------------------------------------------------------
(* The surroundings *)

Change ==
  /\ changes < MaxChanges /\ changes' = changes + 1
  /\ isLeader' = ~isLeader /\ leaderCh' = ~isLeader
  /\ UNCHANGED <<endVars, watcher, sharedVars, ticking, tick, closed, goVars>>

Cancel ==
  /\ ~ctxDone /\ ctxDone' = TRUE
  /\ UNCHANGED <<raftVars, stopped, watcher, sharedVars, ticking, tick, closed, goVars>>

Shutdown ==
  /\ ~stopped /\ stopped' = TRUE
  /\ UNCHANGED <<raftVars, ctxDone, watcher, sharedVars, ticking, tick, closed, goVars>>

Tick(i) ==
  /\ i \in ticking /\ tick' = tick \cup {i}
  /\ UNCHANGED <<raftVars, endVars, watcher, sharedVars, ticking, closed, goVars>>

(* The watcher *)

CtxDone ==
  /\ watcher = "select" /\ ctxDone
  /\ watcher' = "done"
  /\ UNCHANGED <<raftVars, endVars, sharedVars, ticking, tick, closed, goVars>>

\* syncTicker.Stop() and close(syncStop).
StopSync ==
  /\ ticking' = ticking \ {syncTicker}
  /\ closed' = [closed EXCEPT ![syncStop] = @ + 1]

\* Faulty: leaves the loop only if it has something to stop.
StopCh_OnlyLeading ==
  /\ watcher = "select" /\ stopped /\ syncTicker # Nil
  /\ watcher' = "done"
  /\ StopSync
  /\ UNCHANGED <<raftVars, endVars, sharedVars, tick, goVars>>

\* Faulty: a break, which leaves the select but not the loop.
StopCh_Breaks ==
  /\ watcher = "select" /\ stopped
  /\ IF syncTicker # Nil THEN StopSync ELSE UNCHANGED <<ticking, closed>>
  /\ UNCHANGED <<raftVars, endVars, watcher, sharedVars, tick, goVars>>

StopCh ==
  /\ watcher = "select" /\ stopped
  /\ watcher' = "done"
  /\ IF syncTicker # Nil THEN StopSync ELSE UNCHANGED <<ticking, closed>>
  /\ UNCHANGED <<raftVars, endVars, sharedVars, tick, goVars>>

\* Faulty: does not ask whether a ticker is already there.
Gain_Unchecked ==
  /\ watcher = "select" /\ leaderCh = TRUE
  /\ leaderCh' = Nil
  /\ syncTicker' = Fresh /\ ticking' = ticking \cup {Fresh}
  /\ watcher' = "start"
  /\ UNCHANGED <<isLeader, changes, endVars, syncStop, tick, closed, goVars>>

\* Became the leader: first the new ticker ...
Gain ==
  /\ watcher = "select" /\ leaderCh = TRUE
  /\ leaderCh' = Nil
  /\ IF syncTicker = Nil
     THEN /\ syncTicker' = Fresh /\ ticking' = ticking \cup {Fresh}
          /\ watcher' = "start"
     ELSE UNCHANGED <<syncTicker, ticking, watcher>>
  /\ UNCHANGED <<isLeader, changes, endVars, syncStop, tick, closed, goVars>>

\* ... then the new stop channel, then the goroutine.
StartSync ==
  /\ watcher = "start"
  /\ syncStop' = Fresh
  /\ pc' = [pc EXCEPT ![Fresh] = "top"]
  /\ watcher' = "select"
  /\ UNCHANGED <<raftVars, endVars, syncTicker, ticking, tick, closed, myStop, myTicker>>

\* Lost the leadership: stop both ...
Lose ==
  /\ watcher = "select" /\ leaderCh = FALSE
  /\ leaderCh' = Nil
  /\ IF syncTicker # Nil
     THEN StopSync /\ watcher' = "clear ticker"
     ELSE UNCHANGED <<ticking, closed, watcher>>
  /\ UNCHANGED <<isLeader, changes, endVars, sharedVars, tick, goVars>>

\* Faulty: the stopped ticker is kept.
ClearTicker_Keeps ==
  /\ watcher = "clear ticker"
  /\ watcher' = "clear stop"
  /\ UNCHANGED <<raftVars, endVars, sharedVars, ticking, tick, closed, goVars>>

\* ... then forget the ticker, then the channel.
ClearTicker ==
  /\ watcher = "clear ticker"
  /\ syncTicker' = Nil
  /\ watcher' = "clear stop"
  /\ UNCHANGED <<raftVars, endVars, syncStop, ticking, tick, closed, goVars>>

\* Faulty: the channel is reset to a number instead of nil.
ClearStop_Zero ==
  /\ watcher = "clear stop"
  /\ syncStop' = 0
  /\ watcher' = "select"
  /\ UNCHANGED <<raftVars, endVars, syncTicker, ticking, tick, closed, goVars>>

ClearStop ==
  /\ watcher = "clear stop"
  /\ syncStop' = Nil
  /\ watcher' = "select"
  /\ UNCHANGED <<raftVars, endVars, syncTicker, ticking, tick, closed, goVars>>

Watch ==
  CtxDone \/ StopCh \/ Gain \/ StartSync \/ Lose \/ ClearTicker \/ ClearStop

(* A sync goroutine: evaluate the operands of the select, wait, sync *)

ReadStop(i) ==
  /\ pc[i] = "top"
  /\ myStop' = [myStop EXCEPT ![i] = syncStop]
  /\ pc' = [pc EXCEPT ![i] = "read"]
  /\ UNCHANGED <<raftVars, endVars, watcher, sharedVars, ticking, tick, closed, myTicker>>

\* syncTicker.C panics when the watcher has set syncTicker to nil, and a panic
\* ends the process.
ReadTicker(i) ==
  /\ pc[i] = "read"
  /\ IF syncTicker = Nil
     THEN /\ watcher' = "dead" /\ ticking' = {}
          /\ pc' = [j \in Id |-> IF pc[j] = "none" THEN "none" ELSE "dead"]
          /\ UNCHANGED myTicker
     ELSE /\ myTicker' = [myTicker EXCEPT ![i] = syncTicker]
          /\ pc' = [pc EXCEPT ![i] = "wait"]
          /\ UNCHANGED <<watcher, ticking>>
  /\ UNCHANGED <<raftVars, endVars, sharedVars, tick, closed, myStop>>

\* A nil channel never delivers.
SeeStop(i) ==
  /\ pc[i] = "wait" /\ myStop[i] # Nil /\ closed[myStop[i]] > 0
  /\ pc' = [pc EXCEPT ![i] = "done"]
  /\ UNCHANGED <<raftVars, endVars, watcher, sharedVars, ticking, tick, closed, myStop,
                 myTicker>>

SeeTick(i) ==
  /\ pc[i] = "wait" /\ myTicker[i] \in tick
  /\ tick' = tick \ {myTicker[i]}
  /\ pc' = [pc EXCEPT ![i] = "sync"]
  /\ UNCHANGED <<raftVars, endVars, watcher, sharedVars, ticking, closed, myStop,
                 myTicker>>

\* maybeSyncOnSchedule (see module Manager) returns.
Synced(i) ==
  /\ pc[i] = "sync"
  /\ pc' = [pc EXCEPT ![i] = "top"]
  /\ UNCHANGED <<raftVars, endVars, watcher, sharedVars, ticking, tick, closed, myStop,
                 myTicker>>

SyncStep(i) == ReadStop(i) \/ ReadTicker(i) \/ SeeStop(i) \/ SeeTick(i) \/ Synced(i)

Next ==
  \/ Change \/ Cancel \/ Shutdown
  \/ Watch
  \/ \E i \in Id : Tick(i) \/ SyncStep(i)

Spec == Init /\ [][Next]_vars

\* Goroutines run when they can; a ticker that is not stopped ticks again.
Fairness ==
  /\ WF_vars(Watch)
  /\ \A i \in Id : WF_vars(SyncStep(i)) /\ WF_vars(Tick(i))

FairSpec == Spec /\ Fairness

-----------------------------------------------------------------------------
(* Properties *)

\* The variables stay within their types.
TypeOK ==
  /\ isLeader \in BOOLEAN /\ changes \in 0..MaxChanges
  /\ leaderCh \in BOOLEAN \cup {Nil}
  /\ ctxDone \in BOOLEAN /\ stopped \in BOOLEAN
  /\ watcher \in {"select", "start", "clear ticker", "clear stop", "done",
                 "dead"}
  /\ syncTicker \in Id \cup {Nil} /\ syncStop \in Id \cup {Nil}
  /\ ticking \subseteq Id /\ tick \subseteq Id /\ closed \in [Id -> Nat]
  /\ pc \in [Id -> {"none", "top", "read", "wait", "sync", "done", "dead"}]
  /\ myStop \in [Id -> Id \cup {Nil}] /\ myTicker \in [Id -> Id \cup {Nil}]

Crashed == watcher = "dead"

\* No stop channel is closed twice, which would panic, whatever notifications
\* LeaderCh merges and whichever way the watcher ends (watchLeadership).
NoDoubleClose == \A i \in Id : closed[i] <= 1

\* No ticker goes on without a way to stop it while the watcher is there: each
\* one that runs is the one in syncTicker, whose channel is open.
OneTicker ==
  watcher = "select" =>
    \A i \in ticking : i = syncTicker /\ i = syncStop /\ closed[i] = 0

\* If the node remains the leader, and neither ctx nor the manager ends, its
\* databases are synchronised again and again, unless the process panics.
LeaderSyncs ==
  []<>(\/ ~isLeader \/ ctxDone \/ stopped \/ Crashed
       \/ \E i \in Id : pc[i] = "sync")

\* The watcher ends when the manager is shut down or its ctx is cancelled.
WatcherEnds == stopped \/ ctxDone ~> watcher = "done" \/ Crashed

(* Statements of the comments and documents that the code does not keep *)

\* A change of leadership does not bring the process down.
NeverCrashes == ~Crashed
=============================================================================
