-------------------------- MODULE ClusterFormation --------------------------
(***************************************************************************)
(* How a cluster comes into being and changes: NewManager and StartCluster *)
(* on every node, which either bootstrap a cluster of one node or ask the  *)
(* peers of an environment variable to be added, WaitForLeader, and the    *)
(* calls AddPeer and RemovePeer; with processes that end and start again.  *)
(*                                                                         *)
(* A server of Raft is identified by its address, a string: the same node  *)
(* may be reachable at several of them, and knows itself by one (Own).     *)
(*                                                                         *)
(* External: Raft, reduced to the latest configuration in the log of each  *)
(* node, terms, elections and the replication of that configuration; and   *)
(* the Bolt stores, whose file lock a process holds until it ends.  Nodes  *)
(* that are up reach each other.                                           *)
(***************************************************************************)
EXTENDS Naturals, FiniteSets

CONSTANTS
  Node,
  Address,     \* strings that may stand for a node
  Own,         \* Own[n]: the address n advertises, its server ID
  At,          \* At[i]: the node that listens at address i, or Nobody
  Env,         \* Env[n]: addresses in the environment variable of n
  Bind,        \* Bind[n]: the bind address of n, as configured
  Valid,       \* addresses that ValidatePeerAddress accepts
  Wanted,      \* addresses the operator may add
  Unwanted,    \* addresses the operator may remove
  Nobody,
  MaxStarts,   \* bound: calls of NewManager on a node
  MaxVersion   \* bound: configurations of the cluster

ASSUME FormationAssumption ==
  /\ Own \in [Node -> Address] /\ At \in [Address -> Node \cup {Nobody}]
  /\ \A n \in Node : At[Own[n]] = n
  /\ Env \in [Node -> SUBSET Address] /\ DOMAIN Bind = Node
  /\ Valid \subseteq Address /\ Wanted \cup Unwanted \subseteq Address
  /\ Nobody \notin Node \cup Address
  /\ MaxStarts \in Nat /\ MaxVersion \in Nat

VARIABLES
  proc,     \* proc[n]: where NewManager is on n
  starts,   \* starts[n]: how often it was called
  stores,   \* stores[n]: the process of n has the log store open
  raftUp,   \* raftUp[n]: a Raft instance runs in the process of n
  conf,     \* conf[n]: the latest configuration in the log of n
  term,     \* term[n]: the current term of n
  leading,  \* leading[n]: State() is Leader
  leader,   \* leader[n]: the address Leader() returns, or Nobody
  change,   \* change[n]: the AddPeer or RemovePeer call in progress on n
  members   \* addresses whose AddPeer succeeded and that nobody has removed

procVars == <<proc, starts, stores>>
logVars == <<conf, term>>
roleVars == <<leading, leader>>
vars == <<procVars, raftUp, logVars, roleVars, change, members>>

NoConf == [term |-> 0, version |-> 0, ids |-> {}, seed |-> Nobody]
NoChange == [op |-> "none", id |-> Nobody]

Init ==
  /\ proc = [n \in Node |-> "off"] /\ starts = [n \in Node |-> 0]
  /\ stores = [n \in Node |-> FALSE] /\ raftUp = [n \in Node |-> FALSE]
  /\ conf = [n \in Node |-> NoConf] /\ term = [n \in Node |-> 0]
  /\ leading = [n \in Node |-> FALSE] /\ leader = [n \in Node |-> Nobody]
  /\ change = [n \in Node |-> NoChange] /\ members = {}

\* DiscoverAndValidatePeers, NormalizePeerAddresses (which finds nothing left
\* to do, for an address without a port is not valid) and RemoveSelfFromPeers.
Peers(n) == (Env[n] \cap Valid) \ {Own[n], Bind[n]}

\* More than half of the servers of configuration c satisfy P.
Most(c, S) == 2 * Cardinality(c.ids \cap S) > Cardinality(c.ids)

UpIds == {i \in Address : At[i] # Nobody /\ raftUp[At[i]]}

-----------------------------------------------------------------------------
(* NewManager and StartCluster *)

Goto(n, where) == proc' = [proc EXCEPT ![n] = where]

\* Also a second call in the same process, after one that failed.
NewManager(n) ==
  /\ proc[n] \in {"off", "failed"} /\ starts[n] < MaxStarts
  /\ Goto(n, "prepare")
  /\ starts' = [starts EXCEPT ![n] = @ + 1]
  /\ UNCHANGED <<stores, raftUp, logVars, roleVars, change, members>>

\* The configuration is invalid, a database cannot be provisioned or opened.
PrepareFails(n) ==
  /\ proc[n] = "prepare"
  /\ Goto(n, "failed")
  /\ UNCHANGED <<starts, stores, raftUp, logVars, roleVars, change, members>>

\* Faulty: the log is opened although this process has it open already.
OpenStores_Twice(n) ==
  /\ proc[n] = "prepare"
  /\ Goto(n, "open")
  /\ stores' = [stores EXCEPT ![n] = TRUE]
  /\ UNCHANGED <<starts, raftUp, logVars, roleVars, change, members>>

\* NewBoltStore waits without a timeout for the lock of logs.db, which no
\* error path of StartCluster and not even Shutdown gives back.
OpenStores(n) ==
  /\ proc[n] = "prepare"
  /\ IF stores[n] THEN Goto(n, "hung") ELSE Goto(n, "open")
  /\ stores' = [stores EXCEPT ![n] = TRUE]
  /\ UNCHANGED <<starts, raftUp, logVars, roleVars, change, members>>

\* The stable store, the snapshot store, the listener or NewRaft fails.
OpenFails(n) ==
  /\ proc[n] = "open"
  /\ Goto(n, "failed")
  /\ UNCHANGED <<starts, stores, raftUp, logVars, roleVars, change, members>>

\* Faulty: the stores are kept in memory.
NewRaft_Forgets(n) ==
  /\ proc[n] = "open"
  /\ Goto(n, "boot")
  /\ raftUp' = [raftUp EXCEPT ![n] = TRUE]
  /\ conf' = [conf EXCEPT ![n] = NoConf] /\ term' = [term EXCEPT ![n] = 0]
  /\ UNCHANGED <<starts, stores, roleVars, change, members>>

NewRaft(n) ==
  /\ proc[n] = "open"
  /\ Goto(n, "boot")
  /\ raftUp' = [raftUp EXCEPT ![n] = TRUE]
  /\ UNCHANGED <<starts, stores, logVars, roleVars, change, members>>

\* Faulty: the server is identified by the name of the node.
Bootstrap_Named(n) ==
  /\ proc[n] = "boot" /\ Peers(n) = {}
  /\ Goto(n, "waiting")
  /\ conf' = [conf EXCEPT ![n] = [term |-> 1, version |-> 1, ids |-> {n}, seed |-> n]]
  /\ term' = [term EXCEPT ![n] = 1]
  /\ UNCHANGED <<starts, stores, raftUp, roleVars, change, members>>

\* Faulty: the refusal is taken for a cluster that is there already.
Bootstrap_Tolerant(n) ==
  /\ proc[n] = "boot" /\ Peers(n) = {}
  /\ Goto(n, "waiting")
  /\ IF term[n] = 0
     THEN /\ conf' = [conf EXCEPT ![n] =
               [term |-> 1, version |-> 1, ids |-> {Own[n]}, seed |-> n]]
          /\ term' = [term EXCEPT ![n] = 1]
     ELSE UNCHANGED logVars
  /\ UNCHANGED <<starts, stores, raftUp, roleVars, change, members>>

\* Without peers: a new cluster of this node alone.  BootstrapCluster refuses
\* if the stores hold a term or a log; the Raft instance is then left running.
Bootstrap(n) ==
  /\ proc[n] = "boot" /\ Peers(n) = {}
  /\ IF term[n] = 0
     THEN /\ conf' = [conf EXCEPT ![n] =
               [term |-> 1, version |-> 1, ids |-> {Own[n]}, seed |-> n]]
          /\ term' = [term EXCEPT ![n] = 1]
          /\ Goto(n, "waiting")
     ELSE Goto(n, "failed") /\ UNCHANGED logVars
  /\ UNCHANGED <<starts, stores, raftUp, roleVars, change, members>>

\* Faulty: a node that no peer has answered bootstraps a cluster.
Join_Bootstraps(n) ==
  /\ proc[n] = "boot" /\ Peers(n) # {}
  /\ Goto(n, "waiting")
  /\ IF term[n] = 0
     THEN /\ conf' = [conf EXCEPT ![n] =
               [term |-> 1, version |-> 1, ids |-> {Own[n]}, seed |-> n]]
          /\ term' = [term EXCEPT ![n] = 1]
     ELSE UNCHANGED logVars
  /\ UNCHANGED <<starts, stores, raftUp, roleVars, change, members>>

\* With peers: AddVoter for each of them.  A node that has just started is a
\* follower, so each is refused, and only a warning is printed.
Join(n) ==
  /\ proc[n] = "boot" /\ Peers(n) # {}
  /\ Goto(n, "waiting")
  /\ UNCHANGED <<starts, stores, raftUp, logVars, roleVars, change, members>>

\* IsLeader and GetLeader of package raft.
IsLeader(n) == raftUp[n] /\ leading[n]
GetLeader(n) == IF IsLeader(n) THEN Own[n] ELSE leader[n]

\* Faulty: only the leader itself is ready.
Ready_LeaderOnly(n) ==
  /\ proc[n] = "waiting" /\ IsLeader(n)
  /\ Goto(n, "running")
  /\ UNCHANGED <<starts, stores, raftUp, logVars, roleVars, change, members>>

\* WaitForLeader finds a leader: NewManager returns the manager.
Ready(n) ==
  /\ proc[n] = "waiting" /\ GetLeader(n) # Nobody
  /\ Goto(n, "running")
  /\ UNCHANGED <<starts, stores, raftUp, logVars, roleVars, change, members>>

(* Raft (external) *)

\* Configuration c is at least as new as d.
AtLeast(c, d) ==
  c.term > d.term \/ (c.term = d.term /\ c.version >= d.version)

\* Node m would vote for n, which asks for it because n has missed its leader.
Grants(m, n) ==
  /\ raftUp[m] /\ leader[m] = Nobody /\ ~leading[m]
  /\ AtLeast(conf[n], conf[m])
  /\ conf[m].ids = {} \/ Own[n] \in conf[m].ids

Supporters(n) == {i \in conf[n].ids : At[i] # Nobody /\ Grants(At[i], n)}

Candidate(n) ==
  raftUp[n] /\ ~leading[n] /\ leader[n] = Nobody /\ Own[n] \in conf[n].ids

\* Any majority of its supporters may answer first.  They hear from the winner
\* before any of them asks for another election.
Elect(n) ==
  /\ Candidate(n) /\ proc[n] # "boot"
  /\ \E Q \in SUBSET Supporters(n) :
       LET voters == {At[i] : i \in Q}
       IN /\ Own[n] \in Q /\ Most(conf[n], Q)
          /\ \E t \in {term[m] + 1 : m \in voters} :
               /\ \A m \in voters : term[m] < t
               /\ term' = [m \in Node |-> IF m \in voters THEN t ELSE term[m]]
               /\ conf' = [conf EXCEPT ![n].term = t]
          /\ leader' = [m \in Node |-> IF m \in voters \ {n} THEN Own[n] ELSE leader[m]]
  /\ leading' = [leading EXCEPT ![n] = TRUE]
  /\ UNCHANGED <<procVars, raftUp, change, members>>

\* The leader n brings server i up to its own log; if that led as well, the
\* change that it was asked for fails.
Replicate(n, i) ==
  LET m == At[i]
  IN /\ IsLeader(n) /\ i \in conf[n].ids /\ m \notin {n, Nobody}
     /\ raftUp[m] /\ term[m] <= term[n]
     /\ conf' = [conf EXCEPT ![m] = conf[n]]
     /\ term' = [term EXCEPT ![m] = term[n]]
     /\ leader' = [leader EXCEPT ![m] = Own[n]]
     /\ leading' = [leading EXCEPT ![m] = FALSE]
     /\ change' = [change EXCEPT ![m] = NoChange]
     /\ UNCHANGED <<procVars, raftUp, members>>

\* The leader m knew is gone, or has removed it.
Forsaken(m) ==
  leader[m] # Nobody /\ LET n == At[leader[m]]
                        IN ~(IsLeader(n) /\ \E i \in conf[n].ids : At[i] = m)

LoseLeader(m) ==
  /\ Forsaken(m)
  /\ leader' = [leader EXCEPT ![m] = Nobody]
  /\ UNCHANGED <<procVars, raftUp, logVars, leading, change, members>>

\* A leader without a majority, or with a server that knows of a newer term or
\* that is the leader itself, by another address: it becomes its own follower.
Deposed(n) ==
  leading[n] /\ \/ ~Most(conf[n], UpIds)
                \/ \E i \in (conf[n].ids \ {Own[n]}) \cap UpIds :
                     At[i] = n \/ term[At[i]] > term[n]

\* It gives up: what it has not committed fails.
StepDown(n) ==
  /\ Deposed(n)
  /\ leading' = [leading EXCEPT ![n] = FALSE]
  /\ change' = [change EXCEPT ![n] = NoChange]
  /\ UNCHANGED <<procVars, raftUp, logVars, leader, members>>

(* AddPeer and RemovePeer *)

Committed(n) == Most(conf[n], {i \in UpIds : conf[At[i]] = conf[n]})

\* Faulty: adds the server under another address of its node.
AddPeer_Alias(n, i) ==
  /\ proc[n] = "running" /\ change[n] = NoChange /\ i \in Wanted \cap Valid
  /\ IsLeader(n) /\ Committed(n) /\ conf[n].version < MaxVersion
  /\ \E j \in Address \ {i} :
       /\ At[j] = At[i]
       /\ conf' = [conf EXCEPT ![n].version = @ + 1, ![n].ids = @ \cup {j}]
       /\ change' = [change EXCEPT ![n] = [op |-> "add", id |-> j]]
  /\ UNCHANGED <<procVars, raftUp, term, roleVars, members>>

\* Raft takes up a change when the one before it is committed.
AddPeer(n, i) ==
  /\ proc[n] = "running" /\ change[n] = NoChange /\ i \in Wanted \cap Valid
  /\ IsLeader(n) /\ Committed(n) /\ conf[n].version < MaxVersion
  /\ conf' = [conf EXCEPT ![n].version = @ + 1, ![n].ids = @ \cup {i}]
  /\ change' = [change EXCEPT ![n] = [op |-> "add", id |-> i]]
  /\ UNCHANGED <<procVars, raftUp, term, roleVars, members>>

RemovePeer(n, i) ==
  /\ proc[n] = "running" /\ change[n] = NoChange /\ i \in Unwanted
  /\ IsLeader(n) /\ Committed(n) /\ conf[n].version < MaxVersion
  /\ conf[n].ids # {i}
  /\ conf' = [conf EXCEPT ![n].version = @ + 1, ![n].ids = @ \ {i}]
  /\ change' = [change EXCEPT ![n] = [op |-> "remove", id |-> i]]
  /\ members' = members \ {i}
  /\ UNCHANGED <<procVars, raftUp, term, roleVars>>

\* The future completes without an error.  A leader that has removed itself
\* shuts its Raft instance down.
ChangeDone(n) ==
  /\ change[n] # NoChange /\ IsLeader(n) /\ Committed(n)
  /\ change' = [change EXCEPT ![n] = NoChange]
  /\ members' = IF change[n].op = "add" THEN members \cup {change[n].id} ELSE members
  /\ IF Own[n] \in conf[n].ids THEN UNCHANGED <<raftUp, leading>>
     ELSE /\ raftUp' = [raftUp EXCEPT ![n] = FALSE]
          /\ leading' = [leading EXCEPT ![n] = FALSE]
  /\ UNCHANGED <<procVars, logVars, leader>>

(* The end of a manager *)

RaftEnds(n) ==
  /\ raftUp' = [raftUp EXCEPT ![n] = FALSE]
  /\ leading' = [leading EXCEPT ![n] = FALSE]
  /\ leader' = [leader EXCEPT ![n] = Nobody]
  /\ change' = [change EXCEPT ![n] = NoChange]
  /\ UNCHANGED <<starts, logVars, members>>

\* The process goes on, and with it the lock of the stores.
Shutdown(n) ==
  /\ proc[n] = "running"
  /\ Goto(n, "off") /\ UNCHANGED stores
  /\ RaftEnds(n)

Exit(n) ==
  /\ starts[n] > 0 /\ (proc[n] # "off" \/ stores[n])
  /\ Goto(n, "off") /\ stores' = [stores EXCEPT ![n] = FALSE]
  /\ RaftEnds(n)

\* Thirty seconds are longer than an election takes and than a leader takes to
\* reach the servers of its configuration, but the operator may be too late.
SoonLed(n) ==
  \E m \in Node :
    \/ Forsaken(m) \/ Deposed(m)
    \/ Candidate(m) /\ Most(conf[m], Supporters(m))
    \/ IsLeader(m) /\ \E i \in conf[m].ids : At[i] = n

\* WaitForLeader gives up.  The Raft instance goes on.
Timeout(n) ==
  /\ proc[n] = "waiting" /\ GetLeader(n) = Nobody /\ ~SoonLed(n)
  /\ Goto(n, "failed")
  /\ UNCHANGED <<starts, stores, raftUp, logVars, roleVars, change, members>>

Boot(n) ==
  PrepareFails(n) \/ OpenStores(n) \/ OpenFails(n) \/ NewRaft(n) \/ Bootstrap(n) \/ Join(n)

Next ==
  \E n \in Node :
    \/ NewManager(n) \/ Boot(n) \/ Ready(n) \/ Timeout(n)
    \/ Elect(n) \/ LoseLeader(n) \/ StepDown(n) \/ ChangeDone(n)
    \/ \E i \in Address : Replicate(n, i) \/ AddPeer(n, i) \/ RemovePeer(n, i)
    \/ Shutdown(n) \/ Exit(n)

Spec == Init /\ [][Next]_vars

\* A process that runs goes on, a leader reaches its servers, and one of them
\* wins when it can; nobody has to start, add, remove or end anything.
Fairness ==
  /\ \A n \in Node : WF_vars(Boot(n) \/ Ready(n) \/ Timeout(n))
  /\ \A n \in Node : WF_vars(Elect(n) \/ LoseLeader(n) \/ StepDown(n) \/ ChangeDone(n))
  /\ \A i \in Address : WF_vars(\E n \in Node : Replicate(n, i))

FairSpec == Spec /\ Fairness

-----------------------------------------------------------------------------
(* Properties *)

Conf == [term : Nat, version : Nat, ids : SUBSET Address, seed : Node \cup {Nobody}]

Change == [op : {"add", "remove"}, id : Address] \cup {NoChange}

\* The variables stay within their types.
TypeOK ==
  /\ proc \in [Node -> {"off", "prepare", "open", "boot", "waiting", "running",
                        "failed", "hung"}]
  /\ starts \in [Node -> Nat] /\ stores \in [Node -> BOOLEAN]
  /\ raftUp \in [Node -> BOOLEAN]
  /\ conf \in [Node -> Conf] /\ term \in [Node -> Nat]
  /\ leading \in [Node -> BOOLEAN] /\ leader \in [Node -> Address \cup {Nobody}]
  /\ change \in [Node -> Change]
  /\ members \subseteq Address

\* If one node only starts without peers, there is one cluster, whatever fails,
\* restarts or times out: no two nodes ever hold configurations that go back to
\* different bootstraps.
OneCluster ==
  \A n, m \in Node :
    conf[n] # NoConf /\ conf[m] # NoConf => conf[n].seed = conf[m].seed

\* A leader whose term is the newest, or whose configuration is committed, has
\* every server whose AddPeer has returned nil and that nobody has removed since.
AddedStays ==
  \A n \in Node :
    IsLeader(n) /\ (Committed(n) \/ \A m \in Node : term[m] <= term[n])
      => members \subseteq conf[n].ids

Down == {"off", "prepare", "open", "boot", "failed", "hung"}

\* A node without peers that has once been in a term, as founder of a cluster or
\* otherwise, and has no manager and none in the making ...
Stranded(n) == Peers(n) = {} /\ term[n] > 0 /\ proc[n] \in Down

\* ... never gets one again, however often it is started, alone or in a cluster
\* whose other nodes run on.
FounderIsLost == [][\A n \in Node : Stranded(n) => Stranded(n)']_vars

\* The process of n has the stores open and no manager to use them ...
Orphaned(n) == stores[n] /\ proc[n] \in {"off", "prepare", "failed", "hung"}

\* ... and makes no manager any more, whether one was shut down or one failed to
\* start: the stores come free only with the end of the process.
ManagerOncePerProcess ==
  [][\A n \in Node : Orphaned(n) => Orphaned(n)' \/ ~stores'[n]]_vars

\* The newest configuration in a log of the nodes that are up.
Newest(n) == raftUp[n] /\ \A m \in Node : raftUp[m] => AtLeast(conf[n], conf[m])

\* The operator has added a node by an address which is not the one it knows
\* itself by, such as a host name: it serves and votes, but never campaigns.
Misnamed(n) ==
  \E i \in conf[n].ids \cap Wanted : At[i] # Nobody /\ Own[At[i]] # i

\* A majority of its servers is up and holds it; and if a node was added under
\* a host name, one of those that hold it finds itself in it.
MajorityUp ==
  \E n \in Node :
    /\ Newest(n) /\ Committed(n)
    /\ Misnamed(n) => \E m \in Node : Newest(m) /\ Own[m] \in conf[m].ids

\* Whatever nodes ended, timed out and started again, were added and removed,
\* some node leads again and again while a majority of the cluster is up.  Not
\* so if all nodes of that majority with the newest log were added by a host
\* name, as the comment of AddPeer recommends (Misnamed).
LeaderReturns == []<>(MajorityUp => \E n \in Node : IsLeader(n))

\* A server that no configuration leaves out.
Member(n) == \A m \in Node : conf[m] # NoConf => Own[n] \in conf[m].ids

\* A member that names peers and starts again gets its manager, while a
\* majority of the cluster is up (with the exception of LeaderReturns).
MemberStarts ==
  \A n \in Node :
    proc[n] = "waiting" /\ conf[n] # NoConf
      ~> proc[n] \in {"running", "off"} \/ ~MajorityUp \/ ~Member(n)

(* Statements of the comments and documents that the code does not keep *)

\* A node that has started its Raft instance gets its manager or is stopped.
Starts ==
  \A n \in Node : proc[n] = "boot" ~> proc[n] \in {"running", "off"}
=============================================================================
