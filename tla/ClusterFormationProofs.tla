----------------------- MODULE ClusterFormationProofs -----------------------
(* Theorems about ClusterFormation, for any nodes, addresses, environments  *)
(* and bounds.                                                              *)
EXTENDS ClusterFormation, FiniteSetTheorems, TLAPS

-----------------------------------------------------------------------------
(* The parts of the invariant of AddedStays *)

\* What makes AddedStays inductive.  With f[n] for the configuration of n and t[n] for
\* its term: servers that are past configuration c, that are in term k or a
\* later one, and that hold c; c is active while a majority of it is not past it.
Past(f, c) == {i \in Address : At[i] # Nobody /\ ~AtLeast(c, f[At[i]])}
InTerm(t, k) == {i \in Address : At[i] # Nobody /\ t[At[i]] >= k}
Holding(f, c) == {i \in Address : At[i] # Nobody /\ f[At[i]] = c}
Active(f, c) == Most(c, Address \ Past(f, c))

\* Every majority of c has a server in S; any two majorities of c and d meet.
Blocks(c, S) == ~Most(c, Address \ S)
Meet(c, d) ==
  \A S, T \in SUBSET Address :
    Most(c, S) /\ Most(d, T) => c.ids \cap S \cap d.ids \cap T # {}

\* A configuration is no newer than the term of its node, and that of a leader
\* is as new; terms and versions identify configurations and leaders ...
TermsOrdered ==
  \A n \in Node :
    /\ conf[n].term <= term[n] /\ IsFiniteSet(conf[n].ids)
    /\ conf[n] # NoConf =>
         conf[n].ids # {} /\ conf[n].term > 0 /\ term[conf[n].seed] > 0
    /\ leading[n] => conf[n] # NoConf /\ conf[n].term = term[n]

Identified ==
  \A n, m \in Node :
    /\ conf[n].term = conf[m].term /\ conf[n].version = conf[m].version
         => conf[n] = conf[m]
    /\ leading[n] /\ leading[m] /\ term[n] = term[m] => n = m
    /\ leading[n] /\ conf[m].term = term[n] => conf[m].version <= conf[n].version

\* ... majorities of active configurations meet, and know of every term there
\* is a configuration of ...
ActiveMeet ==
  \A n, m \in Node :
    /\ Active(conf, conf[n]) /\ Active(conf, conf[m]) => Meet(conf[n], conf[m])
    /\ Active(conf, conf[n]) => Blocks(conf[n], InTerm(term, conf[m].term))

\* ... a leader behind the term of a configuration cannot commit its own, or
\* has the same servers, of which a majority is in that term ...
StaleLeader ==
  \A n, m \in Node :
    leading[n] /\ term[n] < conf[m].term /\ Active(conf, conf[n]) =>
      \/ Blocks(conf[n], InTerm(term, term[n] + 1) \ Holding(conf, conf[n]))
      \/ conf[m].ids = conf[n].ids /\ Most(conf[n], InTerm(term, conf[m].term))

\* ... and what was added is in every active configuration, what is being added
\* in that of the leader.
AddedActive ==
  /\ members # {} => \E n \in Node : conf[n] # NoConf
  /\ \A n \in Node :
       /\ Active(conf, conf[n]) => members \subseteq conf[n].ids
       /\ change[n].op = "add" => leading[n] /\ change[n].id \in conf[n].ids

-----------------------------------------------------------------------------
(* The inductive invariant of OneCluster *)

\* The nodes that bootstrap a cluster when they start.
Seeds == {n \in Node : Peers(n) = {}}

\* Every configuration goes back to the bootstrap of a node without peers.
FromASeed == \A n \in Node : conf[n] = NoConf \/ conf[n].seed \in Seeds

FormationInv == TypeOK /\ FromASeed

LEMMA NothingTyped == NoConf \in Conf
  BY DEF NoConf, Conf

\* A node with a server in its configuration has a configuration.
LEMMA ServerMeansConf ==
  ASSUME NEW n \in Node, NEW i \in Address, i \in conf[n].ids
  PROVE  conf[n] # NoConf
  BY DEF NoConf

LEMMA InitInvariant == Init => FormationInv
  <1> SUFFICES ASSUME Init PROVE FormationInv
    OBVIOUS
  <1>1. TypeOK
    BY NothingTyped DEF Init, TypeOK, Change
  <1>2. FromASeed
    BY DEF Init, FromASeed
  <1> QED BY <1>1, <1>2 DEF FormationInv

-----------------------------------------------------------------------------
(* The actions that write a configuration or a term *)

LEMMA BootstrapStep ==
  ASSUME FormationInv, NEW n \in Node, Bootstrap(n)
  PROVE  FormationInv'
  <1> USE DEF FormationInv
  <1> DEFINE c == [term |-> 1, version |-> 1, ids |-> {Own[n]}, seed |-> n]
  <1>1. CASE term[n] = 0
    <2>1. c \in Conf /\ n \in Seeds
      BY FormationAssumption DEF Conf, Seeds, Bootstrap
    <2>2. conf' = [conf EXCEPT ![n] = c]
      BY <1>1 DEF Bootstrap
    <2>3. TypeOK'
      BY <1>1, <2>1, <2>2 DEF TypeOK, Bootstrap, Goto, roleVars
    <2>4. FromASeed'
      BY <2>1, <2>2 DEF TypeOK, FromASeed
    <2> QED BY <2>3, <2>4
  <1>2. CASE term[n] # 0
    <2>1. TypeOK'
      BY <1>2 DEF TypeOK, Bootstrap, Goto, logVars, roleVars
    <2>2. FromASeed'
      BY <1>2 DEF FromASeed, Bootstrap, logVars
    <2> QED BY <2>1, <2>2
  <1> QED BY <1>1, <1>2

LEMMA ElectStep ==
  ASSUME FormationInv, NEW n \in Node, Elect(n)
  PROVE  FormationInv'
  <1> USE DEF FormationInv
  <1>1. PICK Q \in SUBSET Supporters(n) :
          /\ \E t \in {term[m] + 1 : m \in {At[i] : i \in Q}} :
               /\ term' = [m \in Node |-> IF m \in {At[i] : i \in Q} THEN t ELSE term[m]]
               /\ conf' = [conf EXCEPT ![n].term = t]
          /\ leader' = [m \in Node |-> IF m \in {At[i] : i \in Q} \ {n}
                                       THEN Own[n] ELSE leader[m]]
    BY DEF Elect
  <1>2. PICK t \in {term[m] + 1 : m \in {At[i] : i \in Q}} :
          /\ term' = [m \in Node |-> IF m \in {At[i] : i \in Q} THEN t ELSE term[m]]
          /\ conf' = [conf EXCEPT ![n].term = t]
    BY <1>1
  <1>3. t \in Nat
    <2>1. \A i \in Q : At[i] \in Node
      BY FormationAssumption DEF Supporters, TypeOK, Conf
    <2> QED BY <1>2, <2>1 DEF TypeOK
  <1>4. conf[n] # NoConf
    BY FormationAssumption, ServerMeansConf DEF Elect, Candidate
  <1>5. /\ conf' \in [Node -> Conf]
        /\ conf'[n].seed = conf[n].seed
        /\ \A m \in Node \ {n} : conf'[m] = conf[m]
    <2> DEFINE c == [conf[n] EXCEPT !.term = t]
    <2>1. conf[n] \in Conf
      BY DEF TypeOK
    <2>2. c \in Conf /\ c.seed = conf[n].seed
      BY <1>3, <2>1 DEF Conf
    <2>3. conf' = [conf EXCEPT ![n] = c]
      BY <1>2
    <2> HIDE DEF c
    <2> QED BY <2>2, <2>3 DEF TypeOK
  <1>6. TypeOK'
    <2>1. term' \in [Node -> Nat]
      BY <1>2, <1>3 DEF TypeOK
    <2>2. leader' \in [Node -> Address \cup {Nobody}]
      BY <1>1, FormationAssumption DEF TypeOK
    <2> QED BY <1>5, <2>1, <2>2 DEF TypeOK, Elect, procVars
  <1>7. FromASeed'
    BY <1>4, <1>5 DEF FromASeed
  <1> QED BY <1>6, <1>7

LEMMA ReplicateStep ==
  ASSUME FormationInv, NEW n \in Node, NEW i \in Address, Replicate(n, i)
  PROVE  FormationInv'
  <1> USE DEF FormationInv
  <1>1. At[i] \in Node /\ conf' = [conf EXCEPT ![At[i]] = conf[n]]
    BY FormationAssumption DEF Replicate
  <1>2. TypeOK'
    <2>1. conf' \in [Node -> Conf]
      BY <1>1 DEF TypeOK
    <2>2. term' \in [Node -> Nat] /\ leader' \in [Node -> Address \cup {Nobody}]
      BY <1>1, FormationAssumption DEF TypeOK, Replicate
    <2>3. leading' \in [Node -> BOOLEAN] /\ change' \in [Node -> Change]
      BY <1>1 DEF TypeOK, Replicate, Change
    <2> QED BY <2>1, <2>2, <2>3 DEF TypeOK, Replicate, procVars
  <1>3. FromASeed'
    BY <1>1 DEF TypeOK, FromASeed
  <1> QED BY <1>2, <1>3

\* AddPeer and RemovePeer change the servers of a configuration, not its origin.
LEMMA ChangeStep ==
  ASSUME FormationInv, NEW n \in Node, NEW i \in Address,
         AddPeer(n, i) \/ RemovePeer(n, i)
  PROVE  FormationInv'
  <1> USE DEF FormationInv
  <1>1. PICK S \in SUBSET Address :
          conf' = [conf EXCEPT ![n].version = @ + 1, ![n].ids = S]
    <2>1. conf[n].ids \cup {i} \in SUBSET Address /\ conf[n].ids \ {i} \in SUBSET Address
      BY DEF TypeOK, Conf
    <2> QED BY <2>1 DEF AddPeer, RemovePeer
  <1>2. /\ conf' \in [Node -> Conf]
        /\ conf'[n].seed = conf[n].seed
        /\ \A m \in Node \ {n} : conf'[m] = conf[m]
    <2> DEFINE v == [conf[n] EXCEPT !.version = conf[n].version + 1]
               c == [v EXCEPT !.ids = S]
    <2>1. conf[n] \in Conf
      BY DEF TypeOK
    <2>2. v \in Conf /\ v.seed = conf[n].seed
      BY <2>1 DEF Conf
    <2>3. conf' = [conf EXCEPT ![n] = c]
      BY <1>1 DEF TypeOK
    <2> HIDE DEF v
    <2>4. c \in Conf /\ c.seed = conf[n].seed
      BY <2>2 DEF Conf
    <2> HIDE DEF c
    <2> QED BY <2>3, <2>4 DEF TypeOK
  <1>3. conf[n] # NoConf
    <2> DEFINE H == {j \in UpIds : conf[At[j]] = conf[n]}
    <2>1. 2 * Cardinality(conf[n].ids \cap H) > Cardinality(conf[n].ids)
      BY DEF AddPeer, RemovePeer, Committed, Most
    <2>2. Cardinality({}) = 0
      BY FS_EmptySet
    <2>3. SUFFICES conf[n].ids # {}
      BY DEF NoConf
    <2> HIDE DEF H
    <2>4. conf[n].ids = {} => conf[n].ids \cap H = {}
      OBVIOUS
    <2> QED BY <2>1, <2>2, <2>4
  <1>4. TypeOK'
    <2>1. CASE AddPeer(n, i)
      <3>1. change' \in [Node -> Change]
        BY <2>1 DEF TypeOK, AddPeer, Change
      <3> QED BY <1>2, <2>1, <3>1 DEF TypeOK, AddPeer, procVars, roleVars
    <2>2. CASE RemovePeer(n, i)
      <3>1. change' \in [Node -> Change]
        BY <2>2 DEF TypeOK, RemovePeer, Change
      <3>2. members' \subseteq Address
        BY <2>2 DEF TypeOK, RemovePeer
      <3> QED BY <1>2, <2>2, <3>1, <3>2 DEF TypeOK, RemovePeer, procVars, roleVars
    <2> QED BY <2>1, <2>2
  <1>5. FromASeed'
    BY <1>2, <1>3 DEF FromASeed
  <1> QED BY <1>4, <1>5

-----------------------------------------------------------------------------
(* The other actions leave every configuration alone *)

LEMMA UnchangedConf ==
  ASSUME FromASeed, conf' = conf
  PROVE  FromASeed'
  BY DEF FromASeed

\* The steps of NewManager.
LEMMA StartStep ==
  ASSUME TypeOK, NEW n \in Node,
         \/ NewManager(n) \/ PrepareFails(n) \/ OpenStores(n) \/ OpenFails(n)
         \/ NewRaft(n) \/ Join(n) \/ Ready(n) \/ Timeout(n)
  PROVE  TypeOK' /\ conf' = conf
  <1>1. CASE NewManager(n)
    BY <1>1 DEF TypeOK, NewManager, Goto, logVars, roleVars
  <1>2. CASE OpenStores(n)
    BY <1>2 DEF TypeOK, OpenStores, Goto, logVars, roleVars
  <1>3. CASE NewRaft(n)
    BY <1>3 DEF TypeOK, NewRaft, Goto, logVars, roleVars
  <1>4. CASE PrepareFails(n) \/ OpenFails(n) \/ Join(n) \/ Ready(n) \/ Timeout(n)
    BY <1>4 DEF TypeOK, PrepareFails, OpenFails, Join, Ready, Timeout, Goto, logVars, roleVars
  <1> QED BY <1>1, <1>2, <1>3, <1>4

\* A node loses its leader or its leadership, a change completes.
LEMMA RoleStep ==
  ASSUME TypeOK, NEW n \in Node, LoseLeader(n) \/ StepDown(n) \/ ChangeDone(n)
  PROVE  TypeOK' /\ conf' = conf
  <1>1. CASE LoseLeader(n)
    BY <1>1 DEF TypeOK, LoseLeader, procVars, logVars
  <1>2. CASE StepDown(n)
    BY <1>2 DEF TypeOK, StepDown, procVars, logVars, Change
  <1>3. CASE ChangeDone(n)
    <2>1. change[n].id \in Address /\ change' \in [Node -> Change]
      BY <1>3 DEF TypeOK, ChangeDone, Change
    <2>2. members' \subseteq Address
      BY <1>3, <2>1 DEF TypeOK, ChangeDone
    <2>3. raftUp' \in [Node -> BOOLEAN] /\ leading' \in [Node -> BOOLEAN]
      BY <1>3 DEF TypeOK, ChangeDone
    <2> QED BY <1>3, <2>1, <2>2, <2>3 DEF TypeOK, ChangeDone, procVars, logVars
  <1> QED BY <1>1, <1>2, <1>3

\* A manager is shut down or its process ends.
LEMMA EndStep ==
  ASSUME TypeOK, NEW n \in Node, Shutdown(n) \/ Exit(n)
  PROVE  TypeOK' /\ conf' = conf
  <1>1. /\ proc' \in [Node -> {"off", "prepare", "open", "boot", "waiting", "running",
                               "failed", "hung"}]
        /\ stores' \in [Node -> BOOLEAN]
    BY DEF TypeOK, Shutdown, Exit, Goto
  <1>2. RaftEnds(n)
    BY DEF Shutdown, Exit
  <1>3. /\ raftUp' \in [Node -> BOOLEAN] /\ leading' \in [Node -> BOOLEAN]
        /\ leader' \in [Node -> Address \cup {Nobody}]
        /\ change' \in [Node -> Change]
    BY <1>2 DEF TypeOK, RaftEnds, Change
  <1> QED BY <1>1, <1>2, <1>3 DEF TypeOK, RaftEnds, logVars

-----------------------------------------------------------------------------
(* The theorems *)

LEMMA StepInvariant == FormationInv /\ [Next]_vars => FormationInv'
  <1> SUFFICES ASSUME FormationInv, [Next]_vars PROVE FormationInv'
    OBVIOUS
  <1>1. CASE UNCHANGED vars
    <2>1. TypeOK' /\ conf' = conf
      BY <1>1 DEF FormationInv, TypeOK, vars, procVars, logVars, roleVars
    <2> QED BY <2>1, UnchangedConf DEF FormationInv
  <1>2. ASSUME NEW n \in Node,
               \/ NewManager(n) \/ PrepareFails(n) \/ OpenStores(n) \/ OpenFails(n)
               \/ NewRaft(n) \/ Join(n) \/ Ready(n) \/ Timeout(n)
        PROVE  FormationInv'
    BY <1>2, StartStep, UnchangedConf DEF FormationInv
  <1>3. ASSUME NEW n \in Node, LoseLeader(n) \/ StepDown(n) \/ ChangeDone(n)
        PROVE  FormationInv'
    BY <1>3, RoleStep, UnchangedConf DEF FormationInv
  <1>4. ASSUME NEW n \in Node, Shutdown(n) \/ Exit(n)
        PROVE  FormationInv'
    BY <1>4, EndStep, UnchangedConf DEF FormationInv
  <1>5. ASSUME NEW n \in Node, Bootstrap(n)
        PROVE  FormationInv'
    BY <1>5, BootstrapStep
  <1>6. ASSUME NEW n \in Node, Elect(n)
        PROVE  FormationInv'
    BY <1>6, ElectStep
  <1>7. ASSUME NEW n \in Node, NEW i \in Address, Replicate(n, i)
        PROVE  FormationInv'
    BY <1>7, ReplicateStep
  <1>8. ASSUME NEW n \in Node, NEW i \in Address, AddPeer(n, i) \/ RemovePeer(n, i)
        PROVE  FormationInv'
    BY <1>8, ChangeStep
  <1> QED
    BY <1>1, <1>2, <1>3, <1>4, <1>5, <1>6, <1>7, <1>8 DEF Next, Boot

LEMMA FormationInvariant == Spec => []FormationInv
  BY InitInvariant, StepInvariant, PTL DEF Spec

\* The variables of the formation of a cluster keep their types.
THEOREM FormationTyped == Spec => []TypeOK
  <1>1. FormationInv => TypeOK
    BY DEF FormationInv
  <1> QED BY <1>1, FormationInvariant, PTL

\* No cluster comes into being without a node that names no peers: if every
\* environment names one, as the documented example does, no node ever has a
\* configuration.
THEOREM NoSeedNoCluster ==
  ASSUME \A n \in Node : Peers(n) # {}
  PROVE  Spec => [](\A n \in Node : conf[n] = NoConf)
  <1>1. FormationInv => \A n \in Node : conf[n] = NoConf
    BY DEF FormationInv, FromASeed, Seeds
  <1> QED BY <1>1, FormationInvariant, PTL

\* If at most one node starts without peers there is one cluster, whatever
\* addresses the environments name, and whatever ends, fails and starts again.
THEOREM AtMostOneCluster ==
  ASSUME \A n, m \in Node : Peers(n) = {} /\ Peers(m) = {} => n = m
  PROVE  Spec => []OneCluster
  <1>1. FormationInv => OneCluster
    BY DEF FormationInv, FromASeed, Seeds, OneCluster
  <1> QED BY <1>1, FormationInvariant, PTL

-----------------------------------------------------------------------------
(* Nodes that get no manager any more *)

\* No step takes a node back to the term of an empty log.
LEMMA TermStays ==
  ASSUME FormationInv, [Next]_vars, NEW n \in Node, term[n] > 0
  PROVE  term'[n] > 0
  <1> USE DEF procVars, logVars, roleVars
  <1>1. term \in [Node -> Nat] /\ \A m \in Node : term[m] \in Nat
    BY DEF FormationInv, TypeOK
  <1>2. ASSUME NEW m \in Node, Bootstrap(m) PROVE term'[n] > 0
    BY <1>1, <1>2 DEF Bootstrap
  <1>3. ASSUME NEW m \in Node, Elect(m) PROVE term'[n] > 0
    <2>1. PICK Q \in SUBSET Supporters(m) :
            \E t \in {term[u] + 1 : u \in {At[i] : i \in Q}} :
              /\ \A u \in {At[i] : i \in Q} : term[u] < t
              /\ term' = [u \in Node |-> IF u \in {At[i] : i \in Q} THEN t ELSE term[u]]
      BY <1>3 DEF Elect
    <2> DEFINE V == {At[i] : i \in Q}
    <2>2. PICK t \in {term[u] + 1 : u \in V} :
            /\ \A u \in V : term[u] < t
            /\ term' = [u \in Node |-> IF u \in V THEN t ELSE term[u]]
      BY <2>1
    <2>3. V \subseteq Node
      BY FormationAssumption DEF FormationInv, TypeOK, Conf, Supporters
    <2> HIDE DEF V
    <2>4. t \in Nat
      BY <1>1, <2>2, <2>3
    <2>5. term'[n] = t \/ term'[n] = term[n]
      BY <2>2
    <2>6. term'[n] = t => term[n] < t \/ term'[n] = term[n]
      BY <2>2
    <2> QED BY <1>1, <2>4, <2>5, <2>6
  <1>4. ASSUME NEW m \in Node, NEW i \in Address, Replicate(m, i) PROVE term'[n] > 0
    BY <1>1, <1>4 DEF Replicate
  <1>5. CASE UNCHANGED term
    BY <1>5
  <1>6. ASSUME NEW m \in Node,
               \/ NewManager(m) \/ PrepareFails(m) \/ OpenStores(m) \/ OpenFails(m)
               \/ NewRaft(m) \/ Join(m) \/ Ready(m) \/ Timeout(m) \/ LoseLeader(m)
               \/ StepDown(m) \/ ChangeDone(m) \/ Shutdown(m) \/ Exit(m)
               \/ \E i \in Address : AddPeer(m, i) \/ RemovePeer(m, i)
        PROVE  UNCHANGED term
    BY <1>6 DEF NewManager, PrepareFails, OpenStores, OpenFails, NewRaft, Join, Ready,
                Timeout, LoseLeader, StepDown, ChangeDone, Shutdown, Exit, RaftEnds,
                AddPeer, RemovePeer
  <1>7. CASE UNCHANGED vars
    BY <1>5, <1>7 DEF vars
  <1> QED BY <1>2, <1>3, <1>4, <1>5, <1>6, <1>7 DEF Next, Boot

\* What a step may do to where NewManager is on a node and to its stores: the
\* steps of other nodes and of Raft, and of AddPeer and RemovePeer, do nothing.
LEMMA ProcMoves ==
  ASSUME FormationInv, [Next]_vars, NEW n \in Node
  PROVE  \/ proc'[n] = proc[n] /\ stores'[n] = stores[n]
         \/ NewManager(n) \/ Boot(n) \/ Ready(n) \/ Timeout(n) \/ Shutdown(n) \/ Exit(n)
  <1> USE DEF procVars, Goto
  <1>1. proc \in [Node -> Down \cup {"waiting", "running"}] /\ stores \in [Node -> BOOLEAN]
    BY DEF FormationInv, TypeOK, Down
  <1>2. ASSUME NEW m \in Node, m # n,
               \/ NewManager(m) \/ Boot(m) \/ Ready(m) \/ Timeout(m) \/ Shutdown(m) \/ Exit(m)
        PROVE  proc'[n] = proc[n] /\ stores'[n] = stores[n]
    <2>1. CASE NewManager(m) \/ Ready(m) \/ Timeout(m) \/ Shutdown(m) \/ Exit(m)
      BY <1>1, <1>2, <2>1 DEF NewManager, Ready, Timeout, Shutdown, Exit
    <2>2. CASE PrepareFails(m) \/ OpenStores(m) \/ OpenFails(m)
      BY <1>1, <1>2, <2>2 DEF PrepareFails, OpenStores, OpenFails
    <2>3. CASE NewRaft(m) \/ Bootstrap(m) \/ Join(m)
      BY <1>1, <1>2, <2>3 DEF NewRaft, Bootstrap, Join
    <2> QED BY <1>2, <2>1, <2>2, <2>3 DEF Boot
  <1>3. ASSUME NEW m \in Node,
               \/ Elect(m) \/ LoseLeader(m) \/ StepDown(m) \/ ChangeDone(m)
               \/ \E i \in Address : Replicate(m, i) \/ AddPeer(m, i) \/ RemovePeer(m, i)
        PROVE  proc' = proc /\ stores' = stores
    BY <1>3 DEF Elect, LoseLeader, StepDown, ChangeDone, Replicate, AddPeer, RemovePeer
  <1>4. CASE UNCHANGED vars
    BY <1>4 DEF vars
  <1> QED BY <1>2, <1>3, <1>4 DEF Next

LEMMA StrandedStep ==
  ASSUME FormationInv, [Next]_vars, NEW n \in Node, Stranded(n)
  PROVE  Stranded(n)'
  <1> USE DEF Goto, Stranded, Down
  <1>1. proc \in [Node -> Down \cup {"waiting", "running"}] /\ term[n] > 0
    BY DEF FormationInv, TypeOK
  <1>2. term'[n] > 0
    BY <1>1, TermStays
  <1>3. CASE proc'[n] = proc[n]
    BY <1>2, <1>3
  <1>4. CASE NewManager(n) \/ Shutdown(n) \/ Exit(n)
    BY <1>1, <1>2, <1>4 DEF NewManager, Shutdown, Exit
  <1>5. CASE PrepareFails(n) \/ OpenStores(n) \/ OpenFails(n) \/ NewRaft(n)
    BY <1>1, <1>2, <1>5 DEF PrepareFails, OpenStores, OpenFails, NewRaft
  <1>6. CASE Bootstrap(n) \/ Join(n)
    BY <1>1, <1>2, <1>6 DEF Bootstrap, Join
  <1>7. CASE Ready(n) \/ Timeout(n)
    BY <1>7 DEF Ready, Timeout
  <1> QED BY <1>3, <1>4, <1>5, <1>6, <1>7, ProcMoves DEF Boot

LEMMA OrphanedStep ==
  ASSUME FormationInv, [Next]_vars, NEW n \in Node, Orphaned(n)
  PROVE  Orphaned(n)' \/ ~stores'[n]
  <1> USE DEF Goto, Orphaned
  <1>1. proc \in [Node -> Down \cup {"waiting", "running"}] /\ stores \in [Node -> BOOLEAN]
    BY DEF FormationInv, TypeOK, Down
  <1>2. CASE proc'[n] = proc[n] /\ stores'[n] = stores[n]
    BY <1>2
  <1>3. CASE NewManager(n) \/ Shutdown(n) \/ Exit(n)
    BY <1>1, <1>3 DEF NewManager, Shutdown, Exit
  <1>4. CASE PrepareFails(n) \/ OpenStores(n)
    BY <1>1, <1>4 DEF PrepareFails, OpenStores
  <1>5. CASE OpenFails(n) \/ NewRaft(n) \/ Bootstrap(n) \/ Join(n) \/ Ready(n) \/ Timeout(n)
    BY <1>5 DEF OpenFails, NewRaft, Bootstrap, Join, Ready, Timeout
  <1> QED BY <1>2, <1>3, <1>4, <1>5, ProcMoves DEF Boot

\* A node without peers whose first cluster or whose first vote is behind it
\* never has a manager again once it has none: nothing the other nodes or the
\* operator do brings it back.
THEOREM FoundersAreLost == Spec => FounderIsLost
  <1>1. FormationInv /\ [Next]_vars => \A n \in Node : Stranded(n) => Stranded(n)'
    BY StrandedStep
  <1> QED BY <1>1, FormationInvariant, PTL DEF Spec, FounderIsLost

\* In one process NewManager gets past the stores once, whatever becomes of the
\* manager.
THEOREM OneManagerPerProcess == Spec => ManagerOncePerProcess
  <1>1. FormationInv /\ [Next]_vars
          => \A n \in Node : Orphaned(n) => Orphaned(n)' \/ ~stores'[n]
    BY OrphanedStep
  <1> QED BY <1>1, FormationInvariant, PTL DEF Spec, ManagerOncePerProcess

-----------------------------------------------------------------------------
(* Majorities.  The servers of a configuration are a finite set, whatever     *)
(* else there is.                                                             *)

LEMMA MostMonotone ==
  ASSUME NEW c, IsFiniteSet(c.ids), NEW S, NEW T, c.ids \cap S \subseteq T, Most(c, S)
  PROVE  Most(c, T)
  <1> DEFINE A == c.ids \cap S
             B == c.ids \cap T
  <1>1. IsFiniteSet(A) /\ IsFiniteSet(B)
    BY FS_Intersection
  <1>2. A \in SUBSET B
    OBVIOUS
  <1>3. Cardinality(A) <= Cardinality(B)
    BY <1>1, <1>2, FS_Subset
  <1>4. Cardinality(A) \in Nat /\ Cardinality(B) \in Nat /\ Cardinality(c.ids) \in Nat
    BY <1>1, FS_CardinalityType
  <1>5. 2 * Cardinality(A) > Cardinality(c.ids)
    BY DEF Most
  <1>6. 2 * Cardinality(B) > Cardinality(c.ids)
    <2> HIDE DEF A, B
    <2> QED BY <1>3, <1>4, <1>5
  <1> QED BY <1>6 DEF Most

LEMMA MostOfAll ==
  ASSUME NEW c, IsFiniteSet(c.ids), c.ids # {}, NEW S, c.ids \subseteq S
  PROVE  Most(c, S)
  <1>1. c.ids \cap S = c.ids
    OBVIOUS
  <1>2. Cardinality(c.ids) \in Nat /\ Cardinality(c.ids) # 0
    BY FS_CardinalityType, FS_EmptySet
  <1>3. 2 * Cardinality(c.ids) > Cardinality(c.ids)
    BY <1>2
  <1> QED BY <1>1, <1>3 DEF Most

LEMMA MostOfSome ==
  ASSUME NEW c, IsFiniteSet(c.ids), NEW S, Most(c, S)
  PROVE  c.ids \cap S # {}
  <1>1. Cardinality({}) = 0
    BY FS_EmptySet
  <1>2. Cardinality(c.ids) \in Nat
    BY FS_CardinalityType
  <1>3. 2 * Cardinality(c.ids \cap S) > Cardinality(c.ids)
    BY DEF Most
  <1>4. ASSUME c.ids \cap S = {} PROVE FALSE
    <2>1. 2 * 0 > Cardinality(c.ids)
      BY <1>1, <1>3, <1>4
    <2> QED BY <2>1, <1>2
  <1> QED BY <1>4

\* Two majorities of the same servers, or of servers of which one has been
\* added or removed, have a server in common.
LEMMA MajoritiesOfOne ==
  ASSUME NEW c, IsFiniteSet(c.ids), NEW S, NEW T, Most(c, S), Most(c, T)
  PROVE  c.ids \cap S \cap T # {}
  <1> DEFINE A == c.ids \cap S
             B == c.ids \cap T
  <1>1. IsFiniteSet(A) /\ IsFiniteSet(B)
    BY FS_Intersection
  <1>2. Cardinality(A) \in Nat /\ Cardinality(B) \in Nat /\ Cardinality(c.ids) \in Nat
    BY <1>1, FS_CardinalityType
  <1>3. 2 * Cardinality(A) > Cardinality(c.ids) /\ 2 * Cardinality(B) > Cardinality(c.ids)
    BY DEF Most
  <1>4. A \subseteq c.ids /\ B \subseteq c.ids
    OBVIOUS
  <1>5. A \cap B # {}
    <2> HIDE DEF A, B
    <2>1. Cardinality(A) + Cardinality(B) > Cardinality(c.ids)
      BY <1>2, <1>3
    <2> QED BY <2>1, <1>4, FS_MajoritiesIntersect
  <1> QED BY <1>5

LEMMA MajoritiesOneApart ==
  ASSUME NEW c, NEW d, IsFiniteSet(c.ids), NEW i, i \notin c.ids, d.ids = c.ids \cup {i},
         NEW S, NEW T, Most(c, S), Most(d, T)
  PROVE  c.ids \cap S \cap T # {}
  <1> DEFINE A == c.ids \cap S
             B == c.ids \cap T
             D == d.ids \cap T
  <1>1. IsFiniteSet(A) /\ IsFiniteSet(B) /\ IsFiniteSet(B \cup {i})
    BY FS_Intersection, FS_AddElement
  <1>2. D \in SUBSET (B \cup {i})
    OBVIOUS
  <1>3. IsFiniteSet(D) /\ Cardinality(D) <= Cardinality(B \cup {i})
    BY <1>1, <1>2, FS_Subset
  <1>4. Cardinality(B \cup {i}) = Cardinality(B) + 1
    BY <1>1, FS_AddElement
  <1>5. Cardinality(d.ids) = Cardinality(c.ids) + 1
    BY FS_AddElement
  <1>6. /\ Cardinality(A) \in Nat /\ Cardinality(B) \in Nat
        /\ Cardinality(c.ids) \in Nat /\ Cardinality(D) \in Nat
    BY <1>1, <1>3, FS_CardinalityType
  <1>7. 2 * Cardinality(A) > Cardinality(c.ids) /\ 2 * Cardinality(D) > Cardinality(d.ids)
    BY DEF Most
  <1>8. A \subseteq c.ids /\ B \subseteq c.ids
    OBVIOUS
  <1>9. A \cap B # {}
    <2> HIDE DEF A, B, D
    <2>1. Cardinality(D) <= Cardinality(B) + 1
      BY <1>3, <1>4
    <2>2. 2 * Cardinality(D) > Cardinality(c.ids) + 1
      BY <1>5, <1>7
    <2>3. Cardinality(A) + Cardinality(B) > Cardinality(c.ids)
      BY <1>6, <1>7, <2>1, <2>2
    <2> QED BY <2>3, <1>8, FS_MajoritiesIntersect
  <1> QED BY <1>9

LEMMA MeetItself ==
  ASSUME NEW c, IsFiniteSet(c.ids)
  PROVE  Meet(c, c)
  BY MajoritiesOfOne DEF Meet

LEMMA MeetOneApart ==
  ASSUME NEW c, NEW d, IsFiniteSet(c.ids), IsFiniteSet(d.ids), NEW i,
         d.ids = c.ids \cup {i} \/ d.ids = c.ids \ {i}
  PROVE  Meet(c, d) /\ Meet(d, c)
  <1> SUFFICES ASSUME NEW S \in SUBSET Address, NEW T \in SUBSET Address,
                      Most(c, S), Most(d, T)
               PROVE  c.ids \cap S \cap d.ids \cap T # {}
    <2>1. Meet(c, d) => Meet(d, c)
      <3> SUFFICES ASSUME Meet(c, d), NEW S \in SUBSET Address, NEW T \in SUBSET Address,
                          Most(d, S), Most(c, T)
                   PROVE  d.ids \cap S \cap c.ids \cap T # {}
        BY DEF Meet
      <3>1. c.ids \cap T \cap d.ids \cap S # {}
        BY DEF Meet
      <3> QED BY <3>1
    <2> QED BY <2>1 DEF Meet
  <1>1. CASE d.ids = c.ids
    <2>1. Most(c, T)
      BY <1>1 DEF Most
    <2>2. c.ids \cap S \cap T # {}
      BY <2>1, MajoritiesOfOne
    <2> QED BY <1>1, <2>2
  <1>2. CASE i \notin c.ids /\ d.ids = c.ids \cup {i}
    <2>1. c.ids \cap S \cap T # {}
      BY <1>2, MajoritiesOneApart
    <2> QED BY <1>2, <2>1
  <1>3. CASE i \in c.ids /\ d.ids = c.ids \ {i}
    <2>1. i \notin d.ids /\ c.ids = d.ids \cup {i}
      BY <1>3
    <2>2. d.ids \cap T \cap S # {}
      BY <2>1, MajoritiesOneApart
    <2> QED BY <2>1, <2>2
  <1> QED BY <1>1, <1>2, <1>3

\* What meets a configuration meets every configuration of the same servers.
LEMMA MeetSameIds ==
  ASSUME NEW c, NEW d, NEW e, NEW h, c.ids = e.ids, d.ids = h.ids, Meet(c, d)
  PROVE  Meet(e, h)
  <1>1. \A S : (Most(c, S) <=> Most(e, S)) /\ (Most(d, S) <=> Most(h, S))
    BY DEF Most
  <1> QED BY <1>1 DEF Meet

LEMMA BlocksMonotone ==
  ASSUME NEW c, IsFiniteSet(c.ids), NEW S, NEW T, c.ids \cap S \subseteq T, Blocks(c, S)
  PROVE  Blocks(c, T)
  <1>1. c.ids \cap (Address \ T) \subseteq Address \ S
    OBVIOUS
  <1> QED BY <1>1, MostMonotone DEF Blocks

LEMMA MostMeetsBlocks ==
  ASSUME NEW c, IsFiniteSet(c.ids), c.ids \subseteq Address, NEW S, NEW T,
         Most(c, S), Blocks(c, T)
  PROVE  c.ids \cap S \cap T # {}
  <1>1. ASSUME c.ids \cap S \cap T = {} PROVE FALSE
    <2>1. c.ids \cap S \subseteq Address \ T
      BY <1>1
    <2> QED BY <2>1, MostMonotone DEF Blocks
  <1> QED BY <1>1

\* A majority of d blocks every configuration whose majorities meet those of d.
LEMMA MeetBlocks ==
  ASSUME NEW c, NEW d, IsFiniteSet(c.ids), Meet(c, d), NEW T \in SUBSET Address,
         Most(d, T)
  PROVE  Blocks(c, d.ids \cap T)
  <1>1. ASSUME Most(c, Address \ (d.ids \cap T)) PROVE FALSE
    <2>1. c.ids \cap (Address \ (d.ids \cap T)) \cap d.ids \cap T # {}
      BY <1>1 DEF Meet
    <2> QED BY <2>1
  <1> QED BY <1>1 DEF Blocks

-----------------------------------------------------------------------------
(* Configurations, whose order only grows in every log *)

MembersInv ==
  FormationInv /\ TermsOrdered /\ Identified /\ ActiveMeet /\ StaleLeader /\ AddedActive

LEMMA OrderTransitive ==
  ASSUME NEW c \in Conf, NEW d \in Conf, NEW e \in Conf, AtLeast(c, d), AtLeast(d, e)
  PROVE  AtLeast(c, e)
  BY DEF Conf, AtLeast

LEMMA ActiveShrinks ==
  ASSUME NEW f \in [Node -> Conf], NEW g \in [Node -> Conf],
         \A m \in Node : AtLeast(g[m], f[m]),
         NEW c \in Conf, IsFiniteSet(c.ids), Active(g, c)
  PROVE  Active(f, c)
  <1>1. Past(f, c) \subseteq Past(g, c)
    <2> SUFFICES ASSUME NEW i \in Address, At[i] # Nobody, ~AtLeast(c, f[At[i]])
                 PROVE  ~AtLeast(c, g[At[i]])
      BY DEF Past
    <2>1. At[i] \in Node
      BY FormationAssumption
    <2> QED BY <2>1, OrderTransitive
  <1>2. c.ids \cap (Address \ Past(g, c)) \subseteq Address \ Past(f, c)
    BY <1>1
  <1> QED BY <1>2, MostMonotone DEF Active

LEMMA InTermGrows ==
  ASSUME NEW t \in [Node -> Nat], NEW u \in [Node -> Nat], \A m \in Node : u[m] >= t[m],
         NEW j \in Nat, NEW k \in Nat, j <= k
  PROVE  InTerm(t, k) \subseteq InTerm(u, j)
  <1> SUFFICES ASSUME NEW i \in Address, At[i] # Nobody, t[At[i]] >= k
               PROVE  u[At[i]] >= j
    BY DEF InTerm
  <1>1. At[i] \in Node
    BY FormationAssumption
  <1>2. t[At[i]] \in Nat /\ u[At[i]] \in Nat /\ u[At[i]] >= t[At[i]]
    BY <1>1
  <1> QED BY <1>2

LEMMA ActiveHasServers ==
  ASSUME NEW f, NEW c, IsFiniteSet(c.ids), Active(f, c)
  PROVE  c.ids # {}
  BY MostOfSome DEF Active

\* The servers and order of a configuration.
LEMMA ConfFacts ==
  ASSUME FormationInv, TermsOrdered, NEW n \in Node
  PROVE  /\ conf[n] \in Conf /\ term[n] \in Nat
         /\ conf[n].term \in Nat /\ conf[n].version \in Nat
         /\ conf[n].ids \subseteq Address /\ IsFiniteSet(conf[n].ids)
         /\ conf[n].term <= term[n]
  BY DEF FormationInv, TypeOK, TermsOrdered, Conf

\* A committed configuration is active.
LEMMA CommittedActive ==
  ASSUME FormationInv, TermsOrdered, NEW n \in Node, Committed(n)
  PROVE  /\ Most(conf[n], Holding(conf, conf[n]))
         /\ Active(conf, conf[n])
  <1> DEFINE c == conf[n]
             H == {i \in UpIds : conf[At[i]] = c}
  <1>1. IsFiniteSet(c.ids) /\ c \in Conf /\ c.ids \subseteq Address
    BY ConfFacts
  <1>2. Most(c, H)
    BY DEF Committed
  <1>3. H \subseteq Holding(conf, c)
    BY DEF UpIds, Holding
  <1>4. AtLeast(c, c)
    BY <1>1 DEF Conf, AtLeast
  <1>5. Holding(conf, c) \subseteq Address \ Past(conf, c)
    BY <1>4 DEF Holding, Past
  <1> HIDE DEF c, H
  <1>6. Most(c, Holding(conf, c)) /\ Most(c, Address \ Past(conf, c))
    BY <1>1, <1>2, <1>3, <1>5, MostMonotone
  <1> QED BY <1>6 DEF Active, c

\* What a leader that has committed its configuration knows of the others: an
\* older one is inactive, and a newer one has the same servers, of which a
\* majority is in its term.
LEMMA CommittedRules ==
  ASSUME MembersInv, NEW n \in Node, leading[n], Committed(n), NEW m \in Node
  PROVE  \/ conf[m] = conf[n]
         \/ ~AtLeast(conf[m], conf[n]) /\ ~Active(conf, conf[m])
         \/ /\ term[n] < conf[m].term /\ conf[m].ids = conf[n].ids
            /\ Most(conf[n], InTerm(term, conf[m].term))
  <1> USE DEF MembersInv
  <1>1. /\ conf[n] \in Conf /\ IsFiniteSet(conf[n].ids) /\ conf[n].ids \subseteq Address
        /\ conf[m] \in Conf /\ IsFiniteSet(conf[m].ids)
    BY ConfFacts
  <1>2. conf[n].term = term[n] /\ term[n] \in Nat
    BY DEF TermsOrdered, FormationInv, TypeOK
  <1>3. Most(conf[n], Holding(conf, conf[n])) /\ Active(conf, conf[n])
    BY CommittedActive
  <1>4. CASE ~AtLeast(conf[m], conf[n])
    <2>1. ASSUME Active(conf, conf[m]) PROVE FALSE
      <3>1. Meet(conf[m], conf[n])
        BY <1>3, <2>1 DEF ActiveMeet
      <3>2. Most(conf[m], Address \ Past(conf, conf[m]))
        BY <2>1 DEF Active
      <3>3. Holding(conf, conf[n]) \subseteq Past(conf, conf[m])
        BY <1>4 DEF Holding, Past
      <3>4. Holding(conf, conf[n]) \in SUBSET Address
        BY DEF Holding
      <3>5. conf[m].ids \cap (Address \ Past(conf, conf[m]))
              \cap conf[n].ids \cap Holding(conf, conf[n]) # {}
        BY <1>3, <3>1, <3>2, <3>4 DEF Meet
      <3> QED BY <3>3, <3>5
    <2> QED BY <1>4, <2>1
  <1>5. CASE term[n] < conf[m].term
    <2>1. \/ Blocks(conf[n], InTerm(term, term[n] + 1) \ Holding(conf, conf[n]))
          \/ conf[m].ids = conf[n].ids /\ Most(conf[n], InTerm(term, conf[m].term))
      BY <1>3, <1>5 DEF StaleLeader
    <2>2. ~Blocks(conf[n], InTerm(term, term[n] + 1) \ Holding(conf, conf[n]))
      <3>1. conf[n].ids \cap Holding(conf, conf[n])
              \cap (InTerm(term, term[n] + 1) \ Holding(conf, conf[n])) = {}
        OBVIOUS
      <3> QED BY <1>1, <1>3, <3>1, MostMeetsBlocks
    <2> QED BY <1>5, <2>1, <2>2
  <1>6. CASE AtLeast(conf[m], conf[n]) /\ ~(term[n] < conf[m].term)
    <2>1. conf[m].term = conf[n].term /\ conf[m].version >= conf[n].version
      BY <1>1, <1>2, <1>6 DEF AtLeast, Conf
    <2>2. conf[m].version <= conf[n].version
      BY <1>2, <2>1 DEF Identified
    <2>3. conf[m].version = conf[n].version
      BY <1>1, <2>1, <2>2 DEF Conf
    <2> QED BY <2>1, <2>3 DEF Identified
  <1> QED BY <1>4, <1>5, <1>6

-----------------------------------------------------------------------------
(* The invariant of the members: the start, and the steps that leave          *)
(* configurations and terms alone                                             *)

LEMMA InitMembers == Init => MembersInv
  <1> SUFFICES ASSUME Init PROVE MembersInv
    OBVIOUS
  <1>1. /\ \A n \in Node : conf[n] = NoConf /\ term[n] = 0 /\ leading[n] = FALSE
        /\ \A n \in Node : change[n] = NoChange
        /\ members = {}
    BY DEF Init
  <1>2. NoConf.term = 0 /\ NoConf.ids = {} /\ IsFiniteSet(NoConf.ids)
    BY FS_EmptySet DEF NoConf
  <1>3. \A n \in Node : ~Active(conf, conf[n])
    BY <1>1, <1>2, ActiveHasServers
  <1>4. TermsOrdered
    BY <1>1, <1>2 DEF TermsOrdered
  <1>5. Identified
    BY <1>1 DEF Identified
  <1>6. ActiveMeet /\ StaleLeader
    BY <1>3 DEF ActiveMeet, StaleLeader
  <1>7. AddedActive
    BY <1>1, <1>3 DEF AddedActive, NoChange
  <1> QED BY <1>4, <1>5, <1>6, <1>7, InitInvariant DEF MembersInv

LEMMA RolesOnly ==
  ASSUME MembersInv, FormationInv', conf' = conf, term' = term,
         \A m \in Node : leading'[m] => leading[m],
         \A m \in Node : change'[m].op = "add" => leading'[m] /\ change'[m] = change[m],
         members' # {} => \E m \in Node : conf[m] # NoConf,
         \A m \in Node : Active(conf, conf[m]) => members' \subseteq conf[m].ids
  PROVE  MembersInv'
  <1> USE DEF MembersInv
  <1>1. TermsOrdered'
    BY DEF TermsOrdered
  <1>2. Identified'
    BY DEF Identified
  <1>3. ActiveMeet'
    BY DEF ActiveMeet
  <1>4. StaleLeader'
    BY DEF StaleLeader
  <1>5. AddedActive'
    BY DEF AddedActive
  <1> QED BY <1>1, <1>2, <1>3, <1>4, <1>5

LEMMA SameMembers ==
  ASSUME MembersInv, FormationInv', conf' = conf, term' = term,
         \A m \in Node : leading'[m] => leading[m],
         \A m \in Node : change'[m].op = "add" => leading'[m] /\ change'[m] = change[m],
         members' = members
  PROVE  MembersInv'
  <1>1. members' # {} => \E m \in Node : conf[m] # NoConf
    BY DEF MembersInv, AddedActive
  <1>2. \A m \in Node : Active(conf, conf[m]) => members' \subseteq conf[m].ids
    BY DEF MembersInv, AddedActive
  <1> QED BY <1>1, <1>2, RolesOnly

LEMMA StartMembers ==
  ASSUME MembersInv, NEW n \in Node,
         \/ NewManager(n) \/ PrepareFails(n) \/ OpenStores(n) \/ OpenFails(n)
         \/ NewRaft(n) \/ Join(n) \/ Ready(n) \/ Timeout(n)
  PROVE  MembersInv'
  <1>1. FormationInv'
    BY StartStep, UnchangedConf DEF MembersInv, FormationInv
  <1>2. UNCHANGED <<conf, term, leading, change, members>>
    BY DEF NewManager, PrepareFails, OpenStores, OpenFails, NewRaft, Join, Ready, Timeout,
           logVars, roleVars
  <1>3. \A m \in Node : change[m].op = "add" => leading[m]
    BY DEF MembersInv, AddedActive
  <1> QED BY <1>1, <1>2, <1>3, SameMembers

LEMMA LossMembers ==
  ASSUME MembersInv, NEW n \in Node, LoseLeader(n) \/ StepDown(n) \/ Shutdown(n) \/ Exit(n)
  PROVE  MembersInv'
  <1>1. FormationInv'
    BY RoleStep, EndStep, UnchangedConf DEF MembersInv, FormationInv
  <1>2. leading \in [Node -> BOOLEAN] /\ change \in [Node -> Change]
    BY DEF MembersInv, FormationInv, TypeOK
  <1>3. \A m \in Node : change[m].op = "add" => leading[m]
    BY DEF MembersInv, AddedActive
  <1>4. UNCHANGED <<conf, term, members>>
    BY DEF LoseLeader, StepDown, Shutdown, Exit, RaftEnds, logVars
  <1>5. \/ UNCHANGED <<leading, change>>
        \/ /\ leading' = [leading EXCEPT ![n] = FALSE]
           /\ change' = [change EXCEPT ![n] = NoChange]
    BY DEF LoseLeader, StepDown, Shutdown, Exit, RaftEnds
  <1>6. /\ \A m \in Node : leading'[m] => leading[m]
        /\ \A m \in Node : change'[m].op = "add" => leading'[m] /\ change'[m] = change[m]
    BY <1>2, <1>3, <1>5 DEF NoChange
  <1> QED BY <1>1, <1>4, <1>6, SameMembers

\* What was asked for is in every active configuration when it is committed.
LEMMA ChangeDoneMembers ==
  ASSUME MembersInv, NEW n \in Node, ChangeDone(n)
  PROVE  MembersInv'
  <1> USE DEF MembersInv
  <1>1. FormationInv'
    BY RoleStep, UnchangedConf DEF FormationInv
  <1>2. leading \in [Node -> BOOLEAN] /\ change \in [Node -> Change]
    BY DEF FormationInv, TypeOK
  <1>3. UNCHANGED <<conf, term>> /\ leading[n] /\ Committed(n)
    BY DEF ChangeDone, logVars, IsLeader
  <1>4. \A m \in Node : leading'[m] => leading[m]
    BY <1>2 DEF ChangeDone
  <1>5. \A m \in Node : change'[m].op = "add" => leading'[m] /\ change'[m] = change[m]
    <2> SUFFICES ASSUME NEW m \in Node, change'[m].op = "add"
                 PROVE  leading'[m] /\ change'[m] = change[m]
      OBVIOUS
    <2>1. m # n /\ change'[m] = change[m]
      BY <1>2 DEF ChangeDone, NoChange
    <2>2. leading'[m] = leading[m]
      BY <1>2, <2>1 DEF ChangeDone
    <2>3. leading[m]
      BY <2>1 DEF AddedActive
    <2> QED BY <2>1, <2>2, <2>3
  <1>6. members' # {} => \E m \in Node : conf[m] # NoConf
    BY <1>3 DEF TermsOrdered
  <1>7. ASSUME NEW m \in Node, Active(conf, conf[m])
        PROVE  members' \subseteq conf[m].ids
    <2>1. conf[m].ids = conf[n].ids
      BY <1>3, <1>7, CommittedRules
    <2>2. members \subseteq conf[m].ids
      BY <1>7 DEF AddedActive
    <2>3. change[n].op = "add" => change[n].id \in conf[n].ids
      BY DEF AddedActive
    <2> QED BY <2>1, <2>2, <2>3 DEF ChangeDone
  <1> QED BY <1>1, <1>3, <1>4, <1>5, <1>6, <1>7, RolesOnly

-----------------------------------------------------------------------------
(* The members and a bootstrap, which finds no other configuration            *)

AtMostOneSeed == \A n, m \in Node : Peers(n) = {} /\ Peers(m) = {} => n = m

LEMMA NothingBefore ==
  ASSUME AtMostOneSeed, MembersInv, NEW n \in Node, Peers(n) = {}, term[n] = 0
  PROVE  /\ \A m \in Node : conf[m] = NoConf /\ leading[m] = FALSE
         /\ \A m \in Node : change[m].op # "add"
         /\ members = {}
  <1> USE DEF MembersInv
  <1>1. ASSUME NEW m \in Node, conf[m] # NoConf PROVE FALSE
    <2>1. conf[m].seed \in Seeds /\ term[conf[m].seed] > 0
      BY <1>1 DEF FormationInv, FromASeed, TermsOrdered
    <2>2. conf[m].seed = n
      BY <2>1 DEF AtMostOneSeed, Seeds
    <2> QED BY <2>1, <2>2
  <1>2. \A m \in Node : conf[m] = NoConf
    BY <1>1
  <1>3. \A m \in Node : leading[m] = FALSE
    BY <1>2 DEF TermsOrdered, FormationInv, TypeOK
  <1>4. \A m \in Node : change[m].op # "add"
    BY <1>3 DEF AddedActive
  <1>5. members = {}
    BY <1>2 DEF AddedActive
  <1> QED BY <1>2, <1>3, <1>4, <1>5

LEMMA BootstrapMembers ==
  ASSUME AtMostOneSeed, MembersInv, NEW n \in Node, Bootstrap(n)
  PROVE  MembersInv'
  <1> USE DEF MembersInv
  <1> DEFINE c == [term |-> 1, version |-> 1, ids |-> {Own[n]}, seed |-> n]
  <1>1. FormationInv'
    BY BootstrapStep
  <1>2. UNCHANGED <<leading, change, members>> /\ Peers(n) = {}
    BY DEF Bootstrap, roleVars
  <1>3. CASE term[n] # 0
    <2>1. conf' = conf /\ term' = term
      BY <1>3 DEF Bootstrap, logVars
    <2>2. \A m \in Node : change[m].op = "add" => leading[m]
      BY DEF AddedActive
    <2> QED BY <1>1, <1>2, <2>1, <2>2, SameMembers
  <1>4. CASE term[n] = 0
    <2>1. /\ \A m \in Node : conf[m] = NoConf /\ leading'[m] = FALSE
          /\ \A m \in Node : change'[m].op # "add"
          /\ members' = {}
      BY <1>2, <1>4, NothingBefore
    <2>2. conf' = [conf EXCEPT ![n] = c] /\ term' = [term EXCEPT ![n] = 1]
      BY <1>4 DEF Bootstrap
    <2>3. /\ conf'[n] = c /\ term'[n] = 1
          /\ \A m \in Node \ {n} : conf'[m] = NoConf /\ term'[m] = term[m]
      BY <2>1, <2>2 DEF FormationInv, TypeOK
    <2>4. /\ IsFiniteSet(c.ids) /\ IsFiniteSet(NoConf.ids) /\ NoConf.ids = {}
          /\ c # NoConf /\ c.ids # {}
      BY FS_EmptySet, FS_Singleton DEF NoConf
    <2>5. \A m \in Node : Active(conf', conf'[m]) => m = n
      BY <2>3, <2>4, ActiveHasServers
    <2>6. \A m \in Node : conf'[m].term \in {0, 1}
      BY <2>3 DEF NoConf
    <2>7. TermsOrdered'
      <3>1. \A m \in Node : term'[m] \in Nat
        BY <1>1 DEF FormationInv, TypeOK
      <3>2. \A m \in Node \ {n} : conf'[m].term <= term'[m] /\ IsFiniteSet(conf'[m].ids)
        BY <2>3, <2>4, <3>1 DEF NoConf
      <3>3. c.term = 1 /\ c.seed = n
        OBVIOUS
      <3> HIDE DEF c
      <3>4. /\ conf'[n].term <= term'[n] /\ IsFiniteSet(conf'[n].ids)
            /\ conf'[n].ids # {} /\ conf'[n].term > 0 /\ term'[conf'[n].seed] > 0
        BY <2>3, <2>4, <3>3
      <3> QED BY <2>1, <2>3, <3>2, <3>4 DEF TermsOrdered
    <2>8. Identified'
      <3>1. ASSUME NEW m \in Node, NEW k \in Node, conf'[m].term = conf'[k].term
            PROVE  conf'[m] = conf'[k]
        BY <2>3, <3>1 DEF NoConf
      <3> QED BY <2>1, <3>1 DEF Identified
    <2>9. ActiveMeet'
      <3>1. Meet(c, c)
        BY <2>4, MeetItself
      <3>2. ASSUME NEW k \in {0, 1} PROVE Blocks(c, InTerm(term', k))
        <4>1. At[Own[n]] = n /\ Own[n] \in Address /\ n # Nobody
          BY FormationAssumption
        <4>2. c.ids \cap (Address \ InTerm(term', k)) = {}
          BY <2>3, <4>1 DEF InTerm
        <4> QED BY <2>4, <4>2, MostOfSome DEF Blocks
      <3> QED BY <2>3, <2>5, <2>6, <3>1, <3>2 DEF ActiveMeet
    <2>10. StaleLeader'
      BY <2>1 DEF StaleLeader
    <2>11. AddedActive'
      BY <2>1 DEF AddedActive
    <2> QED BY <1>1, <2>7, <2>8, <2>9, <2>10, <2>11
  <1> QED BY <1>3, <1>4

-----------------------------------------------------------------------------
(* The members and the actions after which some logs are newer                *)

Grows ==
  \A m \in Node : AtLeast(conf'[m], conf[m]) /\ term'[m] >= term[m]

LEMMA ActiveBefore ==
  ASSUME MembersInv, FormationInv', Grows, NEW c \in Conf, IsFiniteSet(c.ids),
         Active(conf', c)
  PROVE  Active(conf, c)
  <1>1. conf \in [Node -> Conf] /\ conf' \in [Node -> Conf]
    BY DEF MembersInv, FormationInv, TypeOK
  <1>2. \A m \in Node : AtLeast(conf'[m], conf[m])
    BY DEF Grows
  <1> QED BY <1>1, <1>2, ActiveShrinks

LEMMA TermsGrow ==
  ASSUME MembersInv, FormationInv', Grows, NEW j \in Nat, NEW k \in Nat, j <= k
  PROVE  InTerm(term, k) \subseteq InTerm(term', j)
  <1>1. term \in [Node -> Nat] /\ term' \in [Node -> Nat]
    BY DEF MembersInv, FormationInv, TypeOK
  <1>2. \A m \in Node : term'[m] >= term[m]
    BY DEF Grows
  <1> QED BY <1>1, <1>2, InTermGrows

\* A stale leader stays one: nobody behind its back comes to hold its configuration.
LEMMA StaleStays ==
  ASSUME MembersInv, FormationInv', Grows, NEW c \in Conf, IsFiniteSet(c.ids),
         NEW d \in Conf, NEW t \in Nat,
         \A i \in Holding(conf', c) \ Holding(conf, c) : i \notin InTerm(term, t + 1),
         \/ Blocks(c, InTerm(term, t + 1) \ Holding(conf, c))
         \/ d.ids = c.ids /\ Most(c, InTerm(term, d.term))
  PROVE  \/ Blocks(c, InTerm(term', t + 1) \ Holding(conf', c))
         \/ d.ids = c.ids /\ Most(c, InTerm(term', d.term))
  <1>1. t + 1 \in Nat /\ d.term \in Nat
    BY DEF Conf
  <1>2. /\ InTerm(term, t + 1) \subseteq InTerm(term', t + 1)
        /\ InTerm(term, d.term) \subseteq InTerm(term', d.term)
    BY <1>1, TermsGrow
  <1>3. CASE Blocks(c, InTerm(term, t + 1) \ Holding(conf, c))
    <2>1. c.ids \cap (InTerm(term, t + 1) \ Holding(conf, c))
            \subseteq InTerm(term', t + 1) \ Holding(conf', c)
      BY <1>2
    <2> QED BY <1>3, <2>1, BlocksMonotone
  <1>4. CASE d.ids = c.ids /\ Most(c, InTerm(term, d.term))
    <2>1. c.ids \cap InTerm(term, d.term) \subseteq InTerm(term', d.term)
      BY <1>2
    <2> QED BY <1>4, <2>1, MostMonotone
  <1> QED BY <1>3, <1>4

-----------------------------------------------------------------------------
(* The members and a leader that brings a server up to its log                *)

LEMMA ReplicateMembers ==
  ASSUME MembersInv, NEW n \in Node, NEW i \in Address, Replicate(n, i)
  PROVE  MembersInv'
  <1> USE DEF MembersInv
  <1> DEFINE m == At[i]
             From(p) == IF p = m THEN n ELSE p
  <1>1. FormationInv'
    BY ReplicateStep
  <1>2. /\ m \in Node /\ m # n /\ leading[n] /\ term[m] <= term[n]
        /\ conf' = [conf EXCEPT ![m] = conf[n]] /\ term' = [term EXCEPT ![m] = term[n]]
        /\ leading' = [leading EXCEPT ![m] = FALSE]
        /\ change' = [change EXCEPT ![m] = NoChange] /\ members' = members
    BY FormationAssumption DEF Replicate, IsLeader
  <1> HIDE DEF m
  <1>3. \A p \in Node : From(p) \in Node /\ conf'[p] = conf[From(p)]
    BY <1>2 DEF FormationInv, TypeOK
  <1>4. /\ term'[m] = term[n] /\ leading'[m] = FALSE /\ change'[m] = NoChange
        /\ \A p \in Node \ {m} : /\ conf'[p] = conf[p] /\ term'[p] = term[p]
                                 /\ leading'[p] = leading[p] /\ change'[p] = change[p]
    BY <1>2 DEF FormationInv, TypeOK
  <1>5. /\ \A p \in Node : /\ conf[p] \in Conf /\ IsFiniteSet(conf[p].ids)
                           /\ conf[p].term \in Nat /\ conf[p].version \in Nat
                           /\ conf[p].ids \subseteq Address
                           /\ term[p] \in Nat /\ conf[p].term <= term[p]
        /\ conf[n].term = term[n]
    BY <1>2, ConfFacts DEF TermsOrdered
  <1>6. Grows
    <2>1. AtLeast(conf[n], conf[m])
      <3>1. conf[m].term = conf[n].term => conf[m].version <= conf[n].version
        BY <1>2, <1>5 DEF Identified
      <3> QED BY <1>2, <1>5, <3>1 DEF AtLeast
    <2>2. \A p \in Node : AtLeast(conf[p], conf[p])
      BY <1>5 DEF AtLeast
    <2>3. \A p \in Node : AtLeast(conf'[p], conf[p])
      BY <1>2, <1>3, <2>1, <2>2
    <2>4. \A p \in Node : term'[p] >= term[p]
      BY <1>2, <1>4, <1>5
    <2> QED BY <2>3, <2>4 DEF Grows
  <1>7. \A p \in Node : Active(conf', conf'[p]) => Active(conf, conf[From(p)])
    BY <1>1, <1>3, <1>5, <1>6, ActiveBefore
  <1>8. TermsOrdered'
    <2>1. ASSUME NEW p \in Node PROVE conf'[p].term <= term'[p]
      BY <1>2, <1>3, <1>4, <1>5
    <2>2. ASSUME NEW p \in Node, leading'[p]
          PROVE  conf'[p] # NoConf /\ conf'[p].term = term'[p]
      BY <1>4, <2>2 DEF TermsOrdered
    <2>3. ASSUME NEW p \in Node, conf'[p] # NoConf
          PROVE  conf'[p].ids # {} /\ conf'[p].term > 0 /\ term'[conf'[p].seed] > 0
      <3>1. /\ conf'[p].ids # {} /\ conf'[p].term > 0 /\ term[conf'[p].seed] > 0
        BY <1>3, <2>3 DEF TermsOrdered
      <3>2. conf'[p].seed \in Node
        BY <1>1, <2>3 DEF FormationInv, FromASeed, Seeds
      <3>3. term'[conf'[p].seed] >= term[conf'[p].seed]
        BY <1>6, <3>2 DEF Grows
      <3>4. term'[conf'[p].seed] \in Nat /\ term[conf'[p].seed] \in Nat
        BY <1>1, <3>2 DEF FormationInv, TypeOK
      <3> QED BY <3>1, <3>3, <3>4
    <2>4. \A p \in Node : IsFiniteSet(conf'[p].ids)
      BY <1>3, <1>5
    <2> QED BY <2>1, <2>2, <2>3, <2>4 DEF TermsOrdered
  <1>9. Identified'
    <2>1. ASSUME NEW p \in Node, NEW q \in Node, conf'[p].term = conf'[q].term,
                 conf'[p].version = conf'[q].version
          PROVE  conf'[p] = conf'[q]
      BY <1>3, <2>1 DEF Identified
    <2>2. ASSUME NEW p \in Node, NEW q \in Node, leading'[p], leading'[q],
                 term'[p] = term'[q]
          PROVE  p = q
      BY <1>4, <2>2 DEF Identified
    <2>3. ASSUME NEW p \in Node, NEW q \in Node, leading'[p], conf'[q].term = term'[p]
          PROVE  conf'[q].version <= conf'[p].version
      <3>1. leading[p] /\ conf'[p] = conf[p] /\ term'[p] = term[p]
        BY <1>4, <2>3
      <3> QED BY <1>3, <2>3, <3>1 DEF Identified
    <2> QED BY <2>1, <2>2, <2>3 DEF Identified
  <1>10. ActiveMeet'
    <2>1. ASSUME NEW p \in Node, NEW q \in Node,
                 Active(conf', conf'[p]), Active(conf', conf'[q])
          PROVE  Meet(conf'[p], conf'[q])
      BY <1>3, <1>7, <2>1 DEF ActiveMeet
    <2>2. ASSUME NEW p \in Node, NEW q \in Node, Active(conf', conf'[p])
          PROVE  Blocks(conf'[p], InTerm(term', conf'[q].term))
      <3> DEFINE c == conf[From(p)]
                 k == conf[From(q)].term
      <3>1. c \in Conf /\ IsFiniteSet(c.ids) /\ k \in Nat
        BY <1>3, <1>5
      <3>2. Blocks(c, InTerm(term, k))
        BY <1>3, <1>7, <2>2 DEF ActiveMeet
      <3> HIDE DEF c, k
      <3>3. InTerm(term, k) \subseteq InTerm(term', k)
        BY <1>1, <1>6, <3>1, TermsGrow
      <3>4. Blocks(c, InTerm(term', k))
        BY <3>1, <3>2, <3>3, BlocksMonotone
      <3> QED BY <1>3, <3>4 DEF c, k
    <2> QED BY <2>1, <2>2 DEF ActiveMeet
  <1>11. StaleLeader'
    <2> SUFFICES ASSUME NEW p \in Node, NEW q \in Node,
                        leading'[p], term'[p] < conf'[q].term, Active(conf', conf'[p])
                 PROVE  \/ Blocks(conf'[p], InTerm(term', term'[p] + 1) \ Holding(conf', conf'[p]))
                        \/ /\ conf'[q].ids = conf'[p].ids
                           /\ Most(conf'[p], InTerm(term', conf'[q].term))
      BY DEF StaleLeader
    <2>1. p # m /\ leading[p] /\ conf'[p] = conf[p] /\ term'[p] = term[p] /\ From(p) = p
      BY <1>4
    <2>2. term[p] < conf[From(q)].term /\ Active(conf, conf[p])
      BY <1>3, <1>7, <2>1
    <2>3. \/ Blocks(conf[p], InTerm(term, term[p] + 1) \ Holding(conf, conf[p]))
          \/ /\ conf[From(q)].ids = conf[p].ids
             /\ Most(conf[p], InTerm(term, conf[From(q)].term))
      BY <1>3, <2>1, <2>2 DEF StaleLeader
    <2>4. ASSUME NEW j \in Holding(conf', conf[p]) \ Holding(conf, conf[p]),
                 j \in InTerm(term, term[p] + 1)
          PROVE  FALSE
      <3>1. At[j] \in Node /\ conf'[At[j]] = conf[p] /\ conf[At[j]] # conf[p]
        BY FormationAssumption DEF Holding
      <3>2. At[j] = m /\ conf[n] = conf[p]
        BY <1>3, <1>4, <3>1
      <3>3. term[n] = term[p]
        BY <1>5, <2>1, <3>2 DEF TermsOrdered
      <3>4. term[m] >= term[p] + 1
        BY <2>4, <3>2 DEF InTerm
      <3> QED BY <1>2, <1>5, <3>3, <3>4
    <2>5. /\ conf[p] \in Conf /\ IsFiniteSet(conf[p].ids) /\ term[p] \in Nat
          /\ conf[From(q)] \in Conf
      BY <1>3, <1>5
    <2>6. \/ Blocks(conf[p], InTerm(term', term[p] + 1) \ Holding(conf', conf[p]))
          \/ /\ conf[From(q)].ids = conf[p].ids
             /\ Most(conf[p], InTerm(term', conf[From(q)].term))
      <3> HIDE DEF From
      <3> QED BY <1>1, <1>6, <2>3, <2>4, <2>5, StaleStays
    <2> QED BY <1>3, <2>1, <2>6
  <1>12. AddedActive'
    <2>1. members' # {} => \E p \in Node : conf'[p] # NoConf
      <3>1. conf'[n] = conf[n] /\ conf[n] # NoConf
        BY <1>2, <1>4 DEF TermsOrdered
      <3> QED BY <3>1
    <2>2. \A p \in Node : Active(conf', conf'[p]) => members' \subseteq conf'[p].ids
      BY <1>2, <1>3, <1>7 DEF AddedActive
    <2>3. ASSUME NEW p \in Node, change'[p].op = "add"
          PROVE  leading'[p] /\ change'[p].id \in conf'[p].ids
      <3>1. p # m
        BY <1>4, <2>3 DEF NoChange
      <3> QED BY <1>4, <2>3, <3>1 DEF AddedActive
    <2> QED BY <2>1, <2>2, <2>3 DEF AddedActive
  <1> QED BY <1>1, <1>8, <1>9, <1>10, <1>11, <1>12

-----------------------------------------------------------------------------
(* The members and a leader that changes its configuration by one server,     *)
(* which it may do when the one before it is committed                        *)

LEMMA ChangeMembers ==
  ASSUME MembersInv, NEW n \in Node, NEW i \in Address, AddPeer(n, i) \/ RemovePeer(n, i)
  PROVE  MembersInv'
  <1> USE DEF MembersInv
  <1> DEFINE c == conf[n]
             d == conf'[n]
  <1>1. FormationInv'
    BY ChangeStep
  <1>2. /\ leading[n] /\ Committed(n) /\ term' = term /\ leading' = leading
        /\ change[n] = NoChange
    BY DEF AddPeer, RemovePeer, IsLeader, roleVars
  <1>3. /\ \A p \in Node : /\ conf[p] \in Conf /\ IsFiniteSet(conf[p].ids)
                           /\ conf[p].term \in Nat /\ conf[p].version \in Nat
                           /\ conf[p].ids \subseteq Address
                           /\ term[p] \in Nat /\ conf[p].term <= term[p]
        /\ c.term = term[n] /\ c.ids # {}
    BY <1>2, ConfFacts DEF TermsOrdered
  <1>4. /\ d.term = c.term /\ d.version = c.version + 1 /\ d.seed = c.seed
        /\ \/ AddPeer(n, i) /\ d.ids = c.ids \cup {i}
           \/ RemovePeer(n, i) /\ d.ids = c.ids \ {i} /\ c.ids # {i}
        /\ \A p \in Node \ {n} : conf'[p] = conf[p]
    <2>1. ASSUME NEW S, conf' = [conf EXCEPT ![n].version = @ + 1, ![n].ids = S]
          PROVE  /\ d.term = c.term /\ d.version = c.version + 1 /\ d.seed = c.seed
                 /\ d.ids = S
                 /\ \A p \in Node \ {n} : conf'[p] = conf[p]
      <3> DEFINE v == [c EXCEPT !.version = c.version + 1]
                 e == [v EXCEPT !.ids = S]
      <3>1. v.term = c.term /\ v.version = c.version + 1 /\ v.seed = c.seed
        BY <1>3 DEF Conf
      <3>2. DOMAIN v = {"term", "version", "ids", "seed"}
        BY <1>3 DEF Conf
      <3>3. conf' = [conf EXCEPT ![n] = e]
        BY <2>1 DEF FormationInv, TypeOK
      <3> HIDE DEF v
      <3>4. e.term = c.term /\ e.version = c.version + 1 /\ e.seed = c.seed /\ e.ids = S
        BY <3>1, <3>2
      <3> HIDE DEF e
      <3> QED BY <3>3, <3>4 DEF FormationInv, TypeOK
    <2>2. CASE AddPeer(n, i)
      <3>1. conf' = [conf EXCEPT ![n].version = @ + 1, ![n].ids = c.ids \cup {i}]
        BY <2>2 DEF AddPeer, FormationInv, TypeOK
      <3> QED BY <2>1, <2>2, <3>1
    <2>3. CASE RemovePeer(n, i)
      <3>1. conf' = [conf EXCEPT ![n].version = @ + 1, ![n].ids = c.ids \ {i}]
        BY <2>3 DEF RemovePeer, FormationInv, TypeOK
      <3>2. c.ids # {i}
        BY <2>3 DEF RemovePeer
      <3> QED BY <2>1, <2>3, <3>1, <3>2
    <2> QED BY <2>2, <2>3
  <1>5. d \in Conf /\ IsFiniteSet(d.ids) /\ d.ids # {}
    <2>1. d \in Conf
      BY <1>1 DEF FormationInv, TypeOK
    <2>2. d.ids # {} /\ (d.ids = c.ids \cup {i} \/ d.ids = c.ids \ {i})
      BY <1>3, <1>4
    <2>3. IsFiniteSet(c.ids)
      BY <1>3
    <2> HIDE DEF c, d
    <2>4. IsFiniteSet(d.ids)
      BY <2>2, <2>3, FS_AddElement, FS_RemoveElement
    <2> QED BY <2>1, <2>2, <2>4
  <1>6. Meet(c, d) /\ Meet(d, c) /\ Meet(d, d)
    <2>1. IsFiniteSet(c.ids) /\ (d.ids = c.ids \cup {i} \/ d.ids = c.ids \ {i})
      BY <1>3, <1>4
    <2> HIDE DEF c, d
    <2> QED BY <1>5, <2>1, MeetOneApart, MeetItself
  <1>7. Most(c, Holding(conf, c)) /\ Active(conf, c)
    BY <1>2, CommittedActive
  <1>8. \A p \in Node :
          \/ conf[p] = c
          \/ ~AtLeast(conf[p], c) /\ ~Active(conf, conf[p])
          \/ /\ term[n] < conf[p].term /\ conf[p].ids = c.ids
             /\ Most(c, InTerm(term, conf[p].term))
    BY <1>2, CommittedRules
  \* The new configuration is new.
  <1>9. \A p \in Node : conf[p].term = d.term => conf[p].version < d.version
    <2>1. ASSUME NEW p \in Node, conf[p].term = d.term PROVE conf[p].version <= c.version
      BY <1>2, <1>3, <1>4, <2>1 DEF Identified
    <2> QED BY <1>3, <1>4, <2>1
  <1>10. Grows
    <2>1. AtLeast(d, c)
      BY <1>3, <1>4 DEF AtLeast
    <2>2. \A p \in Node : AtLeast(conf[p], conf[p])
      BY <1>3 DEF AtLeast
    <2>3. \A p \in Node : AtLeast(conf'[p], conf[p])
      BY <1>4, <2>1, <2>2
    <2>4. \A p \in Node : term'[p] >= term[p]
      BY <1>2, <1>3
    <2> QED BY <2>3, <2>4 DEF Grows
  <1> HIDE DEF c, d
  <1>11. ASSUME NEW p \in Node, p # n, Active(conf', conf'[p])
         PROVE  /\ conf'[p] = conf[p] /\ Active(conf, conf[p])
                /\ conf[p].ids = c.ids /\ (conf[p] = c \/ term[n] < conf[p].term)
    <2>1. conf'[p] = conf[p] /\ Active(conf, conf[p])
      BY <1>1, <1>3, <1>4, <1>10, <1>11, ActiveBefore
    <2> QED BY <1>8, <2>1
  <1>12. \A p \in Node : conf'[p].term = conf[p].term
    BY <1>4 DEF c, d
  <1>13. TermsOrdered'
    <2>1. ASSUME NEW p \in Node
          PROVE  conf'[p].term <= term'[p] /\ IsFiniteSet(conf'[p].ids)
      BY <1>2, <1>3, <1>4, <1>5, <1>12 DEF c, d
    <2>2. ASSUME NEW p \in Node, conf'[p] # NoConf
          PROVE  conf'[p].ids # {} /\ conf'[p].term > 0 /\ term'[conf'[p].seed] > 0
      <3>1. CASE p # n
        BY <1>2, <1>4, <2>2, <3>1 DEF TermsOrdered
      <3>2. CASE p = n
        <4>1. c # NoConf
          BY <1>2 DEF TermsOrdered, c
        <4>2. c.term > 0 /\ term[c.seed] > 0
          BY <4>1 DEF TermsOrdered, c
        <4> QED BY <1>2, <1>4, <1>5, <3>2, <4>2 DEF d
      <3> QED BY <3>1, <3>2
    <2>3. ASSUME NEW p \in Node, leading'[p]
          PROVE  conf'[p] # NoConf /\ conf'[p].term = term'[p]
      <3>1. conf[p] # NoConf /\ conf[p].term = term[p]
        BY <1>2, <2>3 DEF TermsOrdered
      <3>2. conf'[p] # NoConf
        BY <1>4, <1>5, <3>1 DEF d, NoConf
      <3> QED BY <1>2, <1>12, <3>1, <3>2
    <2> QED BY <2>1, <2>2, <2>3 DEF TermsOrdered
  <1>14. Identified'
    <2>1. ASSUME NEW p \in Node, NEW q \in Node, conf'[p].term = conf'[q].term,
                 conf'[p].version = conf'[q].version
          PROVE  conf'[p] = conf'[q]
      <3>1. CASE p = n /\ q # n
        BY <1>3, <1>4, <1>5, <1>9, <2>1, <3>1 DEF d, Conf
      <3>2. CASE p # n /\ q = n
        BY <1>3, <1>4, <1>5, <1>9, <2>1, <3>2 DEF d, Conf
      <3>3. CASE p # n /\ q # n
        BY <1>4, <2>1, <3>3 DEF Identified
      <3> QED BY <3>1, <3>2, <3>3
    <2>2. ASSUME NEW p \in Node, NEW q \in Node, leading'[p], leading'[q],
                 term'[p] = term'[q]
          PROVE  p = q
      BY <1>2, <2>2 DEF Identified
    <2>3. ASSUME NEW p \in Node, NEW q \in Node, leading'[p], conf'[q].term = term'[p]
          PROVE  conf'[q].version <= conf'[p].version
      <3>1. leading[p] /\ conf[q].term = term[p] /\ conf[q].version <= conf[p].version
        BY <1>2, <1>12, <2>3 DEF Identified
      <3>2. CASE p = n
        <4>1. CASE q = n
          BY <1>5, <3>2, <4>1 DEF d, Conf
        <4>2. CASE q # n
          BY <1>3, <1>4, <3>1, <3>2, <4>2 DEF c, d
        <4> QED BY <4>1, <4>2
      <3>3. CASE p # n
        <4>1. q # n
          BY <1>2, <1>3, <3>1, <3>3 DEF c, Identified
        <4> QED BY <1>4, <3>1, <3>3, <4>1
      <3> QED BY <3>2, <3>3
    <2> QED BY <2>1, <2>2, <2>3 DEF Identified
  <1>15. ActiveMeet'
    <2>1. ASSUME NEW p \in Node, NEW q \in Node,
                 Active(conf', conf'[p]), Active(conf', conf'[q])
          PROVE  Meet(conf'[p], conf'[q])
      <3>1. CASE p = n /\ q = n
        BY <1>6, <3>1 DEF d
      <3>2. CASE p = n /\ q # n
        <4>1. conf'[q].ids = c.ids
          BY <1>11, <2>1, <3>2
        <4> QED BY <1>6, <3>2, <4>1, MeetSameIds DEF d
      <3>3. CASE p # n /\ q = n
        <4>1. conf'[p].ids = c.ids
          BY <1>11, <2>1, <3>3
        <4> QED BY <1>6, <3>3, <4>1, MeetSameIds DEF d
      <3>4. CASE p # n /\ q # n
        <4>1. /\ conf'[p] = conf[p] /\ Active(conf, conf[p])
              /\ conf'[q] = conf[q] /\ Active(conf, conf[q])
          BY <1>11, <2>1, <3>4
        <4> QED BY <4>1 DEF ActiveMeet
      <3> QED BY <3>1, <3>2, <3>3, <3>4
    <2>2. ASSUME NEW p \in Node, NEW q \in Node, Active(conf', conf'[p])
          PROVE  Blocks(conf'[p], InTerm(term', conf'[q].term))
      <3>1. CASE p # n
        BY <1>2, <1>11, <1>12, <2>2, <3>1 DEF ActiveMeet
      <3>2. Most(c, InTerm(term, conf[q].term))
        <4>1. CASE term[n] < conf[q].term
          <5>1. ~(conf[q] = c) /\ AtLeast(conf[q], c)
            BY <1>3, <4>1 DEF AtLeast, c
          <5> QED BY <1>8, <5>1
        <4>2. CASE ~(term[n] < conf[q].term)
          <5>1. ASSUME NEW j \in Holding(conf, c) PROVE j \in InTerm(term, conf[q].term)
            <6>1. At[j] \in Node /\ At[j] # Nobody /\ conf[At[j]] = c /\ j \in Address
              BY <5>1, FormationAssumption DEF Holding
            <6>2. c.term <= term[At[j]] /\ term[At[j]] \in Nat /\ c.term \in Nat
              BY <1>3, <6>1 DEF c
            <6>3. term[At[j]] >= conf[q].term
              BY <1>3, <4>2, <6>2
            <6> QED BY <6>1, <6>3 DEF InTerm
          <5>2. IsFiniteSet(c.ids)
            BY <1>3 DEF c
          <5> QED BY <1>7, <5>1, <5>2, MostMonotone
        <4> QED BY <4>1, <4>2
      <3>3. Blocks(d, InTerm(term, conf[q].term))
        <4>1. InTerm(term, conf[q].term) \in SUBSET Address
          BY DEF InTerm
        <4>2. Blocks(d, c.ids \cap InTerm(term, conf[q].term))
          BY <1>5, <1>6, <3>2, <4>1, MeetBlocks
        <4>3. d.ids \cap (c.ids \cap InTerm(term, conf[q].term)) \subseteq InTerm(term, conf[q].term)
          OBVIOUS
        <4> QED BY <1>5, <4>2, <4>3, BlocksMonotone
      <3> QED BY <1>2, <1>12, <3>1, <3>3 DEF d
    <2> QED BY <2>1, <2>2 DEF ActiveMeet
  <1>16. StaleLeader'
    <2> SUFFICES ASSUME NEW p \in Node, NEW q \in Node,
                        leading[p], term[p] < conf[q].term, Active(conf', conf'[p])
                 PROVE  \/ Blocks(conf'[p], InTerm(term, term[p] + 1) \ Holding(conf', conf'[p]))
                        \/ /\ conf'[q].ids = conf'[p].ids
                           /\ Most(conf'[p], InTerm(term, conf'[q].term))
      BY <1>2, <1>12 DEF StaleLeader
    <2>1. CASE p # n
      <3>1. conf'[p] = conf[p] /\ Active(conf, conf[p]) /\ (conf[p] = c \/ term[n] < conf[p].term)
        BY <1>11, <2>1
      <3>2. conf[p].term = term[p]
        BY DEF TermsOrdered
      <3>3. q # n
        <4>1. q = n => term[p] < c.term /\ ~(conf[p] = c)
          BY <1>3, <3>2 DEF c
        <4> QED BY <1>3, <3>1, <3>2, <4>1 DEF c
      <3>4. \/ Blocks(conf[p], InTerm(term, term[p] + 1) \ Holding(conf, conf[p]))
            \/ /\ conf[q].ids = conf[p].ids
               /\ Most(conf[p], InTerm(term, conf[q].term))
        BY <3>1 DEF StaleLeader
      <3>5. Holding(conf', conf[p]) \subseteq Holding(conf, conf[p])
        <4> SUFFICES ASSUME NEW j \in Address, At[j] # Nobody, conf'[At[j]] = conf[p]
                     PROVE  conf[At[j]] = conf[p]
          BY DEF Holding
        <4>1. At[j] # n
          BY <1>3, <1>9, <1>5 DEF d, Conf
        <4> QED BY <1>4, <4>1, FormationAssumption
      <3>6. Blocks(conf[p], InTerm(term, term[p] + 1) \ Holding(conf, conf[p]))
              => Blocks(conf[p], InTerm(term, term[p] + 1) \ Holding(conf', conf[p]))
        <4>1. IsFiniteSet(conf[p].ids)
          BY <1>3
        <4>2. conf[p].ids \cap (InTerm(term, term[p] + 1) \ Holding(conf, conf[p]))
                \subseteq InTerm(term, term[p] + 1) \ Holding(conf', conf[p])
          BY <3>5
        <4> QED BY <4>1, <4>2, BlocksMonotone
      <3>7. conf'[q] = conf[q]
        BY <1>4, <3>3
      <3> QED BY <3>1, <3>4, <3>6, <3>7
    <2>2. CASE p = n
      <3>1. Most(c, InTerm(term, conf[q].term))
        <4>1. ~(conf[q] = c) /\ AtLeast(conf[q], c)
          BY <1>3, <2>2 DEF AtLeast, c
        <4> QED BY <1>8, <4>1
      <3>2. InTerm(term, conf[q].term) \in SUBSET Address
        BY DEF InTerm
      <3>3. Blocks(d, c.ids \cap InTerm(term, conf[q].term))
        BY <1>5, <1>6, <3>1, <3>2, MeetBlocks
      <3>4. ASSUME NEW j \in InTerm(term, conf[q].term)
            PROVE  j \in InTerm(term, term[n] + 1) \ Holding(conf', d)
        <4>1. At[j] \in Node /\ At[j] # Nobody /\ term[At[j]] >= conf[q].term /\ j \in Address
          BY <3>4, FormationAssumption DEF InTerm
        <4>2. term[At[j]] >= term[n] + 1
          BY <1>3, <2>2, <4>1
        <4>3. At[j] # n
          BY <1>3, <4>2
        <4>4. conf'[At[j]] # d
          BY <1>3, <1>4, <1>5, <1>9, <4>1, <4>3 DEF Conf
        <4> QED BY <4>1, <4>2, <4>4 DEF InTerm, Holding
      <3>5. Blocks(d, InTerm(term, term[n] + 1) \ Holding(conf', d))
        <4>1. d.ids \cap (c.ids \cap InTerm(term, conf[q].term))
                \subseteq InTerm(term, term[n] + 1) \ Holding(conf', d)
          BY <3>4
        <4> QED BY <1>5, <3>3, <4>1, BlocksMonotone
      <3> QED BY <2>2, <3>5 DEF d
    <2> QED BY <2>1, <2>2
  <1>17. AddedActive'
    <2>1. members' # {} => \E p \in Node : conf'[p] # NoConf
      BY <1>5 DEF d, NoConf
    <2>2. members' \subseteq members /\ members \subseteq c.ids
          /\ (RemovePeer(n, i) => members' = members \ {i})
      BY <1>4, <1>7 DEF AddedActive, AddPeer, RemovePeer, c
    <2>3. ASSUME NEW p \in Node, Active(conf', conf'[p])
          PROVE  members' \subseteq conf'[p].ids
      <3>1. CASE p # n
        BY <1>11, <2>2, <2>3, <3>1
      <3>2. CASE p = n
        BY <1>4, <2>2, <3>2 DEF d
      <3> QED BY <3>1, <3>2
    <2>4. ASSUME NEW p \in Node, change'[p].op = "add"
          PROVE  leading'[p] /\ change'[p].id \in conf'[p].ids
      <3>1. change \in [Node -> Change]
        BY DEF FormationInv, TypeOK
      <3>2. CASE p # n
        <4>1. change'[p] = change[p]
          BY <3>1, <3>2 DEF AddPeer, RemovePeer
        <4> QED BY <1>2, <1>4, <2>4, <3>2, <4>1 DEF AddedActive
      <3>3. CASE p = n
        <4>1. CASE RemovePeer(n, i)
          BY <2>4, <3>1, <3>3, <4>1 DEF RemovePeer
        <4>2. CASE AddPeer(n, i)
          <5>1. change'[n].id = i
            BY <3>1, <4>2 DEF AddPeer
          <5>2. i \in d.ids \/ RemovePeer(n, i)
            BY <1>4
          <5> QED BY <1>2, <3>3, <4>1, <5>1, <5>2 DEF d
        <4> QED BY <4>1, <4>2
      <3> QED BY <3>2, <3>3
    <2> QED BY <2>1, <2>3, <2>4 DEF AddedActive
  <1> QED BY <1>1, <1>13, <1>14, <1>15, <1>16, <1>17

-----------------------------------------------------------------------------
(* The members and an election: the configuration of the winner becomes the   *)
(* newest of all, and blocks what older leaders have not committed            *)

LEMMA ElectMembers ==
  ASSUME MembersInv, NEW n \in Node, Elect(n)
  PROVE  MembersInv'
  <1> USE DEF MembersInv
  <1> DEFINE c == conf[n]
  <1>1. FormationInv'
    BY ElectStep
  <1>2. PICK Q \in SUBSET Supporters(n) :
          /\ Own[n] \in Q /\ Most(c, Q)
          /\ \E t \in {term[m] + 1 : m \in {At[i] : i \in Q}} :
               /\ \A m \in {At[i] : i \in Q} : term[m] < t
               /\ term' = [m \in Node |-> IF m \in {At[i] : i \in Q} THEN t ELSE term[m]]
               /\ conf' = [conf EXCEPT ![n].term = t]
    BY DEF Elect
  <1> DEFINE V == {At[i] : i \in Q}
  <1>3. PICK t \in {term[m] + 1 : m \in V} :
          /\ \A m \in V : term[m] < t
          /\ term' = [m \in Node |-> IF m \in V THEN t ELSE term[m]]
          /\ conf' = [conf EXCEPT ![n].term = t]
    BY <1>2
  <1>4. /\ Candidate(n) /\ leading' = [leading EXCEPT ![n] = TRUE]
        /\ change' = change /\ members' = members
    BY DEF Elect
  <1>5. \A p \in Node : /\ conf[p] \in Conf /\ IsFiniteSet(conf[p].ids)
                        /\ conf[p].term \in Nat /\ conf[p].version \in Nat
                        /\ conf[p].ids \subseteq Address
                        /\ term[p] \in Nat /\ conf[p].term <= term[p]
    BY ConfFacts
  <1>6. \A i \in Q : /\ i \in Address /\ i \in c.ids /\ At[i] \in Node /\ At[i] # Nobody
                     /\ At[i] \in V /\ Grants(At[i], n)
    BY <1>5, FormationAssumption DEF Supporters
  <1>7. /\ n \in V /\ V \subseteq Node
        /\ \A p \in V : ~leading[p] /\ AtLeast(c, conf[p])
    BY <1>2, <1>6, FormationAssumption DEF Grants
  <1>8. t \in Nat /\ t > 0
    BY <1>3, <1>5, <1>7
  <1>9. /\ term'[n] = t
        /\ \A p \in V : term'[p] = t
        /\ \A p \in Node \ V : term'[p] = term[p]
    BY <1>3, <1>7
  <1>10. /\ conf'[n].term = t /\ conf'[n].version = c.version
         /\ conf'[n].ids = c.ids /\ conf'[n].seed = c.seed
         /\ \A p \in Node \ {n} : conf'[p] = conf[p]
    <2> DEFINE d == [c EXCEPT !.term = t]
    <2>1. d.term = t /\ d.version = c.version /\ d.ids = c.ids /\ d.seed = c.seed
      BY <1>5 DEF Conf
    <2>2. conf' = [conf EXCEPT ![n] = d]
      BY <1>3 DEF FormationInv, TypeOK
    <2> HIDE DEF d
    <2> QED BY <2>1, <2>2 DEF FormationInv, TypeOK
  <1>11. leading'[n] = TRUE /\ \A p \in Node \ {n} : leading'[p] = leading[p]
    BY <1>4 DEF FormationInv, TypeOK
  <1>12. IsFiniteSet(c.ids) /\ c \in Conf /\ c.ids \subseteq Address /\ conf'[n] \in Conf
    BY <1>1, <1>5 DEF FormationInv, TypeOK
  <1>13. c.ids # {} /\ c # NoConf
    BY <1>2, <1>6 DEF NoConf
  <1> HIDE DEF V, c
  \* A majority of the configuration of the winner is not past it ...
  <1>14. Active(conf, c)
    <2>1. c.ids \cap Q \subseteq Address \ Past(conf, c)
      BY <1>6, <1>7 DEF Past
    <2> QED BY <1>2, <1>12, <2>1, MostMonotone DEF Active
  \* ... and so every configuration is of an earlier term than the new one.
  <1>15. \A p \in Node : conf[p].term < t
    <2> SUFFICES ASSUME NEW p \in Node PROVE conf[p].term < t
      OBVIOUS
    <2>1. Blocks(c, InTerm(term, conf[p].term))
      BY <1>14 DEF ActiveMeet, c
    <2>2. PICK i \in Q : i \in InTerm(term, conf[p].term)
      <3>1. c.ids \cap Q \cap InTerm(term, conf[p].term) # {}
        BY <1>2, <1>12, <2>1, MostMeetsBlocks
      <3> QED BY <3>1
    <2>3. At[i] \in Node /\ term[At[i]] >= conf[p].term /\ term[At[i]] < t
      BY <1>3, <1>6, <2>2 DEF InTerm
    <2> QED BY <1>5, <1>8, <2>3
  <1>16. \A p \in Node : leading[p] => p \notin V /\ p # n /\ term'[p] = term[p]
                                       /\ conf[p].term = term[p] /\ term[p] < t
    BY <1>7, <1>9, <1>15 DEF TermsOrdered
  <1>17. Grows
    <2>1. AtLeast(conf'[n], conf[n])
      BY <1>10, <1>15 DEF AtLeast
    <2>2. \A p \in Node : AtLeast(conf[p], conf[p])
      BY <1>5 DEF AtLeast
    <2>3. \A p \in Node : AtLeast(conf'[p], conf[p])
      BY <1>10, <2>1, <2>2
    <2>4. ASSUME NEW p \in Node PROVE term'[p] >= term[p]
      <3>1. CASE p \in V
        BY <1>3, <1>5, <1>8, <1>9, <3>1
      <3>2. CASE p \notin V
        BY <1>5, <1>9, <3>2
      <3> QED BY <3>1, <3>2
    <2> QED BY <2>3, <2>4 DEF Grows
  <1>18. \A p \in Node : Active(conf', conf'[p]) => Active(conf, conf[p])
    <2>1. ASSUME NEW p \in Node, p # n, Active(conf', conf'[p])
          PROVE  Active(conf, conf[p])
      BY <1>1, <1>5, <1>10, <1>17, <2>1, ActiveBefore
    <2> QED BY <1>14, <2>1 DEF c
  <1>19. \A p \in Node : conf'[p].ids = conf[p].ids
    BY <1>10 DEF c
  <1>20. Q \in SUBSET Address /\ \A k \in Nat : k <= t => Q \subseteq InTerm(term', k)
    <2>1. ASSUME NEW k \in Nat, k <= t, NEW i \in Q PROVE i \in InTerm(term', k)
      <3>1. i \in Address /\ At[i] # Nobody /\ term'[At[i]] = t
        BY <1>6, <1>9
      <3>2. term'[At[i]] >= k
        BY <1>8, <2>1, <3>1
      <3> QED BY <3>1, <3>2 DEF InTerm
    <2> QED BY <1>6, <2>1
  \* A majority of the voters blocks every active configuration.
  <1>21. \A p \in Node : Active(conf, conf[p]) => Blocks(conf[p], c.ids \cap Q)
    <2> SUFFICES ASSUME NEW p \in Node, Active(conf, conf[p])
                 PROVE  Blocks(conf[p], c.ids \cap Q)
      OBVIOUS
    <2>1. Meet(conf[p], c) /\ IsFiniteSet(conf[p].ids)
      BY <1>5, <1>14 DEF ActiveMeet, c
    <2> QED BY <1>2, <1>20, <2>1, MeetBlocks
  <1>22. TermsOrdered'
    <2>1. ASSUME NEW p \in Node
          PROVE  conf'[p].term <= term'[p] /\ IsFiniteSet(conf'[p].ids)
      <3>1. CASE p = n
        BY <1>8, <1>9, <1>10, <1>12, <3>1
      <3>2. CASE p # n
        <4>1. conf[p].term <= term[p] /\ term'[p] >= term[p] /\ term'[p] \in Nat
          BY <1>1, <1>5, <1>17 DEF Grows, FormationInv, TypeOK
        <4>2. conf[p].term <= term'[p]
          BY <1>5, <4>1
        <4> QED BY <1>5, <1>10, <3>2, <4>2
      <3> QED BY <3>1, <3>2
    <2>2. ASSUME NEW p \in Node, conf'[p] # NoConf
          PROVE  conf'[p].ids # {} /\ conf'[p].term > 0 /\ term'[conf'[p].seed] > 0
      <3>1. conf[p] # NoConf
        BY <1>10, <1>13, <2>2 DEF c
      <3>2. conf[p].ids # {} /\ conf[p].term > 0 /\ term[conf[p].seed] > 0
        BY <3>1 DEF TermsOrdered
      <3>3. conf'[p].seed = conf[p].seed /\ conf[p].seed \in Node
        BY <1>10, <3>1 DEF c, FormationInv, FromASeed, Seeds
      <3>4. /\ term'[conf[p].seed] >= term[conf[p].seed]
            /\ term'[conf[p].seed] \in Nat /\ term[conf[p].seed] \in Nat
        BY <1>1, <1>5, <1>17, <3>3 DEF Grows, FormationInv, TypeOK
      <3>5. term'[conf'[p].seed] > 0
        BY <3>2, <3>3, <3>4
      <3>6. conf'[p].term > 0
        BY <1>8, <1>10, <3>2
      <3> QED BY <1>19, <3>2, <3>5, <3>6
    <2>3. ASSUME NEW p \in Node, leading'[p]
          PROVE  conf'[p] # NoConf /\ conf'[p].term = term'[p]
      <3>1. CASE p = n
        BY <1>9, <1>10, <1>13, <3>1 DEF NoConf
      <3>2. CASE p # n
        BY <1>10, <1>11, <1>16, <2>3, <3>2 DEF TermsOrdered
      <3> QED BY <3>1, <3>2
    <2> QED BY <2>1, <2>2, <2>3 DEF TermsOrdered
  <1>23. Identified'
    <2>1. ASSUME NEW p \in Node, NEW q \in Node, conf'[p].term = conf'[q].term,
                 conf'[p].version = conf'[q].version
          PROVE  conf'[p] = conf'[q]
      <3>1. p # n => conf'[p].term # t
        BY <1>5, <1>8, <1>10, <1>15
      <3>2. q # n => conf'[q].term # t
        BY <1>5, <1>8, <1>10, <1>15
      <3>3. p = n <=> q = n
        BY <1>10, <2>1, <3>1, <3>2
      <3>4. CASE p # n /\ q # n
        BY <1>10, <2>1, <3>4 DEF Identified
      <3> QED BY <3>3, <3>4
    <2>2. ASSUME NEW p \in Node, leading'[p]
          PROVE  IF p = n THEN term'[p] = t
                 ELSE leading[p] /\ term'[p] = term[p] /\ term[p] < t
      BY <1>9, <1>11, <1>16, <2>2
    <2>3. ASSUME NEW p \in Node, NEW q \in Node, leading'[p], leading'[q],
                 term'[p] = term'[q]
          PROVE  p = q
      <3>1. p = n <=> q = n
        BY <1>5, <1>8, <2>2, <2>3
      <3>2. CASE p # n /\ q # n
        BY <2>2, <2>3, <3>2 DEF Identified
      <3> QED BY <3>1, <3>2
    <2>4. ASSUME NEW p \in Node, NEW q \in Node, leading'[p], conf'[q].term = term'[p]
          PROVE  conf'[q].version <= conf'[p].version
      <3>1. CASE p = n
        <4>1. q = n
          BY <1>5, <1>8, <1>9, <1>10, <1>15, <2>4, <3>1
        <4> QED BY <1>5, <1>10, <3>1, <4>1 DEF c
      <3>2. CASE p # n
        <4>1. leading[p] /\ term'[p] = term[p] /\ term[p] < t
          BY <2>2, <2>4, <3>2
        <4>2. q # n
          BY <1>5, <1>8, <1>10, <2>4, <4>1
        <4> QED BY <1>10, <2>4, <3>2, <4>1, <4>2 DEF Identified
      <3> QED BY <3>1, <3>2
    <2> QED BY <2>1, <2>3, <2>4 DEF Identified
  <1>24. ActiveMeet'
    <2>1. ASSUME NEW p \in Node, NEW q \in Node,
                 Active(conf', conf'[p]), Active(conf', conf'[q])
          PROVE  Meet(conf'[p], conf'[q])
      <3>1. Meet(conf[p], conf[q])
        BY <1>18, <2>1 DEF ActiveMeet
      <3> QED BY <1>19, <3>1, MeetSameIds
    <2>2. ASSUME NEW p \in Node, NEW q \in Node, Active(conf', conf'[p])
          PROVE  Blocks(conf'[p], InTerm(term', conf'[q].term))
      <3>1. Active(conf, conf[p]) /\ IsFiniteSet(conf[p].ids)
        BY <1>5, <1>18, <2>2
      <3>2. CASE q = n
        <4>1. Blocks(conf[p], c.ids \cap Q)
          BY <1>21, <3>1
        <4>2. conf[p].ids \cap (c.ids \cap Q) \subseteq InTerm(term', t)
          BY <1>8, <1>20
        <4>3. Blocks(conf[p], InTerm(term', t))
          BY <3>1, <4>1, <4>2, BlocksMonotone
        <4> QED BY <1>10, <1>19, <3>2, <4>3 DEF Blocks, Most
      <3>3. CASE q # n
        <4>1. Blocks(conf[p], InTerm(term, conf[q].term))
          BY <3>1 DEF ActiveMeet
        <4>2. InTerm(term, conf[q].term) \subseteq InTerm(term', conf[q].term)
          BY <1>1, <1>5, <1>17, TermsGrow
        <4>3. Blocks(conf[p], InTerm(term', conf[q].term))
          BY <3>1, <4>1, <4>2, BlocksMonotone
        <4> QED BY <1>10, <1>19, <3>3, <4>3 DEF Blocks, Most
      <3> QED BY <3>2, <3>3
    <2> QED BY <2>1, <2>2 DEF ActiveMeet
  <1>25. StaleLeader'
    <2> SUFFICES ASSUME NEW p \in Node, NEW q \in Node,
                        leading'[p], term'[p] < conf'[q].term, Active(conf', conf'[p])
                 PROVE  \/ Blocks(conf'[p], InTerm(term', term'[p] + 1) \ Holding(conf', conf'[p]))
                        \/ /\ conf'[q].ids = conf'[p].ids
                           /\ Most(conf'[p], InTerm(term', conf'[q].term))
      BY DEF StaleLeader
    <2>1. p # n
      <3>1. conf'[q].term <= t
        BY <1>5, <1>8, <1>10, <1>15
      <3> QED BY <1>1, <1>8, <1>9, <3>1 DEF FormationInv, TypeOK, Conf
    <2>2. /\ leading[p] /\ conf'[p] = conf[p] /\ term'[p] = term[p] /\ term[p] < t
          /\ Active(conf, conf[p]) /\ conf[p].term = term[p]
      BY <1>10, <1>11, <1>16, <1>18, <2>1
    <2>3. \A j \in Holding(conf', conf[p]) \ Holding(conf, conf[p]) : FALSE
      <3> SUFFICES ASSUME NEW j \in Address, At[j] # Nobody, conf'[At[j]] = conf[p]
                   PROVE  conf[At[j]] = conf[p]
        BY DEF Holding
      <3>1. At[j] # n
        BY <1>5, <1>8, <1>10, <1>15
      <3> QED BY <1>10, <3>1, FormationAssumption
    <2>4. conf[p] \in Conf /\ IsFiniteSet(conf[p].ids) /\ term[p] \in Nat
      BY <1>5
    \* What held of an older configuration holds of it still.
    <2>5. ASSUME NEW r \in Node, term[p] < conf[r].term
          PROVE  \/ Blocks(conf[p], InTerm(term', term[p] + 1) \ Holding(conf', conf[p]))
                 \/ /\ conf[r].ids = conf[p].ids
                    /\ Most(conf[p], InTerm(term', conf[r].term))
      <3>1. \/ Blocks(conf[p], InTerm(term, term[p] + 1) \ Holding(conf, conf[p]))
            \/ /\ conf[r].ids = conf[p].ids
               /\ Most(conf[p], InTerm(term, conf[r].term))
        BY <2>2, <2>5 DEF StaleLeader
      <3>2. conf[r] \in Conf
        BY <1>5
      <3> QED BY <1>1, <1>17, <2>3, <2>4, <3>1, <3>2, StaleStays
    <2>6. CASE q # n
      BY <1>10, <2>2, <2>5, <2>6
    <2>7. CASE q = n
      <3>1. CASE c.ids = conf[p].ids
        <4>1. Most(conf[p], Q)
          BY <1>2, <3>1 DEF Most
        <4>2. conf[p].ids \cap Q \subseteq InTerm(term', t)
          BY <1>8, <1>20
        <4>3. Most(conf[p], InTerm(term', t))
          BY <2>4, <4>1, <4>2, MostMonotone
        <4> QED BY <1>10, <2>2, <2>7, <3>1, <4>3
      <3>2. CASE term[p] < c.term /\ c.ids # conf[p].ids
        BY <2>2, <2>5, <3>2 DEF c
      <3>3. CASE ~(term[p] < c.term) /\ c.ids # conf[p].ids
        <4>1. ~AtLeast(c, conf[p])
          <5>1. c.term = term[p] => c.version <= conf[p].version
            BY <2>2 DEF Identified, c
          <5>2. c.term = conf[p].term => c.version # conf[p].version
            BY <3>3 DEF Identified, c
          <5>3. c.term \in Nat /\ c.version \in Nat /\ conf[p].version \in Nat /\ term[p] \in Nat
            BY <1>5 DEF c
          <5>4. c.term = conf[p].term => c.version < conf[p].version
            BY <2>2, <5>1, <5>2, <5>3
          <5> QED BY <2>2, <3>3, <5>3, <5>4 DEF AtLeast
        <4>2. ASSUME NEW i \in Q PROVE i \in InTerm(term', term[p] + 1) \ Holding(conf', conf[p])
          <5>1. conf[At[i]] # conf[p]
            BY <1>6, <1>7, <4>1
          <5>2. i \notin Holding(conf', conf[p])
            BY <2>3, <5>1 DEF Holding
          <5>3. term[p] + 1 \in Nat /\ term[p] + 1 <= t
            BY <1>8, <2>2, <2>4
          <5> QED BY <1>20, <5>2, <5>3
        <4>3. Blocks(conf[p], c.ids \cap Q)
          BY <1>21, <2>2
        <4>4. conf[p].ids \cap (c.ids \cap Q)
                \subseteq InTerm(term', term[p] + 1) \ Holding(conf', conf[p])
          BY <4>2
        <4> QED BY <2>2, <2>4, <4>3, <4>4, BlocksMonotone
      <3> QED BY <3>1, <3>2, <3>3
    <2> QED BY <2>6, <2>7
  <1>26. AddedActive'
    <2>1. members' # {} => \E p \in Node : conf'[p] # NoConf
      BY <1>8, <1>10 DEF NoConf
    <2>2. \A p \in Node : Active(conf', conf'[p]) => members' \subseteq conf'[p].ids
      BY <1>4, <1>18, <1>19 DEF AddedActive
    <2>3. ASSUME NEW p \in Node, change'[p].op = "add"
          PROVE  leading'[p] /\ change'[p].id \in conf'[p].ids
      <3>1. leading[p] /\ change[p].id \in conf[p].ids
        BY <1>4, <2>3 DEF AddedActive
      <3> QED BY <1>4, <1>11, <1>19, <3>1
    <2> QED BY <2>1, <2>2, <2>3 DEF AddedActive
  <1> QED BY <1>1, <1>22, <1>23, <1>24, <1>25, <1>26

-----------------------------------------------------------------------------

LEMMA MembersStep ==
  ASSUME AtMostOneSeed
  PROVE  MembersInv /\ [Next]_vars => MembersInv'
  <1> SUFFICES ASSUME MembersInv, [Next]_vars PROVE MembersInv'
    OBVIOUS
  <1>1. CASE UNCHANGED vars
    <2>1. FormationInv'
      BY <1>1, StepInvariant DEF MembersInv
    <2>2. UNCHANGED <<conf, term, leading, change, members>>
      BY <1>1 DEF vars, logVars, roleVars
    <2>3. \A m \in Node : change[m].op = "add" => leading[m]
      BY DEF MembersInv, AddedActive
    <2> QED BY <2>1, <2>2, <2>3, SameMembers
  <1>2. ASSUME NEW n \in Node,
               \/ NewManager(n) \/ PrepareFails(n) \/ OpenStores(n) \/ OpenFails(n)
               \/ NewRaft(n) \/ Join(n) \/ Ready(n) \/ Timeout(n)
        PROVE  MembersInv'
    BY <1>2, StartMembers
  <1>3. ASSUME NEW n \in Node, LoseLeader(n) \/ StepDown(n) \/ Shutdown(n) \/ Exit(n)
        PROVE  MembersInv'
    BY <1>3, LossMembers
  <1>4. ASSUME NEW n \in Node, ChangeDone(n) PROVE MembersInv'
    BY <1>4, ChangeDoneMembers
  <1>5. ASSUME NEW n \in Node, Bootstrap(n) PROVE MembersInv'
    BY <1>5, BootstrapMembers
  <1>6. ASSUME NEW n \in Node, Elect(n) PROVE MembersInv'
    BY <1>6, ElectMembers
  <1>7. ASSUME NEW n \in Node, NEW i \in Address, Replicate(n, i) PROVE MembersInv'
    BY <1>7, ReplicateMembers
  <1>8. ASSUME NEW n \in Node, NEW i \in Address, AddPeer(n, i) \/ RemovePeer(n, i)
        PROVE  MembersInv'
    BY <1>8, ChangeMembers
  <1> QED
    BY <1>1, <1>2, <1>3, <1>4, <1>5, <1>6, <1>7, <1>8 DEF Next, Boot

\* The configuration of a leader that has committed it, or whose term is the
\* newest, is active.
LEMMA LeaderActive ==
  ASSUME MembersInv, NEW n \in Node, leading[n],
         Committed(n) \/ \A m \in Node : term[m] <= term[n]
  PROVE  Active(conf, conf[n])
  <1> USE DEF MembersInv
  <1>1. CASE Committed(n)
    BY <1>1, CommittedActive
  <1>2. CASE \A m \in Node : term[m] <= term[n]
    <2>1. /\ conf[n].term = term[n] /\ conf[n].ids # {} /\ IsFiniteSet(conf[n].ids)
          /\ conf[n].ids \subseteq Address
      BY ConfFacts DEF TermsOrdered
    <2>2. ASSUME NEW m \in Node PROVE AtLeast(conf[n], conf[m])
      <3>1. /\ conf[m].term <= term[m] /\ term[m] <= term[n]
            /\ conf[m].term \in Nat /\ conf[m].version \in Nat /\ conf[n].version \in Nat
            /\ term[m] \in Nat /\ term[n] \in Nat
        BY <1>2, ConfFacts
      <3>2. conf[m].term = term[n] => conf[m].version <= conf[n].version
        BY DEF Identified
      <3> QED BY <2>1, <3>1, <3>2 DEF AtLeast
    <2>3. Past(conf, conf[n]) = {}
      BY <2>2, FormationAssumption DEF Past
    <2> QED BY <2>1, <2>3, MostOfAll DEF Active
  <1> QED BY <1>1, <1>2

\* Whatever is added and removed, elected and overwritten, and whatever ends and
\* starts again: no server whose AddPeer has returned nil gets lost from the
\* configuration of a leader that can still commit it, until it is removed.
THEOREM AddedMembersStay ==
  ASSUME \A n, m \in Node : Peers(n) = {} /\ Peers(m) = {} => n = m
  PROVE  Spec => []AddedStays
  <1>1. AtMostOneSeed
    BY DEF AtMostOneSeed
  <1>2. MembersInv /\ [Next]_vars => MembersInv'
    BY <1>1, MembersStep
  <1>3. MembersInv => AddedStays
    BY LeaderActive DEF MembersInv, AddedActive, AddedStays, IsLeader
  <1> QED BY InitMembers, <1>2, <1>3, PTL DEF Spec
=============================================================================
