----------------------------- MODULE MCMultiFSM -----------------------------
(* Instances of MultiFSM for TLC. *)
EXTENDS StoreRefinement, FiniteSetsExt, TLC

CONSTANTS n1, n2, d1, d2, c1, c2

\* Every database has a file name of its own.
OwnNames == [k \in DB |-> k]

\* Two groups hold a database of the same name: core/app.db and edge/app.db.
SameName == [k \in DB |-> d1]

\* Both statements are for d1.
BothOnD1 == [c \in Call |-> d1]

\* A statement for a remote database, and one that names no database.
OneRemoteOneBad == [c \in Call |-> IF c = c1 THEN d2 ELSE NoDB]

\* Crashes and re-initialisations so far, over the whole cluster.
Disruptions ==
  LET cost(n) == (life[n] - 1) + (IF phase[n] = "down" THEN 1 ELSE 0)
  IN MapThenSumSet(cost, Node)

AtMostOneDisruption == Disruptions <= 1

\* No statement fails on one node alone besides a disruption.
SkipOrDisruption == Disruptions = 0 \/ \A n \in Node : skipped[n] = {}

\* Snapshots are persisted on one node at a time.
OneSnapshotter ==
  Cardinality({n \in Node : persist[n] # NoPersist}) <= 1

NodeSymmetry == Permutations(Node)
=============================================================================
