--------------------------- MODULE StoreRefinement --------------------------
(* MultiFSM implements ReplicatedStore: the log is the history, the applied
   index of a node its position, and the rows of its own files its data. *)
EXTENDS MultiFSM

Own == {c \in Call : Target[c] \in Tracked}

Intact(n) == \A k \in Tracked : ~disk[n][k].torn

\* What node n holds of the statements whose databases live on it.
Holds(n) == {c \in Own : Intact(n) /\ disk[n][Target[c]].rows[c] >= 1}

\* The abstract state: what each node holds, whether it is readable, and the
\* statements some node could not execute.
Data   == [n \in Node |-> Holds(n)]
Sound  == [n \in Node |-> Intact(n)]
Failed == UNION {skipped[n] : n \in Node}

Store == INSTANCE ReplicatedStore WITH
  Replica  <- Node,
  Stmt     <- Call,
  Runnable <- {c \in Call : Target[c] \in DB},
  Held     <- Own,
  history  <- log,
  answer   <- res,
  at       <- applied,
  data     <- Data,
  sound    <- Sound,
  failed   <- Failed

\* Whatever crashes, elections, snapshots and restores do, what callers and
\* readers of the replicas can observe is a run of the abstract store: one
\* history that only grows, positions that move along it entry by entry or
\* forward by a transfer and back only to the start, data that holds what the
\* position says, and answers that come with the entry they are about.
ImplementsStore == Store!Spec
=============================================================================
