--------------------------- MODULE ReplicatedStore --------------------------
(***************************************************************************)
(* What a replicated store of statements promises, without its machinery:  *)
(* one history on which all replicas agree, a position in it and some data *)
(* on each replica, and one answer for each caller.  There is no leader,   *)
(* no file, no snapshot and no restart here, only their visible effects.   *)
(* MultiFSM implements it (module StoreRefinement).                        *)
(***************************************************************************)
EXTENDS Naturals, Sequences, SequencesExt

CONSTANTS
  Replica,
  Stmt,       \* statements, each submitted once
  Runnable,   \* the statements some database can execute
  Held        \* those of them whose effect each replica holds for itself

VARIABLES
  history,  \* the statements agreed on, in order
  answer,   \* answer[c]: what the submitter of c has been told
  at,       \* at[r]: how much of the history r counts as executed
  data,     \* data[r]: the statements whose effect r holds
  sound,    \* sound[r]: data[r] is readable; it is {} when it is not
  failed    \* statements that some replica could not execute

storeVars == <<history, answer, at, data, sound, failed>>

Agreed == ToSet(history)

\* The effects that a replica at position i has to hold.
Due(i) == (ToSet(SubSeq(history, 1, i)) \cap Held) \ failed

Init ==
  /\ history = << >>
  /\ answer = [c \in Stmt |-> "idle"]
  /\ at = [r \in Replica |-> 0]
  /\ data = [r \in Replica |-> {}] /\ sound = [r \in Replica |-> TRUE]
  /\ failed = {}

\* A statement is accepted, or refused for good.
Submit(c) ==
  /\ answer[c] = "idle"
  /\ \E a \in {"waiting", "refused"} : answer' = [answer EXCEPT ![c] = a]
  /\ UNCHANGED <<history, at, data, sound, failed>>

\* What was refused is never agreed on; what was lost may be.
Agree(c) ==
  /\ answer[c] \in {"waiting", "lost"} /\ c \notin Agreed
  /\ history' = Append(history, c)
  /\ UNCHANGED <<answer, at, data, sound, failed>>

\* Replica r takes the next step of the history, and may answer its submitter.
Advance(r) ==
  /\ at[r] < Len(history)
  /\ at' = [at EXCEPT ![r] = @ + 1]
  /\ UNCHANGED <<history, sound>>
  /\ LET c == history[at[r] + 1]
         Tell(a) == answer' \in {answer, [answer EXCEPT ![c] = a]}
         mayTell == answer[c] = "waiting"
     IN \/ /\ c \in Runnable
           /\ data' = [data EXCEPT ![r] = IF sound[r] THEN @ \cup ({c} \cap Held) ELSE @]
           /\ IF mayTell THEN Tell("ok") ELSE UNCHANGED answer
           /\ UNCHANGED failed
        \/ /\ UNCHANGED data
           /\ failed' = failed \cup ({c} \cap Runnable)
           /\ IF mayTell THEN Tell("failed") ELSE UNCHANGED answer

\* The data of r promises nothing until a transfer replaces it.
Spoil(r) ==
  /\ data' = [data EXCEPT ![r] = {}]
  /\ sound' = [sound EXCEPT ![r] = FALSE]

\* Replica r is brought to a later position by a transfer of data.  Its data
\* may change before its position does.
Transfer(r) ==
  /\ \E i \in at[r]..Len(history) :
       /\ at' = [at EXCEPT ![r] = i]
       /\ \/ \E d \in SUBSET Agreed :
               /\ Due(i) \subseteq d
               /\ data' = [data EXCEPT ![r] = d]
               /\ sound' = [sound EXCEPT ![r] = TRUE]
          \/ Spoil(r)
  /\ UNCHANGED <<history, answer, failed>>

\* Some of those who wait are told that their statement may be lost; a replica
\* may forget its position while it keeps its data.
Disturb ==
  /\ \E S \in SUBSET {c \in Stmt : answer[c] = "waiting"} :
       answer' = [c \in Stmt |-> IF c \in S THEN "lost" ELSE answer[c]]
  /\ \/ UNCHANGED <<at, data, sound>>
     \/ \E r \in Replica :
          /\ at' = [at EXCEPT ![r] = 0]
          /\ UNCHANGED <<data, sound>> \/ Spoil(r)
  /\ UNCHANGED <<history, failed>>

Next ==
  \/ \E c \in Stmt : Submit(c) \/ Agree(c)
  \/ \E r \in Replica : Advance(r) \/ Transfer(r)
  \/ Disturb

Spec == Init /\ [][Next]_storeVars
=============================================================================
