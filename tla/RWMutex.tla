------------------------------ MODULE RWMutex -------------------------------
(* Go's sync.RWMutex, by what its callers can observe: several readers or one
   writer; a writer that waits keeps new readers out; Unlock lets every waiting
   reader in before the next writer.  The lock is a record that the module
   using it keeps in one of its variables. *)
EXTENDS FiniteSets

CONSTANTS
  Thread,
  NoThread  \* not in Thread

Mutex == [readers : SUBSET Thread,           \* hold it for reading
          writer  : Thread \cup {NoThread},  \* holds it for writing
          next    : Thread \cup {NoThread},  \* writer waiting for the readers
          shut    : SUBSET Thread,           \* readers waiting for the writer
          queue   : SUBSET Thread]           \* writers waiting for the writer

Unlocked == [readers |-> {}, writer |-> NoThread, next |-> NoThread,
             shut |-> {}, queue |-> {}]

RLock(m, t) ==
  IF m.writer = NoThread /\ m.next = NoThread
  THEN [m EXCEPT !.readers = @ \cup {t}]
  ELSE [m EXCEPT !.shut = @ \cup {t}]

\* The last reader hands over to the writer that waits.
RUnlock(m, t) ==
  IF m.readers = {t} /\ m.next # NoThread
  THEN [m EXCEPT !.readers = {}, !.writer = m.next, !.next = NoThread]
  ELSE [m EXCEPT !.readers = @ \ {t}]

Lock(m, t) ==
  IF m.writer # NoThread \/ m.next # NoThread
  THEN [m EXCEPT !.queue = @ \cup {t}]
  ELSE IF m.readers = {} THEN [m EXCEPT !.writer = t]
                         ELSE [m EXCEPT !.next = t]

\* The possible locks after Unlock: any queued writer may be the next.
Unlock(m) ==
  LET freed == [m EXCEPT !.writer = NoThread, !.readers = m.shut, !.shut = {}]
  IN IF m.queue = {} THEN {freed}
     ELSE {Lock([freed EXCEPT !.queue = @ \ {t}], t) : t \in m.queue}
=============================================================================
