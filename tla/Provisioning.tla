----------------------------- MODULE Provisioning -----------------------------
(***************************************************************************)
(* The first half of NewManager and NewManagerWithTransport, up to the     *)
(* start of Raft: EnsureAllDBs finds or creates each configured database   *)
(* with the Turso Platform API, then a connector is opened for each.       *)
(* Several nodes do so at once, against one organisation.                  *)
(*                                                                         *)
(* External: the Platform API, which knows a database by its name alone,   *)
(* refuses to create a name twice, and may fail before or after it has     *)
(* done what it was asked; the operator, who starts a node again.  Whether *)
(* its answers to a lookup, and those to a creation, carry the version of  *)
(* the server is open, but does not change.                                *)
(***************************************************************************)
EXTENDS Naturals, Sequences, FiniteSets

CONSTANTS
  Node,
  Group,
  Name,       \* names of databases
  Keys,       \* the configured databases "group.name", in their order
  GroupOf,    \* the group of a key
  NameOf,     \* its name
  Settings,   \* the ways a node may be configured, called and built
  Flags,      \* the ways a group may be configured
  Legacy,     \* the names that a server of version 0.x hosts, or will host
  MaxFaults,  \* bound: requests and connection tests that fail
  None

Key == {Keys[i] : i \in 1..Len(Keys)}

ASSUME ProvisioningAssumption ==
  /\ Keys \in Seq(Key) /\ Keys # << >>
  /\ GroupOf \in [Key -> Group] /\ NameOf \in [Key -> Name]
  /\ Settings \subseteq SUBSET {"UseEmbedded", "WithTransport", "libsql_embed", "Credentials"}
  /\ Flags \subseteq SUBSET {"PureLocal", "AuthToken", "EncryptionKey"}
  /\ Legacy \subseteq Name /\ None \notin Group /\ MaxFaults \in Nat

VARIABLES
  setting,  \* setting[n]: what node n is configured, called and built with
  flag,     \* flag[g]: the fields of GroupConfig that are set
  tells,    \* the answers of the API that carry the version
  remote,   \* remote[d]: the group that database d of the organisation is in
  pc,       \* pc[n]: where NewManager of n is
  at,       \* at[n]: the index of the key it is at
  url,      \* url[n]: keys with a URL in dbInfo
  old,      \* old[n]: keys with a version 0.x in dbInfo
  made,     \* made[n]: keys whose entry is the answer to a creation of n
  handle,   \* handle[n]: the connector of each key
  faults    \* failures so far

given == <<setting, flag, tells>>
info == <<url, old, made>>
vars == <<given, remote, pc, at, info, handle, faults>>

NoHandles == [k \in Key |-> "none"]

Init ==
  /\ setting \in [Node -> Settings]
  /\ flag \in [Group -> Flags]
  /\ tells \in SUBSET {"lookup", "creation"}
  /\ remote \in [Name -> Group \cup {None}]
  /\ pc = [n \in Node |-> "idle"] /\ at = [n \in Node |-> 1]
  /\ url = [n \in Node |-> {}] /\ old = [n \in Node |-> {}]
  /\ made = [n \in Node |-> {}]
  /\ handle = [n \in Node |-> NoHandles] /\ faults = 0

-----------------------------------------------------------------------------
Has(n, s) == s \in setting[n]
Pure(k) == "PureLocal" \in flag[GroupOf[k]]
Current(n) == Keys[at[n]]

\* ManagerConfig.Validate: the API needs its credentials and a group in the
\* cloud a token, except in embedded mode.
Valid(n) ==
  \/ Has(n, "UseEmbedded")
  \/ /\ Has(n, "Credentials")
     /\ \A k \in Key : Pure(k) \/ "AuthToken" \in flag[GroupOf[k]]

\* NewManager skips EnsureAllDBs in embedded mode; NewManagerWithTransport
\* never does.
Ensures(n) == Has(n, "WithTransport") \/ ~Has(n, "UseEmbedded")

\* NewManager, unlike NewManagerWithTransport, forgets the token of a pure-local
\* group.
Token(n, k) ==
  /\ "AuthToken" \in flag[GroupOf[k]]
  /\ Pure(k) => Has(n, "WithTransport")

\* MakeConnectorForServer, of the build with embedded databases and of the other.
EmbeddedConnector(hasUrl, token, isOld) ==
  IF ~hasUrl /\ ~token THEN "local"
  ELSE IF ~hasUrl \/ ~token THEN "error"
  ELSE IF isOld THEN "remote" ELSE "replica"

RemoteConnector(hasUrl, token, encrypted) ==
  IF ~hasUrl \/ ~token THEN "error"
  ELSE IF encrypted THEN "replica" ELSE "remote"

\* The connector that n makes for k, with what dbInfo has about it.
Connector(n, k, hasUrl, isOld) ==
  IF Has(n, "libsql_embed")
  THEN EmbeddedConnector(hasUrl, Token(n, k), isOld)
  ELSE RemoteConnector(hasUrl, Token(n, k), "EncryptionKey" \in flag[GroupOf[k]])

-----------------------------------------------------------------------------
Goto(n, label, i) ==
  /\ pc' = [pc EXCEPT ![n] = label]
  /\ at' = [at EXCEPT ![n] = i]

\* Faulty: goes one key too far.
Advance_Past(n, loop, after) ==
  IF at[n] <= Len(Keys) THEN Goto(n, loop, at[n] + 1) ELSE Goto(n, after, 1)

\* The next round of a loop over the keys, or what follows the loop.
Advance(n, loop, after) ==
  IF at[n] < Len(Keys) THEN Goto(n, loop, at[n] + 1) ELSE Goto(n, after, 1)

Fail(n) == Goto(n, "failed", 1)

\* Validate, and a first or a new attempt.
NewManager(n) ==
  /\ pc[n] \in {"idle", "failed"} /\ Valid(n)
  /\ Goto(n, IF Ensures(n) THEN "ensure" ELSE "open", 1)
  /\ url' = [url EXCEPT ![n] = {}] /\ old' = [old EXCEPT ![n] = {}]
  /\ made' = [made EXCEPT ![n] = {}]
  /\ handle' = [handle EXCEPT ![n] = NoHandles]
  /\ UNCHANGED <<given, remote, faults>>

Invalid(n) ==
  /\ pc[n] = "idle" /\ ~Valid(n)
  /\ Fail(n)
  /\ UNCHANGED <<given, remote, info, handle, faults>>

(* EnsureAllDBs *)

SkipPure(n) ==
  /\ pc[n] = "ensure" /\ Pure(Current(n))
  /\ Advance(n, "ensure", "open")
  /\ UNCHANGED <<given, remote, info, handle, faults>>

\* validateGroupExists: the API refuses a request without credentials.
Refused(n) ==
  /\ pc[n] = "ensure" /\ ~Pure(Current(n)) /\ ~Has(n, "Credentials")
  /\ Fail(n)
  /\ UNCHANGED <<given, remote, info, handle, faults>>

\* What is stored as DBInfo of the current key: its URL, whether the answer was
\* one to a creation, and a version, if there is one, of 0.x.
Store(n, isNew, isOld) ==
  LET Put(f, b) == [f EXCEPT ![n] = IF b THEN @ \cup {Current(n)} ELSE @ \ {Current(n)}]
  IN url' = Put(url, TRUE) /\ made' = Put(made, isNew) /\ old' = Put(old, isOld)

Hosted(n) == NameOf[Current(n)] \in Legacy

\* Faulty: the version is not taken over from the answer to a creation.
Learn_NoVersion(n) ==
  Store(n, pc[n] = "create", pc[n] # "create" /\ Hosted(n) /\ "lookup" \in tells)

\* ensureDB takes over what the answer says, and no version where it has none.
Learn(n) ==
  Store(n, pc[n] = "create",
        Hosted(n) /\ (IF pc[n] = "create" THEN "creation" ELSE "lookup") \in tells)

\* Faulty: the PureLocal flag is not looked at.
GetDatabase_AllGroups(n) ==
  /\ pc[n] = "ensure"
  /\ IF remote[NameOf[Current(n)]] = None
     THEN /\ Goto(n, "create", at[n])
          /\ UNCHANGED info
     ELSE /\ Learn(n)
          /\ Advance(n, "ensure", "open")
  /\ UNCHANGED <<given, remote, handle, faults>>

\* Faulty: a database that is there already is created all the same.
GetDatabase_Unread(n) ==
  /\ pc[n] = "ensure" /\ ~Pure(Current(n)) /\ Has(n, "Credentials")
  /\ Goto(n, "create", at[n])
  /\ UNCHANGED <<given, remote, info, handle, faults>>

\* getDatabase asks for the name, not for the group.
GetDatabase(n) ==
  /\ pc[n] = "ensure" /\ ~Pure(Current(n)) /\ Has(n, "Credentials")
  /\ IF remote[NameOf[Current(n)]] = None
     THEN /\ Goto(n, "create", at[n])
          /\ UNCHANGED info
     ELSE /\ Learn(n)
          /\ Advance(n, "ensure", "open")
  /\ UNCHANGED <<given, remote, handle, faults>>

Created(n) ==
  remote' = [remote EXCEPT ![NameOf[Current(n)]] = GroupOf[Current(n)]]

\* createDatabase; another node may have created it since getDatabase.
CreateDatabase(n) ==
  /\ pc[n] = "create"
  /\ IF remote[NameOf[Current(n)]] = None
     THEN /\ Created(n) /\ Learn(n)
          /\ Advance(n, "ensure", "open")
     ELSE /\ Fail(n)
          /\ UNCHANGED <<remote, info>>
  /\ UNCHANGED <<given, handle, faults>>

\* The database is created, but the answer does not arrive, or has no URL.
CreateLost(n) ==
  /\ pc[n] = "create" /\ remote[NameOf[Current(n)]] = None
  /\ faults < MaxFaults /\ faults' = faults + 1
  /\ Created(n)
  /\ Fail(n)
  /\ UNCHANGED <<given, info, handle>>

\* A directory cannot be made, a request fails before it has an effect, its
\* answer has no URL, or Ping and SELECT 1 fail on the new connector.
Fault(n) ==
  /\ pc[n] \in {"ensure", "create", "open"}
  /\ faults < MaxFaults /\ faults' = faults + 1
  /\ Fail(n)
  /\ UNCHANGED <<given, remote, info, handle>>

\* Faulty: an error of MakeConnectorForServer is not returned.
Open_Unchecked(n) ==
  LET k == Current(n)
  IN /\ pc[n] = "open"
     /\ handle' = [handle EXCEPT ![n][k] = Connector(n, k, k \in url[n], k \in old[n])]
     /\ Advance(n, "open", "ready")
     /\ UNCHANGED <<given, remote, info, faults>>

\* MakeConnectorForServer, and AddConnector, which takes a key once.  On an error
\* the connectors opened so far stay open, out of reach of a later attempt.
Open(n) ==
  LET k == Current(n)
      c == Connector(n, k, k \in url[n], k \in old[n])
  IN /\ pc[n] = "open"
     /\ IF c = "error" \/ handle[n][k] # "none" THEN Fail(n) /\ UNCHANGED handle
        ELSE /\ handle' = [handle EXCEPT ![n][k] = c]
             /\ Advance(n, "open", "ready")
     /\ UNCHANGED <<given, remote, info, faults>>

Step(n) ==
  \/ NewManager(n) \/ Invalid(n)
  \/ SkipPure(n) \/ Refused(n) \/ GetDatabase(n) \/ CreateDatabase(n)
  \/ Open(n)

Next == \E n \in Node : Step(n) \/ CreateLost(n) \/ Fault(n)

Spec == Init /\ [][Next]_vars

\* Each call goes on, and the operator starts a node again that failed.
FairSpec == Spec /\ \A n \in Node : WF_vars(Step(n))

-----------------------------------------------------------------------------
(* Properties *)

\* The variables stay within their types.
TypeOK ==
  /\ setting \in [Node -> Settings] /\ flag \in [Group -> Flags]
  /\ tells \subseteq {"lookup", "creation"}
  /\ remote \in [Name -> Group \cup {None}]
  /\ pc \in [Node -> {"idle", "ensure", "create", "open", "failed", "ready"}]
  /\ at \in [Node -> 1..Len(Keys)]
  /\ url \in [Node -> SUBSET Key] /\ old \in [Node -> SUBSET Key]
  /\ made \in [Node -> SUBSET Key]
  /\ handle \in [Node -> [Key -> {"none", "local", "remote", "replica"}]]
  /\ faults \in 0..MaxFaults

\* What a node learns of k depends on whether it has created it: k is hosted by
\* an old server, and one kind of answer alone says so.
Lopsided(m, n, k) ==
  /\ (k \in made[m]) # (k \in made[n])
  /\ ("lookup" \in tells) # ("creation" \in tells)
  /\ NameOf[k] \in Legacy

\* Nodes that are configured alike open each database in the same way, whoever
\* created it, found it, or had to start again: otherwise a follower would
\* apply the log to a local file and another one to the primary.  One exception:
\* the build with embedded databases makes a replica without a version, and a
\* connection to the primary with an old one.  If the API reports an old server
\* in answer to a lookup and not to a creation, or the reverse, then the node
\* that has created the database and the others open it differently.
NodesAgree ==
  \A m, n \in Node :
    pc[m] = "ready" /\ pc[n] = "ready" /\ setting[m] = setting[n] =>
      \A k \in Key :
        handle[m][k] # handle[n][k] => Has(n, "libsql_embed") /\ Lopsided(m, n, k)

\* A database appears in the cloud only for a key of its name and group that is
\* neither pure-local nor opened by embedded nodes alone; races and lost answers
\* neither move a database nor make another.
NoStrayDatabase ==
  [][\A d \in Name : remote'[d] # remote[d] =>
       /\ remote[d] = None
       /\ \E k \in Key : NameOf[k] = d /\ GroupOf[k] = remote'[d] /\ ~Pure(k)
       /\ \E n \in Node : Ensures(n) /\ Valid(n)]_vars

\* The configuration can work: no database is listed twice, the API can be asked
\* where it has to be, and each connector can be made once dbInfo is known.
Workable(n) ==
  /\ Valid(n) /\ Cardinality(Key) = Len(Keys)
  /\ Ensures(n) => Has(n, "Credentials") \/ \A k \in Key : Pure(k)
  /\ \A k \in Key :
       Connector(n, k, Ensures(n) /\ ~Pure(k), NameOf[k] \in Legacy) # "error"

\* A node that can start does start, if it is started again when it failed:
\* neither a lost creation race nor a lost answer leaves something behind that
\* makes every later attempt fail.
StartHeals ==
  \A n \in Node : Workable(n) ~> pc[n] = "ready"

\* A node starts only if its configuration can work.
OnlyWorkable ==
  \A n \in Node : pc[n] = "ready" => Workable(n)
=============================================================================
