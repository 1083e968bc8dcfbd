-------------------------- MODULE ProvisioningProofs --------------------------
(* Theorems about Provisioning, for any nodes, configuration and bound. *)
EXTENDS Provisioning, FiniteSetTheorems, TLAPS

-----------------------------------------------------------------------------
(* The inductive invariant *)

\* What makes the properties inductive.  The places of Keys that EnsureAllDBs of n, and
\* the loop that opens connectors, are done with:
Started(n) == pc[n] \in {"ensure", "create", "open", "ready"}

Ensured(n) ==
  {i \in 1..Len(Keys) : Ensures(n) /\ (pc[n] \in {"ensure", "create"} => i < at[n])}

Opened(n) ==
  {i \in 1..Len(Keys) : pc[n] = "ready" \/ (pc[n] = "open" /\ i < at[n])}

\* A call that goes on was valid, and came here with the credentials it needs ...
EnsuredInOrder ==
  \A n \in Node : Started(n) =>
    /\ Valid(n)
    /\ pc[n] \in {"ensure", "create"} => Ensures(n)
    /\ pc[n] = "create" => ~Pure(Current(n)) /\ Has(n, "Credentials")
    /\ \A i \in Ensured(n) : Pure(Keys[i]) \/ Has(n, "Credentials")

\* ... dbInfo has just what the API said of the databases asked about ...
Told(n, k) == (IF k \in made[n] THEN "creation" ELSE "lookup") \in tells

InfoIsExact ==
  \A n \in Node : Started(n) =>
    /\ url[n] = {Keys[i] : i \in {j \in Ensured(n) : ~Pure(Keys[j])}}
    /\ old[n] = {k \in url[n] : NameOf[k] \in Legacy /\ Told(n, k)}

\* ... and each key that was reached has the connector its entry calls for.
HandlesAsMade ==
  \A n \in Node : Started(n) =>
    /\ \A i, j \in Opened(n) : Keys[i] = Keys[j] => i = j
    /\ \A i \in Opened(n) :
         handle[n][Keys[i]] = Connector(n, Keys[i], Keys[i] \in url[n], Keys[i] \in old[n])
    /\ \A k \in Key : handle[n][k] # "none" => \E i \in Opened(n) : Keys[i] = k

IInv == TypeOK /\ EnsuredInOrder /\ InfoIsExact /\ HandlesAsMade

-----------------------------------------------------------------------------
(* Type correctness *)

LEMMA KeysTyped ==
  /\ Len(Keys) \in Nat \ {0}
  /\ \A i \in 1..Len(Keys) : Keys[i] \in Key
  /\ \A k \in Key : \E i \in 1..Len(Keys) : Keys[i] = k
  <1>1. Keys \in Seq(Key) /\ Keys # << >>
    BY ProvisioningAssumption
  <1> QED BY <1>1 DEF Key

LEMMA CurrentTyped ==
  ASSUME TypeOK, NEW n \in Node
  PROVE  /\ at[n] \in 1..Len(Keys) /\ Current(n) \in Key
         /\ NameOf[Current(n)] \in Name /\ GroupOf[Current(n)] \in Group
  <1>1. at[n] \in 1..Len(Keys)
    BY DEF TypeOK
  <1>2. Current(n) \in Key
    BY <1>1, KeysTyped DEF Current
  <1> QED BY <1>1, <1>2, ProvisioningAssumption

Connectors == {"local", "remote", "replica"}

LEMMA ConnectorTyped ==
  ASSUME NEW n, NEW k, NEW u, NEW o
  PROVE  Connector(n, k, u, o) \in Connectors \cup {"error"}
  BY DEF Connector, EmbeddedConnector, RemoteConnector, Connectors

Label == {"idle", "ensure", "create", "open", "failed", "ready"}

\* Where a step of n leads, and what it leaves of the others.
LEMMA GotoTyped ==
  ASSUME TypeOK, NEW n \in Node, NEW label \in Label, NEW i \in 1..Len(Keys),
         Goto(n, label, i)
  PROVE  /\ pc' \in [Node -> Label] /\ at' \in [Node -> 1..Len(Keys)]
         /\ pc'[n] = label /\ at'[n] = i
         /\ \A m \in Node : m # n => pc'[m] = pc[m] /\ at'[m] = at[m]
  BY DEF TypeOK, Goto, Label

LEMMA AdvanceTyped ==
  ASSUME TypeOK, NEW n \in Node, NEW loop \in Label, NEW after \in Label,
         Advance(n, loop, after)
  PROVE  /\ pc' \in [Node -> Label] /\ at' \in [Node -> 1..Len(Keys)]
         /\ IF at[n] < Len(Keys) THEN pc'[n] = loop /\ at'[n] = at[n] + 1
                                 ELSE pc'[n] = after /\ at'[n] = 1
         /\ \A m \in Node : m # n => pc'[m] = pc[m] /\ at'[m] = at[m]
  <1>1. at[n] \in 1..Len(Keys) /\ 1 \in 1..Len(Keys)
    BY KeysTyped DEF TypeOK
  <1>2. CASE at[n] < Len(Keys)
    <2>1. at[n] + 1 \in 1..Len(Keys) /\ Goto(n, loop, at[n] + 1)
      BY <1>1, <1>2, KeysTyped DEF Advance
    <2> QED BY <1>2, <2>1, GotoTyped
  <1>3. CASE ~(at[n] < Len(Keys))
    <2>1. Goto(n, after, 1)
      BY <1>3 DEF Advance
    <2> QED BY <1>1, <1>3, <2>1, GotoTyped
  <1> QED BY <1>2, <1>3

LEMMA FailTyped ==
  ASSUME TypeOK, NEW n \in Node, Fail(n)
  PROVE  /\ pc' \in [Node -> Label] /\ at' \in [Node -> 1..Len(Keys)]
         /\ pc'[n] = "failed"
         /\ \A m \in Node : m # n => pc'[m] = pc[m] /\ at'[m] = at[m]
  <1>1. 1 \in 1..Len(Keys) /\ "failed" \in Label
    BY KeysTyped DEF Label
  <1> QED BY <1>1, GotoTyped DEF Fail

LEMMA LearnTyped ==
  ASSUME TypeOK, NEW n \in Node, Learn(n)
  PROVE  /\ url' \in [Node -> SUBSET Key] /\ old' \in [Node -> SUBSET Key]
         /\ made' \in [Node -> SUBSET Key]
         /\ url'[n] = url[n] \cup {Current(n)}
         /\ made'[n] = IF pc[n] = "create" THEN made[n] \cup {Current(n)}
                       ELSE made[n] \ {Current(n)}
         /\ old'[n] = IF /\ NameOf[Current(n)] \in Legacy
                         /\ (IF pc[n] = "create" THEN "creation" ELSE "lookup") \in tells
                      THEN old[n] \cup {Current(n)} ELSE old[n] \ {Current(n)}
         /\ \A m \in Node : m # n => url'[m] = url[m] /\ old'[m] = old[m] /\ made'[m] = made[m]
  <1>1. Current(n) \in Key
    BY CurrentTyped
  <1>2. /\ url \in [Node -> SUBSET Key] /\ old \in [Node -> SUBSET Key]
        /\ made \in [Node -> SUBSET Key]
    BY DEF TypeOK
  \* The three sets of a node are changed in the same way.
  <1> DEFINE Put(f, b) == [f EXCEPT ![n] = IF b THEN f[n] \cup {Current(n)}
                                           ELSE f[n] \ {Current(n)}]
             isOld == /\ NameOf[Current(n)] \in Legacy
                      /\ (IF pc[n] = "create" THEN "creation" ELSE "lookup") \in tells
  <1>3. url' = Put(url, TRUE) /\ made' = Put(made, pc[n] = "create") /\ old' = Put(old, isOld)
    BY DEF Learn, Store, Hosted
  <1>4. ASSUME NEW f \in [Node -> SUBSET Key], NEW b \in BOOLEAN
        PROVE  /\ Put(f, b) \in [Node -> SUBSET Key]
               /\ Put(f, b)[n] = IF b THEN f[n] \cup {Current(n)} ELSE f[n] \ {Current(n)}
               /\ \A m \in Node : m # n => Put(f, b)[m] = f[m]
    <2>1. (IF b THEN f[n] \cup {Current(n)} ELSE f[n] \ {Current(n)}) \in SUBSET Key
      BY <1>1
    <2> QED BY <2>1
  <1>5. isOld \in BOOLEAN /\ (pc[n] = "create") \in BOOLEAN /\ TRUE \in BOOLEAN
    OBVIOUS
  <1> HIDE DEF Put, isOld
  <1>6. /\ Put(url, TRUE) \in [Node -> SUBSET Key]
        /\ Put(url, TRUE)[n] = url[n] \cup {Current(n)}
        /\ \A m \in Node : m # n => Put(url, TRUE)[m] = url[m]
    BY <1>2, <1>4, <1>5
  <1>7. /\ Put(made, pc[n] = "create") \in [Node -> SUBSET Key]
        /\ Put(made, pc[n] = "create")[n] =
             IF pc[n] = "create" THEN made[n] \cup {Current(n)} ELSE made[n] \ {Current(n)}
        /\ \A m \in Node : m # n => Put(made, pc[n] = "create")[m] = made[m]
    BY <1>2, <1>4, <1>5
  <1>8. /\ Put(old, isOld) \in [Node -> SUBSET Key]
        /\ Put(old, isOld)[n] = IF isOld THEN old[n] \cup {Current(n)} ELSE old[n] \ {Current(n)}
        /\ \A m \in Node : m # n => Put(old, isOld)[m] = old[m]
    BY <1>2, <1>4, <1>5
  <1> QED BY <1>3, <1>6, <1>7, <1>8 DEF isOld

LEMMA InitType == Init => TypeOK
  <1>1. 1 \in 1..Len(Keys)
    BY KeysTyped
  <1> QED BY <1>1, ProvisioningAssumption DEF Init, TypeOK, NoHandles

LEMMA NextType == TypeOK /\ [Next]_vars => TypeOK'
  <1> SUFFICES ASSUME TypeOK, [Next]_vars PROVE TypeOK'
    OBVIOUS
  <1> USE DEF given, info
  <1>label. /\ {"idle", "ensure", "create", "open", "failed", "ready"} = Label
            /\ Len(Keys) \in Nat \ {0} /\ 1 \in 1..Len(Keys) /\ MaxFaults \in Nat
    BY KeysTyped, ProvisioningAssumption DEF Label
  <1>1. ASSUME NEW n \in Node, NewManager(n) PROVE TypeOK'
    <2>1. pc' \in [Node -> Label] /\ at' \in [Node -> 1..Len(Keys)]
      BY <1>1, <1>label, GotoTyped DEF NewManager
    <2>2. handle' \in [Node -> [Key -> {"none", "local", "remote", "replica"}]]
      BY <1>1 DEF NewManager, TypeOK, NoHandles
    <2> QED BY <1>1, <1>label, <2>1, <2>2 DEF NewManager, TypeOK
  <1>2. ASSUME NEW n \in Node, Invalid(n) \/ Refused(n) PROVE TypeOK'
    <2>1. Fail(n)
      BY <1>2 DEF Invalid, Refused
    <2> QED BY <1>2, <1>label, <2>1, FailTyped DEF Invalid, Refused, TypeOK
  <1>3. ASSUME NEW n \in Node, SkipPure(n) PROVE TypeOK'
    BY <1>3, <1>label, AdvanceTyped DEF SkipPure, TypeOK
  <1>4. ASSUME NEW n \in Node, GetDatabase(n) PROVE TypeOK'
    <2>1. CASE remote[NameOf[Current(n)]] = None
      <3>1. Goto(n, "create", at[n]) /\ at[n] \in 1..Len(Keys) /\ UNCHANGED info
        BY <1>4, <2>1, CurrentTyped DEF GetDatabase
      <3>2. pc' \in [Node -> Label] /\ at' \in [Node -> 1..Len(Keys)]
        BY <3>1, <1>label, GotoTyped
      <3> QED BY <1>4, <1>label, <3>1, <3>2 DEF GetDatabase, TypeOK
    <2>2. CASE remote[NameOf[Current(n)]] # None
      <3>1. Learn(n) /\ Advance(n, "ensure", "open")
        BY <1>4, <2>2 DEF GetDatabase
      <3> QED BY <1>4, <1>label, <3>1, AdvanceTyped, LearnTyped DEF GetDatabase, TypeOK
    <2> QED BY <2>1, <2>2
  <1>5. ASSUME NEW n \in Node, Created(n) PROVE remote' \in [Name -> Group \cup {None}]
    BY <1>5, CurrentTyped DEF Created, TypeOK
  <1>6. ASSUME NEW n \in Node, CreateDatabase(n) PROVE TypeOK'
    <2>1. CASE remote[NameOf[Current(n)]] = None
      <3>1. Created(n) /\ Learn(n) /\ Advance(n, "ensure", "open")
        BY <1>6, <2>1 DEF CreateDatabase
      <3> QED BY <1>5, <1>6, <1>label, <3>1, AdvanceTyped, LearnTyped
              DEF CreateDatabase, TypeOK
    <2>2. CASE remote[NameOf[Current(n)]] # None
      <3>1. Fail(n) /\ UNCHANGED <<remote, info>>
        BY <1>6, <2>2 DEF CreateDatabase
      <3> QED BY <1>6, <1>label, <3>1, FailTyped DEF CreateDatabase, TypeOK
    <2> QED BY <2>1, <2>2
  <1>7. ASSUME NEW n \in Node, CreateLost(n) PROVE TypeOK'
    <2>1. Created(n) /\ Fail(n)
      BY <1>7 DEF CreateLost
    <2> QED BY <1>5, <1>7, <1>label, <2>1, FailTyped DEF CreateLost, TypeOK
  <1>8. ASSUME NEW n \in Node, Fault(n) PROVE TypeOK'
    <2>1. Fail(n)
      BY <1>8 DEF Fault
    <2> QED BY <1>8, <1>label, <2>1, FailTyped DEF Fault, TypeOK
  <1>9. ASSUME NEW n \in Node, Open(n) PROVE TypeOK'
    <2> DEFINE k == Current(n)
               c == Connector(n, k, k \in url[n], k \in old[n])
    <2>1. c \in Connectors \cup {"error"} /\ k \in Key
      BY ConnectorTyped, CurrentTyped
    <2> HIDE DEF c
    <2>2. CASE c = "error" \/ handle[n][k] # "none"
      <3>1. Fail(n) /\ UNCHANGED handle
        BY <1>9, <2>2 DEF Open, c
      <3> QED BY <1>9, <1>label, <3>1, FailTyped DEF Open, TypeOK
    <2>3. CASE ~(c = "error" \/ handle[n][k] # "none")
      <3>1. handle' = [handle EXCEPT ![n][k] = c] /\ Advance(n, "open", "ready")
        BY <1>9, <2>3 DEF Open, c
      <3>2. handle' \in [Node -> [Key -> {"none", "local", "remote", "replica"}]]
        BY <2>1, <2>3, <3>1 DEF TypeOK, Connectors
      <3> QED BY <1>9, <1>label, <3>1, <3>2, AdvanceTyped DEF Open, TypeOK
    <2> QED BY <2>2, <2>3
  <1>10. CASE UNCHANGED vars
    BY <1>10 DEF vars, TypeOK
  <1> QED BY <1>1, <1>2, <1>3, <1>4, <1>6, <1>7, <1>8, <1>9, <1>10 DEF Next, Step

(* The variables of Provisioning stay within their types. *)
THEOREM ProvisioningTypeCorrect == Spec => []TypeOK
  BY InitType, NextType, PTL DEF Spec

-----------------------------------------------------------------------------
(* The inductive invariant, node by node *)

EnsuredGood(n) ==
  /\ Valid(n)
  /\ pc[n] \in {"ensure", "create"} => Ensures(n)
  /\ pc[n] = "create" => ~Pure(Current(n)) /\ Has(n, "Credentials")
  /\ \A i \in Ensured(n) : Pure(Keys[i]) \/ Has(n, "Credentials")

InfoGood(n) ==
  /\ url[n] = {Keys[i] : i \in {j \in Ensured(n) : ~Pure(Keys[j])}}
  /\ old[n] = {k \in url[n] : NameOf[k] \in Legacy /\ Told(n, k)}

\* The connector that dbInfo calls for at place i.
Due(n, i) == Connector(n, Keys[i], Keys[i] \in url[n], Keys[i] \in old[n])

HandlesGood(n) ==
  /\ \A i, j \in Opened(n) : Keys[i] = Keys[j] => i = j
  /\ \A i \in Opened(n) : handle[n][Keys[i]] = Due(n, i)
  /\ \A k \in Key : handle[n][k] # "none" => \E i \in Opened(n) : Keys[i] = k

Good(n) == Started(n) => EnsuredGood(n) /\ InfoGood(n) /\ HandlesGood(n)

LEMMA GoodNodes ==
  (\A n \in Node : Good(n)) <=> EnsuredInOrder /\ InfoIsExact /\ HandlesAsMade
  BY DEF Good, EnsuredGood, InfoGood, HandlesGood, Due, EnsuredInOrder, InfoIsExact,
         HandlesAsMade

\* The configuration does not change, and what depends on nothing else neither.
LEMMA GivenStays ==
  ASSUME UNCHANGED given, NEW n
  PROVE  /\ Valid(n)' = Valid(n) /\ Ensures(n)' = Ensures(n)
         /\ Has(n, "Credentials")' = Has(n, "Credentials")
         /\ \A k : Pure(k)' = Pure(k)
         /\ UNCHANGED <<setting, flag, tells>>
  BY DEF given, Valid, Ensures, Has, Pure

LEMMA DueStays ==
  ASSUME UNCHANGED given, NEW n, NEW i, url'[n] = url[n], old'[n] = old[n]
  PROVE  Due(n, i)' = Due(n, i)
  BY DEF given, Due, Connector, EmbeddedConnector, RemoteConnector, Token, Has, Pure

\* A step of one node leaves what is good about the others.
LEMMA OthersGood ==
  ASSUME UNCHANGED given, NEW m, Good(m),
         pc'[m] = pc[m], at'[m] = at[m], url'[m] = url[m], old'[m] = old[m],
         made'[m] = made[m], handle'[m] = handle[m]
  PROVE  Good(m)'
  <1>1. Ensured(m)' = Ensured(m) /\ Opened(m)' = Opened(m) /\ Started(m)' = Started(m)
    BY GivenStays DEF Ensured, Opened, Started
  <1>2. EnsuredGood(m) => EnsuredGood(m)'
    BY <1>1, GivenStays DEF EnsuredGood, Current
  <1>3. InfoGood(m) => InfoGood(m)'
    BY <1>1, GivenStays DEF InfoGood, Told
  <1>4. HandlesGood(m) => HandlesGood(m)'
    BY <1>1, DueStays DEF HandlesGood
  <1> QED BY <1>1, <1>2, <1>3, <1>4 DEF Good

\* EnsureAllDBs is done with one place more, or the loop of connectors is.
LEMMA EnsureAdvances ==
  ASSUME TypeOK, UNCHANGED given, NEW n \in Node, pc[n] \in {"ensure", "create"},
         Ensures(n), Advance(n, "ensure", "open")
  PROVE  /\ pc'[n] \in {"ensure", "open"}
         /\ Ensured(n)' = Ensured(n) \cup {at[n]} /\ Opened(n)' = {} /\ Opened(n) = {}
  <1>1. at[n] \in 1..Len(Keys) /\ Len(Keys) \in Nat /\ Ensures(n)'
    BY CurrentTyped, KeysTyped, GivenStays
  <1>2. {"ensure", "open"} \subseteq Label
    BY DEF Label
  <1>3. CASE at[n] < Len(Keys)
    <2>1. pc'[n] = "ensure" /\ at'[n] = at[n] + 1
      BY <1>2, <1>3, AdvanceTyped
    <2> QED BY <1>1, <2>1 DEF Ensured, Opened
  <1>4. CASE ~(at[n] < Len(Keys))
    <2>1. pc'[n] = "open" /\ at'[n] = 1
      BY <1>2, <1>4, AdvanceTyped
    <2> QED BY <1>1, <1>4, <2>1 DEF Ensured, Opened
  <1> QED BY <1>3, <1>4

LEMMA OpenAdvances ==
  ASSUME TypeOK, UNCHANGED given, NEW n \in Node, pc[n] = "open",
         Advance(n, "open", "ready")
  PROVE  /\ pc'[n] \in {"open", "ready"}
         /\ Ensured(n)' = Ensured(n) /\ Opened(n)' = Opened(n) \cup {at[n]}
  <1>1. at[n] \in 1..Len(Keys) /\ Len(Keys) \in Nat /\ Ensures(n)' = Ensures(n)
    BY CurrentTyped, KeysTyped, GivenStays
  <1>2. {"open", "ready"} \subseteq Label
    BY DEF Label
  <1>3. CASE at[n] < Len(Keys)
    <2>1. pc'[n] = "open" /\ at'[n] = at[n] + 1
      BY <1>2, <1>3, AdvanceTyped
    <2> QED BY <1>1, <2>1 DEF Ensured, Opened
  <1>4. CASE ~(at[n] < Len(Keys))
    <2>1. pc'[n] = "ready" /\ at'[n] = 1
      BY <1>2, <1>4, AdvanceTyped
    <2> QED BY <1>1, <1>4, <2>1 DEF Ensured, Opened
  <1> QED BY <1>3, <1>4

\* No connector is open before the loop of connectors.
LEMMA NothingOpen ==
  ASSUME TypeOK, NEW n \in Node, Started(n), Opened(n) = {}, HandlesGood(n),
         handle'[n] = handle[n], Opened(n)' = {}
  PROVE  HandlesGood(n)'
  BY DEF HandlesGood

\* The answer to a question, or to a creation, is what dbInfo has to say.
LEMMA LearnGood ==
  ASSUME TypeOK, UNCHANGED <<given, handle>>, NEW n \in Node, Good(n),
         pc[n] \in {"ensure", "create"}, ~Pure(Current(n)), Has(n, "Credentials"),
         Learn(n), Advance(n, "ensure", "open")
  PROVE  Good(n)'
  <1>1. EnsuredGood(n) /\ InfoGood(n) /\ HandlesGood(n) /\ Started(n)
    BY DEF Good, Started
  <1>2. Ensures(n) /\ Ensures(n)'
    BY <1>1, GivenStays DEF EnsuredGood
  <1>3. /\ pc'[n] \in {"ensure", "open"}
        /\ Ensured(n)' = Ensured(n) \cup {at[n]} /\ Opened(n)' = {} /\ Opened(n) = {}
    BY <1>2, EnsureAdvances
  <1>4. EnsuredGood(n)'
    <2>1. pc'[n] # "create"
      BY <1>3
    <2>2. \A i \in Ensured(n)' : Pure(Keys[i])' \/ Has(n, "Credentials")'
      BY GivenStays
    <2>3. Valid(n)'
      BY <1>1, GivenStays DEF EnsuredGood
    <2> QED BY <1>2, <2>1, <2>2, <2>3 DEF EnsuredGood
  <1>5. InfoGood(n)'
    <2>k. PICK k \in Key : k = Keys[at[n]]
      BY CurrentTyped DEF Current
    <2>1. /\ url'[n] = url[n] \cup {k} /\ ~Pure(k)
          /\ made'[n] = IF pc[n] = "create" THEN made[n] \cup {k} ELSE made[n] \ {k}
          /\ old'[n] = IF /\ NameOf[k] \in Legacy
                          /\ (IF pc[n] = "create" THEN "creation" ELSE "lookup") \in tells
                       THEN old[n] \cup {k} ELSE old[n] \ {k}
      BY <2>k, LearnTyped DEF Current
    <2>2. url[n] = {Keys[i] : i \in {j \in Ensured(n) : ~Pure(Keys[j])}}
      BY <1>1 DEF InfoGood
    <2>3. old[n] = {j \in url[n] : NameOf[j] \in Legacy /\ Told(n, j)}
      BY <1>1 DEF InfoGood
    <2>4. url'[n] = {Keys[i] : i \in {j \in Ensured(n) \cup {at[n]} : ~Pure(Keys[j])}}
      BY <2>k, <2>1, <2>2
    \* Nothing changes for the other keys.
    <2>5. \A j : j # k => Told(n, j)' = Told(n, j)
      BY <2>1, GivenStays DEF Told
    <2>6. Told(n, k)' = ((IF pc[n] = "create" THEN "creation" ELSE "lookup") \in tells)
      BY <2>1, GivenStays DEF Told
    <2>7. old'[n] = {j \in url'[n] : NameOf[j] \in Legacy /\ Told(n, j)'}
      <3>1. CASE NameOf[k] \in Legacy /\ Told(n, k)'
        BY <2>1, <2>3, <2>5, <2>6, <3>1
      <3>2. CASE ~(NameOf[k] \in Legacy /\ Told(n, k)')
        BY <2>1, <2>3, <2>5, <2>6, <3>2
      <3> QED BY <3>1, <3>2
    <2> QED BY <1>3, <2>4, <2>7, GivenStays DEF InfoGood
  <1>6. HandlesGood(n)'
    BY <1>1, <1>3, NothingOpen
  <1> QED BY <1>4, <1>5, <1>6 DEF Good

LEMMA NextGood ==
  ASSUME TypeOK, [Next]_vars, \A n \in Node : Good(n)
  PROVE  \A n \in Node : Good(n)'
  <1> DEFINE Goal == \A n \in Node : Good(n)'
             Others(n) == \A m \in Node : m # n =>
               /\ pc'[m] = pc[m] /\ at'[m] = at[m] /\ url'[m] = url[m]
               /\ old'[m] = old[m] /\ made'[m] = made[m] /\ handle'[m] = handle[m]
  <1>1. ASSUME NEW n \in Node, UNCHANGED given, Others(n), Good(n)' PROVE Goal
    BY <1>1, OthersGood
  <1>2. CASE UNCHANGED vars
    BY <1>2, OthersGood DEF vars, info
  <1> USE DEF info
  <1> HIDE DEF Goal, Others
  <1>keys. Len(Keys) \in Nat \ {0} /\ 1 \in 1..Len(Keys)
    BY KeysTyped
  \* A call that fails has nothing to answer for.
  <1>3. ASSUME NEW n \in Node, Fail(n), UNCHANGED <<given, info, handle>>
        PROVE  Goal
    <2>1. pc'[n] = "failed" /\ Others(n)
      BY <1>3, FailTyped DEF Others
    <2>2. Good(n)'
      BY <2>1 DEF Good, Started
    <2> QED BY <1>1, <1>3, <2>1, <2>2
  <1>4. ASSUME NEW n \in Node, NewManager(n) PROVE Goal
    <2>1. /\ pc'[n] = (IF Ensures(n) THEN "ensure" ELSE "open") /\ at'[n] = 1
          /\ url'[n] = {} /\ old'[n] = {} /\ handle'[n] = NoHandles
          /\ UNCHANGED given /\ Valid(n)
      BY <1>4 DEF NewManager, Goto, TypeOK
    <2>2. Others(n)
      BY <1>4 DEF NewManager, Goto, TypeOK, Others
    <2>3. Ensured(n)' = {} /\ Opened(n)' = {}
      BY <2>1, <1>keys, GivenStays DEF Ensured, Opened
    <2>4. EnsuredGood(n)'
      BY <2>1, <2>3, GivenStays DEF EnsuredGood
    <2>5. InfoGood(n)'
      BY <2>1, <2>3 DEF InfoGood
    <2>6. HandlesGood(n)'
      BY <2>1, <2>3 DEF HandlesGood, NoHandles
    <2> QED BY <1>1, <2>1, <2>2, <2>4, <2>5, <2>6 DEF Good
  <1>5. ASSUME NEW n \in Node, SkipPure(n) PROVE Goal
    <2>1. /\ pc[n] = "ensure" /\ Pure(Current(n)) /\ Advance(n, "ensure", "open")
          /\ UNCHANGED <<given, info, handle>>
      BY <1>5 DEF SkipPure
    <2>2. EnsuredGood(n) /\ InfoGood(n) /\ HandlesGood(n) /\ Started(n)
      BY <2>1 DEF Good, Started
    <2>3. Ensures(n) /\ Valid(n)
      BY <2>1, <2>2 DEF EnsuredGood
    <2>4. /\ pc'[n] \in {"ensure", "open"}
          /\ Ensured(n)' = Ensured(n) \cup {at[n]} /\ Opened(n)' = {} /\ Opened(n) = {}
      BY <2>1, <2>3, EnsureAdvances
    <2>5. EnsuredGood(n)'
      <3>1. \A i \in Ensured(n) \cup {at[n]} : Pure(Keys[i]) \/ Has(n, "Credentials")
        BY <2>1, <2>2 DEF EnsuredGood, Current
      <3> QED BY <2>1, <2>3, <2>4, <3>1, GivenStays DEF EnsuredGood
    <2>6. InfoGood(n)'
      <3>1. {j \in Ensured(n)' : ~Pure(Keys[j])'} = {j \in Ensured(n) : ~Pure(Keys[j])}
        BY <2>1, <2>4, GivenStays DEF Current
      <3>2. \A k : Told(n, k)' = Told(n, k)
        BY <2>1, GivenStays DEF Told
      <3>3. url'[n] = {Keys[i] : i \in {j \in Ensured(n)' : ~Pure(Keys[j])'}}
        BY <2>1, <2>2, <3>1 DEF InfoGood
      <3>4. old'[n] = {k \in url'[n] : NameOf[k] \in Legacy /\ Told(n, k)'}
        BY <2>1, <2>2, <3>2 DEF InfoGood
      <3> QED BY <3>3, <3>4 DEF InfoGood
    <2>7. HandlesGood(n)'
      BY <2>1, <2>2, <2>4, NothingOpen
    <2>8. Others(n)
      BY <2>1, AdvanceTyped DEF Others, Label
    <2> QED BY <1>1, <2>1, <2>5, <2>6, <2>7, <2>8 DEF Good
  \* The steps that learn of a database.
  <1>6. ASSUME NEW n \in Node, UNCHANGED <<given, handle>>,
               pc[n] \in {"ensure", "create"}, ~Pure(Current(n)), Has(n, "Credentials"),
               Learn(n), Advance(n, "ensure", "open")
        PROVE  Goal
    <2>1. Good(n)'
      BY <1>6, LearnGood
    <2>2. Others(n)
      <3>1. \A m \in Node : m # n => url'[m] = url[m] /\ old'[m] = old[m] /\ made'[m] = made[m]
        BY <1>6, LearnTyped
      <3>2. \A m \in Node : m # n => pc'[m] = pc[m] /\ at'[m] = at[m]
        BY <1>6, AdvanceTyped DEF Label
      <3> QED BY <1>6, <3>1, <3>2 DEF Others
    <2> QED BY <1>1, <1>6, <2>1, <2>2
  <1>7. ASSUME NEW n \in Node, GetDatabase(n) PROVE Goal
    <2>1. /\ pc[n] = "ensure" /\ ~Pure(Current(n)) /\ Has(n, "Credentials")
          /\ UNCHANGED <<given, handle>>
      BY <1>7 DEF GetDatabase
    <2>2. CASE remote[NameOf[Current(n)]] = None
      <3>1. Goto(n, "create", at[n]) /\ UNCHANGED info
        BY <1>7, <2>2 DEF GetDatabase
      <3>2. pc'[n] = "create" /\ at'[n] = at[n] /\ Others(n)
        BY <2>1, <3>1, CurrentTyped, GotoTyped DEF Others, Label
      <3>3. EnsuredGood(n) /\ InfoGood(n) /\ HandlesGood(n) /\ Started(n)
        BY <2>1 DEF Good, Started
      <3>4. Ensured(n)' = Ensured(n) /\ Opened(n)' = {} /\ Opened(n) = {}
        BY <2>1, <3>2, GivenStays DEF Ensured, Opened
      <3>5. EnsuredGood(n)'
        BY <2>1, <3>2, <3>3, <3>4, GivenStays DEF EnsuredGood, Current
      <3>6. InfoGood(n)'
        BY <2>1, <3>1, <3>3, <3>4, GivenStays DEF InfoGood, Told
      <3>7. HandlesGood(n)'
        BY <2>1, <3>3, <3>4, NothingOpen
      <3> QED BY <1>1, <2>1, <3>2, <3>5, <3>6, <3>7 DEF Good
    <2>3. CASE remote[NameOf[Current(n)]] # None
      <3>1. Learn(n) /\ Advance(n, "ensure", "open")
        BY <1>7, <2>3 DEF GetDatabase
      <3> QED BY <1>6, <2>1, <3>1
    <2> QED BY <2>2, <2>3
  <1>8. ASSUME NEW n \in Node, CreateDatabase(n) PROVE Goal
    <2>1. CASE remote[NameOf[Current(n)]] = None
      <3>1. /\ pc[n] = "create" /\ Learn(n) /\ Advance(n, "ensure", "open")
            /\ UNCHANGED <<given, handle>>
        BY <1>8, <2>1 DEF CreateDatabase
      <3>2. ~Pure(Current(n)) /\ Has(n, "Credentials")
        BY <3>1 DEF Good, Started, EnsuredGood
      <3> QED BY <1>6, <3>1, <3>2
    <2>2. CASE remote[NameOf[Current(n)]] # None
      BY <1>3, <1>8, <2>2 DEF CreateDatabase
    <2> QED BY <2>1, <2>2
  <1>9. ASSUME NEW n \in Node, Open(n) PROVE Goal
    <2> DEFINE k == Current(n)
    <2>1. k = Keys[at[n]] /\ k \in Key /\ at[n] \in 1..Len(Keys)
      BY CurrentTyped DEF Current
    <2>2. CASE Due(n, at[n]) = "error" \/ handle[n][k] # "none"
      BY <1>3, <1>9, <2>1, <2>2 DEF Open, Due, Current
    <2>3. CASE ~(Due(n, at[n]) = "error" \/ handle[n][k] # "none")
      <3>1. /\ handle' = [handle EXCEPT ![n][k] = Due(n, at[n])]
            /\ Advance(n, "open", "ready") /\ pc[n] = "open" /\ UNCHANGED <<given, info>>
        BY <1>9, <2>3 DEF Open, Due, Current
      <3>2. /\ pc'[n] \in {"open", "ready"}
            /\ Ensured(n)' = Ensured(n) /\ Opened(n)' = Opened(n) \cup {at[n]}
        BY <3>1, OpenAdvances
      <3>3. EnsuredGood(n) /\ InfoGood(n) /\ HandlesGood(n) /\ Started(n)
        BY <3>1 DEF Good, Started
      <3>4. EnsuredGood(n)'
        BY <3>1, <3>2, <3>3, GivenStays DEF EnsuredGood
      <3>5. InfoGood(n)'
        BY <3>1, <3>2, <3>3, GivenStays DEF InfoGood, Told
      <3>6. HandlesGood(n)'
        <4>1. \A i \in Opened(n) : Keys[i] # k /\ Keys[i] \in Key
          \* It would have a connector, which is not "none".
          <5>1. ASSUME NEW i \in Opened(n) PROVE handle[n][Keys[i]] # "none"
            BY <3>3, ConnectorTyped DEF HandlesGood, Due, Connectors
          <5> QED BY <2>3, <5>1, KeysTyped DEF Opened
        <4>2. \A j \in Key : handle'[n][j] = IF j = k THEN Due(n, at[n]) ELSE handle[n][j]
          BY <3>1, <2>1 DEF TypeOK
        <4>3. \A i, j \in Opened(n)' : Keys[i] = Keys[j] => i = j
          BY <2>1, <3>2, <3>3, <4>1 DEF HandlesGood
        <4>4. \A i \in Opened(n)' : handle'[n][Keys[i]] = Due(n, i)'
          <5>1. \A i : Due(n, i)' = Due(n, i)
            BY <3>1, DueStays
          <5> QED BY <2>1, <3>2, <3>3, <4>1, <4>2, <5>1 DEF HandlesGood
        <4>5. \A j \in Key : handle'[n][j] # "none" => \E i \in Opened(n)' : Keys[i] = j
          BY <2>1, <3>2, <3>3, <4>2 DEF HandlesGood
        <4> QED BY <4>3, <4>4, <4>5 DEF HandlesGood
      <3>7. Others(n)
        BY <3>1, AdvanceTyped DEF Others, Label, TypeOK
      <3> QED BY <1>1, <3>1, <3>4, <3>5, <3>6, <3>7 DEF Good
    <2> QED BY <2>2, <2>3
  <1>10. ASSUME NEW n \in Node, Invalid(n) \/ Refused(n) \/ CreateLost(n) \/ Fault(n)
         PROVE  Goal
    BY <1>3, <1>10 DEF Invalid, Refused, CreateLost, Fault
  <1> QED BY <1>2, <1>4, <1>5, <1>7, <1>8, <1>9, <1>10 DEF Next, Step, Goal

LEMMA InitInv == Init => IInv
  <1> SUFFICES ASSUME Init PROVE IInv
    OBVIOUS
  <1>1. TypeOK
    BY InitType
  <1>2. \A n \in Node : ~Started(n)
    BY DEF Init, Started
  <1> QED BY <1>1, <1>2 DEF IInv, EnsuredInOrder, InfoIsExact, HandlesAsMade

LEMMA NextInv == IInv /\ [Next]_vars => IInv'
  <1> SUFFICES ASSUME IInv, [Next]_vars PROVE IInv'
    OBVIOUS
  <1>1. TypeOK'
    BY NextType DEF IInv
  <1>2. \A n \in Node : Good(n)'
    BY NextGood, GoodNodes DEF IInv
  <1>3. EnsuredInOrder' /\ InfoIsExact' /\ HandlesAsMade'
    BY <1>2 DEF Good, EnsuredGood, InfoGood, HandlesGood, Due, EnsuredInOrder, InfoIsExact,
                HandlesAsMade
  <1> QED BY <1>1, <1>3 DEF IInv

(* What EnsureAllDBs and the loop of connectors have done so far is what the
   configuration and the answers of the API call for, no more and no less. *)
THEOREM ProvisioningInductive == Spec => []IInv
  BY InitInv, NextInv, PTL DEF Spec

-----------------------------------------------------------------------------
(* What holds of a node that has started *)

\* All of its databases were asked about, if any, and all are open.
LEMMA ReadyHandles ==
  ASSUME IInv, NEW n \in Node, pc[n] = "ready", NEW k \in Key
  PROVE  /\ k \in url[n] <=> Ensures(n) /\ ~Pure(k)
         /\ k \in old[n] <=> k \in url[n] /\ NameOf[k] \in Legacy /\ Told(n, k)
         /\ handle[n][k] = Connector(n, k, k \in url[n], k \in old[n])
         /\ handle[n][k] # "error"
         /\ handle[n] \in [Key -> {"none", "local", "remote", "replica"}]
  <1>1. Started(n) /\ Opened(n) = 1..Len(Keys)
        /\ Ensured(n) = IF Ensures(n) THEN 1..Len(Keys) ELSE {}
    BY DEF Started, Opened, Ensured
  <1>2. PICK i \in 1..Len(Keys) : Keys[i] = k
    BY KeysTyped
  <1>3. Good(n)
    BY GoodNodes DEF IInv
  <1>4. InfoGood(n) /\ HandlesGood(n)
    BY <1>1, <1>3 DEF Good
  <1>5. k \in url[n] <=> Ensures(n) /\ ~Pure(k)
    BY <1>1, <1>2, <1>4 DEF InfoGood
  <1>6. k \in old[n] <=> k \in url[n] /\ NameOf[k] \in Legacy /\ Told(n, k)
    BY <1>4 DEF InfoGood
  <1>7. handle[n][k] = Due(n, i)
    BY <1>1, <1>2, <1>4 DEF HandlesGood
  <1>8. handle[n] \in [Key -> {"none", "local", "remote", "replica"}]
    BY DEF IInv, TypeOK
  <1> QED BY <1>2, <1>5, <1>6, <1>7, <1>8 DEF Due

LEMMA ConnectorAgrees ==
  ASSUME NEW m \in Node, NEW n \in Node, setting[m] = setting[n], NEW k, NEW u, NEW o
  PROVE  /\ Connector(m, k, u, o) = Connector(n, k, u, o)
         /\ Ensures(m) <=> Ensures(n)
  BY DEF Connector, Token, Has, Ensures

LEMMA ReadyAgree ==
  ASSUME IInv
  PROVE  NodesAgree
  <1> SUFFICES ASSUME NEW m \in Node, NEW n \in Node, pc[m] = "ready", pc[n] = "ready",
                      setting[m] = setting[n], NEW k \in Key, handle[m][k] # handle[n][k]
               PROVE  Has(n, "libsql_embed") /\ Lopsided(m, n, k)
    BY DEF NodesAgree
  <1>1. (k \in url[m]) = (k \in url[n])
    BY ReadyHandles, ConnectorAgrees
  <1>2. Connector(n, k, k \in url[n], k \in old[m]) # Connector(n, k, k \in url[n], k \in old[n])
    BY <1>1, ReadyHandles, ConnectorAgrees
  \* Only the build with embedded databases looks at the version ...
  <1>3. Has(n, "libsql_embed") /\ (k \in old[m]) # (k \in old[n])
    BY <1>2 DEF Connector
  \* ... and only by who has created the database do the versions differ.
  <1>4. NameOf[k] \in Legacy /\ Told(m, k) # Told(n, k)
    BY <1>1, <1>3, ReadyHandles
  <1>5. Lopsided(m, n, k)
    BY <1>4 DEF Lopsided, Told
  <1> QED BY <1>3, <1>5

(* Nodes that are configured alike open each database in the same way, whoever
   found it, created it, lost a race for it or had to start again, but for one
   case: an old server hosts it, exactly one of the two nodes has created it, the
   build has embedded databases, and the API reports the version in answer to a
   lookup and not to a creation, or the reverse. *)
THEOREM StartedNodesAgree == Spec => []NodesAgree
  <1>1. IInv => NodesAgree
    BY ReadyAgree
  <1> QED BY <1>1, ProvisioningInductive, PTL

\* No key is listed twice if each place has its own.
LEMMA KeysCounted ==
  ASSUME \A i, j \in 1..Len(Keys) : Keys[i] = Keys[j] => i = j
  PROVE  Cardinality(Key) = Len(Keys)
  <1> DEFINE f == [i \in 1..Len(Keys) |-> Keys[i]]
  <1>1. f \in Bijection(1..Len(Keys), Key)
    BY KeysTyped DEF Bijection, Injection, IsInjective, Surjection
  <1> DEFINE len == Len(Keys)
  <1>2. len \in Nat /\ len \in Int /\ 1 \in Int /\ len >= 1
    BY KeysTyped
  <1> HIDE DEF f, len
  <1>int. /\ IsFiniteSet(1..len)
          /\ Cardinality(1..len) = IF 1 > len THEN 0 ELSE len - 1 + 1
    BY <1>2, FS_Interval
  <1>3. IsFiniteSet(1..len) /\ Cardinality(1..len) = len
    BY <1>2, <1>int
  <1> USE DEF len
  <1>4. ExistsBijection(1..Len(Keys), Key)
    BY <1>1 DEF ExistsBijection
  <1> QED BY <1>3, <1>4, FS_Bijection

LEMMA ReadyWorkable ==
  ASSUME IInv
  PROVE  OnlyWorkable
  <1> SUFFICES ASSUME NEW n \in Node, pc[n] = "ready" PROVE Workable(n)
    BY DEF OnlyWorkable
  <1>1. Started(n) /\ Opened(n) = 1..Len(Keys)
        /\ (Ensures(n) => Ensured(n) = 1..Len(Keys))
    BY DEF Started, Opened, Ensured
  <1>2. EnsuredGood(n) /\ HandlesGood(n)
    BY <1>1, GoodNodes DEF IInv, Good
  <1>3. Cardinality(Key) = Len(Keys)
    BY <1>1, <1>2, KeysCounted DEF HandlesGood
  <1>4. Ensures(n) => Has(n, "Credentials") \/ \A k \in Key : Pure(k)
    BY <1>1, <1>2, KeysTyped DEF EnsuredGood
  <1>5. ASSUME NEW k \in Key
        PROVE  Connector(n, k, Ensures(n) /\ ~Pure(k), NameOf[k] \in Legacy) # "error"
    <2>1. Connector(n, k, k \in url[n], k \in old[n]) # "error"
      BY ReadyHandles
    \* What the API says of the version matters only with a URL.
    <2> QED BY <2>1, ReadyHandles DEF Connector, EmbeddedConnector, RemoteConnector
  <1> QED BY <1>2, <1>3, <1>4, <1>5 DEF Workable, EnsuredGood

(* A node starts only with a configuration that can work: no database is listed
   twice, the API could be asked where it had to be, each connector was made. *)
THEOREM OnlyWorkableStarts == Spec => []OnlyWorkable
  <1>1. IInv => OnlyWorkable
    BY ReadyWorkable
  <1> QED BY <1>1, ProvisioningInductive, PTL

-----------------------------------------------------------------------------
(* What appears in the cloud *)

LEMMA CreationJustified ==
  ASSUME IInv, [Next]_vars, NEW d \in Name, remote'[d] # remote[d]
  PROVE  /\ remote[d] = None
         /\ \E k \in Key : NameOf[k] = d /\ GroupOf[k] = remote'[d] /\ ~Pure(k)
         /\ \E n \in Node : Ensures(n) /\ Valid(n)
  <1>1. PICK n \in Node : CreateDatabase(n) \/ CreateLost(n)
    BY DEF Next, Step, NewManager, Invalid, SkipPure, Refused, GetDatabase, Open, Fault, vars
  <1>2. pc[n] = "create" /\ remote[NameOf[Current(n)]] = None /\ Created(n)
    BY <1>1 DEF CreateDatabase, CreateLost
  <1>3. TypeOK /\ Started(n) /\ EnsuredGood(n)
    BY <1>2, GoodNodes DEF IInv, Good, Started
  <1>4. ~Pure(Current(n)) /\ Ensures(n) /\ Valid(n)
    BY <1>2, <1>3 DEF EnsuredGood
  <1>5. d = NameOf[Current(n)] /\ remote'[d] = GroupOf[Current(n)]
    BY <1>2, <1>3 DEF Created, TypeOK
  <1> QED BY <1>2, <1>3, <1>4, <1>5, CurrentTyped

(* A database is created only for a key of its name and group that is not
   pure-local, by a call that has to ask the API; none is moved or made twice. *)
THEOREM OnlyOwnDatabases == Spec => NoStrayDatabase
  <1>1. IInv /\ [Next]_vars =>
          [\A d \in Name : remote'[d] # remote[d] =>
             /\ remote[d] = None
             /\ \E k \in Key : NameOf[k] = d /\ GroupOf[k] = remote'[d] /\ ~Pure(k)
             /\ \E n \in Node : Ensures(n) /\ Valid(n)]_vars
    BY CreationJustified
  <1> QED BY <1>1, ProvisioningInductive, PTL DEF Spec, NoStrayDatabase
=============================================================================
