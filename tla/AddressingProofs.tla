-------------------------- MODULE AddressingProofs --------------------------
(* Theorems about the addresses of peers, for any strings and lists of any
   length.  They rest on induction, which is derived from the pigeonhole
   principle, since the library's theorem has an operator for a parameter. *)
EXTENDS Addressing, FiniteSetTheorems, SequenceTheorems, TLAPS

-----------------------------------------------------------------------------
(* Induction *)

LEMMA Induction ==
  ASSUME NEW S, 0 \in S, \A n \in Nat : n \in S => n + 1 \in S, NEW m \in Nat
  PROVE  m \in S
  <1> SUFFICES ASSUME m \notin S PROVE FALSE
    OBVIOUS
  <1> DEFINE A == S \cap (0..m)
             f == [k \in A |-> k + 1]
  <1>1. IsFiniteSet(A)
    <2>1. IsFiniteSet(0..m)
      BY FS_Interval
    <2> QED BY <2>1, FS_Subset
  <1>2. Cardinality(A \ {0}) < Cardinality(A) /\ IsFiniteSet(A \ {0})
    <2>1. 0 \in A
      OBVIOUS
    <2>2. Cardinality(A) \in Nat
      BY <1>1, FS_CardinalityType
    <2>3. Cardinality(A \ {0}) = Cardinality(A) - 1 /\ IsFiniteSet(A \ {0})
      BY <1>1, <2>1, FS_RemoveElement
    <2> HIDE DEF A
    <2> QED BY <2>2, <2>3
  <1>3. f \in [A -> A \ {0}]
    <2>1. ASSUME NEW k \in A PROVE k + 1 \in A \ {0}
      <3>1. k \in Nat /\ k \in S /\ k <= m
        OBVIOUS
      <3>2. k + 1 \in S
        BY <3>1
      <3>3. k # m
        BY <3>1
      <3> QED BY <3>1, <3>2, <3>3
    <2> QED BY <2>1
  <1>4. PICK x, y \in A : x # y /\ f[x] = f[y]
    <2> HIDE DEF A, f
    <2> QED BY <1>1, <1>2, <1>3, FS_PigeonHole
  <1>5. x \in Nat /\ y \in Nat
    OBVIOUS
  <1>6. f[x] = x + 1 /\ f[y] = y + 1
    OBVIOUS
  <1> QED BY <1>4, <1>5, <1>6

-----------------------------------------------------------------------------
(* What Keep returns *)

\* F[i] is what is kept of the first i members, up to the n-th.
KeptUpTo(s, S, n, F) ==
  F = [i \in 0..n |-> IF i = 0 THEN << >>
                      ELSE IF s[i] \in S THEN Append(F[i - 1], s[i]) ELSE F[i - 1]]

LEMMA KeptExists ==
  ASSUME NEW s, NEW S, NEW n \in Nat
  PROVE  \E F : KeptUpTo(s, S, n, F)
  <1> DEFINE D == {k \in Nat : \E F : KeptUpTo(s, S, k, F)}
  <1>1. 0 \in D
    <2>1. KeptUpTo(s, S, 0, [i \in 0..0 |-> << >>])
      BY DEF KeptUpTo
    <2> QED BY <2>1
  <1>2. ASSUME NEW k \in Nat, k \in D PROVE k + 1 \in D
    <2>1. PICK F : KeptUpTo(s, S, k, F)
      BY <1>2
    <2> DEFINE last == IF s[k + 1] \in S THEN Append(F[k], s[k + 1]) ELSE F[k]
               G == [i \in 0..(k + 1) |-> IF i = k + 1 THEN last ELSE F[i]]
               H == [i \in 0..(k + 1) |->
                       IF i = 0 THEN << >>
                       ELSE IF s[i] \in S THEN Append(G[i - 1], s[i]) ELSE G[i - 1]]
    <2>2. ASSUME NEW i \in 0..(k + 1) PROVE G[i] = H[i]
      <3>1. CASE i = k + 1
        <4>1. i # 0 /\ i - 1 = k /\ k \in 0..(k + 1) /\ k # k + 1
          BY <3>1
        <4>2. G[i - 1] = F[k]
          BY <4>1
        <4> HIDE DEF G
        <4>3. H[i] = IF s[i] \in S THEN Append(G[i - 1], s[i]) ELSE G[i - 1]
          BY <4>1
        <4>4. G[i] = last
          BY <3>1 DEF G
        <4> QED BY <3>1, <4>2, <4>3, <4>4
      <3>2. CASE i = 0
        <4>1. F[0] = << >> /\ i # k + 1
          BY <2>1, <3>2 DEF KeptUpTo
        <4> QED BY <3>2, <4>1
      <3>3. CASE i \in 1..k
        <4>1. i \in 0..k /\ i # 0 /\ i # k + 1 /\ i - 1 \in 0..(k + 1) /\ i - 1 # k + 1
          BY <3>3
        <4>2. F[i] = IF s[i] \in S THEN Append(F[i - 1], s[i]) ELSE F[i - 1]
          BY <2>1, <4>1 DEF KeptUpTo
        <4>3. G[i - 1] = F[i - 1] /\ G[i] = F[i]
          BY <4>1
        <4> HIDE DEF G
        <4> QED BY <4>1, <4>2, <4>3
      <3> QED BY <3>1, <3>2, <3>3
    <2>3. G = H
      <3>1. /\ G = [i \in 0..(k + 1) |-> G[i]]
            /\ H = [i \in 0..(k + 1) |-> H[i]]
        OBVIOUS
      <3> HIDE DEF G, H
      <3> QED BY <2>2, <3>1
    <2>4. KeptUpTo(s, S, k + 1, G)
      <3> HIDE DEF G
      <3> QED BY <2>3 DEF KeptUpTo
    <2> HIDE DEF G
    <2> QED BY <2>4
  <1> HIDE DEF D
  <1>3. n \in D
    BY <1>1, <1>2, Induction
  <1> QED BY <1>3 DEF D

LEMMA KeepIsKept ==
  ASSUME NEW s, NEW S, NEW n \in Nat, n = Len(s)
  PROVE  \E F : /\ Keep(s, S) = F[n]
                /\ F[0] = << >>
                /\ \A i \in 0..(n - 1) :
                     F[i + 1] = IF s[i + 1] \in S THEN Append(F[i], s[i + 1])
                                ELSE F[i]
  <1> DEFINE F == CHOOSE G : KeptUpTo(s, S, n, G)
  <1>1. KeptUpTo(s, S, n, F)
    BY KeptExists
  <1>2. Keep(s, S) = F[n]
    BY DEF Keep, KeptUpTo
  <1> HIDE DEF F
  <1>3. F[0] = << >>
    BY <1>1 DEF KeptUpTo
  <1>4. ASSUME NEW i \in 0..(n - 1)
        PROVE  F[i + 1] = IF s[i + 1] \in S THEN Append(F[i], s[i + 1]) ELSE F[i]
    <2>1. i + 1 \in 0..n /\ i + 1 # 0 /\ (i + 1) - 1 = i
      OBVIOUS
    <2>2. F[i + 1] = IF s[i + 1] \in S THEN Append(F[(i + 1) - 1], s[i + 1])
                     ELSE F[(i + 1) - 1]
      BY <1>1, <2>1 DEF KeptUpTo
    <2> QED BY <2>1, <2>2
  <1> QED BY <1>2, <1>3, <1>4

\* Keep returns the members of s that are in S, and all of s if that is all.
LEMMA KeepProperties ==
  ASSUME NEW T, NEW s \in Seq(T), NEW S
  PROVE  /\ Keep(s, S) \in Seq(T)
         /\ Members(Keep(s, S)) = Members(s) \cap S
         /\ Members(s) \subseteq S => Keep(s, S) = s
  <1>1. PICK n \in Nat : n = Len(s)
    BY LenProperties
  <1>2. DOMAIN s = 1..n /\ s \in [1..n -> T]
    BY <1>1, LenProperties
  <1>3. PICK F : /\ Keep(s, S) = F[n]
                 /\ F[0] = << >>
                 /\ \A i \in 0..(n - 1) :
                      F[i + 1] = IF s[i + 1] \in S THEN Append(F[i], s[i + 1])
                                 ELSE F[i]
    BY <1>1, KeepIsKept
  <1> DEFINE Good(i) == /\ F[i] \in Seq(T)
                        /\ Members(F[i]) = {s[j] : j \in 1..i} \cap S
                        /\ Members(s) \subseteq S =>
                             Len(F[i]) = i /\ \A j \in 1..i : F[i][j] = s[j]
             D == {i \in Nat : i <= n => Good(i)}
  <1>4. 0 \in D
    <2>1. << >> \in Seq(T) /\ Len(<< >>) = 0
      OBVIOUS
    <2>2. Members(<< >>) = {}
      BY DEF Members
    <2>3. {s[j] : j \in 1..0} = {}
      OBVIOUS
    <2>4. \A j \in 1..0 : F[0][j] = s[j]
      OBVIOUS
    <2>5. Good(0)
      BY <1>3, <2>1, <2>2, <2>3, <2>4
    <2> QED BY <2>5
  <1>5. ASSUME NEW i \in Nat, i \in D PROVE i + 1 \in D
    <2> SUFFICES ASSUME i + 1 <= n PROVE Good(i + 1)
      OBVIOUS
    <2>1. i \in 0..(n - 1) /\ i + 1 \in 1..n /\ i <= n
      OBVIOUS
    <2>2. Good(i)
      BY <1>5, <2>1
    <2>3. s[i + 1] \in T /\ s[i + 1] \in Members(s)
      BY <1>2, <2>1 DEF Members
    <2>4. {s[j] : j \in 1..(i + 1)} = {s[j] : j \in 1..i} \cup {s[i + 1]}
      <3>1. 1..(i + 1) = 1..i \cup {i + 1}
        OBVIOUS
      <3> QED BY <3>1
    <2>5. CASE s[i + 1] \in S
      <3> DEFINE g == F[i]  e == s[i + 1]  h == Append(g, e)
      <3>1. F[i + 1] = h
        BY <1>3, <2>1, <2>5
      <3>2. g \in Seq(T) /\ e \in T
        BY <2>2, <2>3
      <3> HIDE DEF g, e
      <3>3. /\ h \in Seq(T) /\ Len(h) = Len(g) + 1 /\ Len(g) \in Nat
            /\ \A j \in 1..Len(g) : h[j] = g[j]
            /\ h[Len(g) + 1] = e /\ DOMAIN g = 1..Len(g)
            /\ DOMAIN h = 1..(Len(g) + 1)
        BY <3>2, AppendProperties, LenProperties
      <3> HIDE DEF h
      <3>4. Members(h) = Members(g) \cup {e}
        <4>1. 1..(Len(g) + 1) = 1..Len(g) \cup {Len(g) + 1}
          BY <3>3
        <4> QED BY <3>3, <4>1 DEF Members
      <3>5. Members(h) = {s[j] : j \in 1..(i + 1)} \cap S
        BY <2>2, <2>4, <2>5, <3>4 DEF g, e
      <3>6. ASSUME Members(s) \subseteq S
            PROVE  Len(h) = i + 1 /\ \A j \in 1..(i + 1) : h[j] = s[j]
        <4>1. Len(g) = i /\ \A j \in 1..i : g[j] = s[j]
          BY <2>2, <3>6 DEF g
        <4>2. h[i + 1] = s[i + 1] /\ \A j \in 1..i : h[j] = s[j]
          BY <3>3, <4>1 DEF e
        <4> QED BY <3>3, <4>1, <4>2
      <3> QED BY <3>1, <3>3, <3>5, <3>6
    <2>6. CASE s[i + 1] \notin S
      <3>1. F[i + 1] = F[i]
        BY <1>3, <2>1, <2>6
      <3>2. ~(Members(s) \subseteq S)
        BY <2>3, <2>6
      <3> QED BY <2>2, <2>4, <2>6, <3>1, <3>2
    <2> QED BY <2>5, <2>6
  <1>6. n \in D
    <2> HIDE DEF D
    <2> QED BY <1>4, <1>5, Induction
  <1>7. Good(n)
    BY <1>6
  <1>8. {s[j] : j \in 1..n} = Members(s)
    BY <1>2 DEF Members
  <1>9. ASSUME Members(s) \subseteq S PROVE F[n] = s
    <2>1. F[n] \in Seq(T) /\ Len(F[n]) = n /\ \A j \in 1..n : F[n][j] = s[j]
      BY <1>7, <1>9
    <2> QED BY <1>1, <2>1, SeqEqual
  <1> QED BY <1>3, <1>7, <1>8, <1>9

-----------------------------------------------------------------------------
(* The list of peers *)

LEMMA TrimFacts ==
  ASSUME NEW a \in AllTexts
  PROVE  /\ TrimSpace(a) \in AllTexts /\ ~TrimSpace(a).outer
         /\ TrimSpace(a).host = a.host /\ TrimSpace(a).port = a.port
         /\ ~a.outer => TrimSpace(a) = a
  BY DEF TrimSpace, AllTexts

\* A string is valid if it has a colon, and a host and a port beside it.
LEMMA ValidIsPlain ==
  ASSUME NEW a \in AllTexts
  PROVE  ValidatePeerAddress(a) <=> Plain(a)
  BY AddressAssumption DEF ValidatePeerAddress, Plain, Colons, AllTexts

LEMMA ValidIsNormal ==
  ASSUME NEW a \in AllTexts, ValidatePeerAddress(a), ~a.outer
  PROVE  NormalizePeerAddress(a) = a
  <1>1. TrimSpace(a) = a
    BY TrimFacts
  <1> QED BY <1>1 DEF NormalizePeerAddress, ValidatePeerAddress

LEMMA NormalList ==
  ASSUME NEW s \in Seq(AllTexts), \A a \in Members(s) : NormalizePeerAddress(a) = a
  PROVE  NormalizePeerAddresses(s) = s
  <1>1. \A i \in DOMAIN s : NormalizePeerAddress(s[i]) = s[i]
    BY DEF Members
  <1> QED BY <1>1 DEF NormalizePeerAddresses

LEMMA RemoveSelf ==
  ASSUME NEW s \in Seq(AllTexts), NEW self
  PROVE  /\ RemoveSelfFromPeers(s, self) \in Seq(AllTexts)
         /\ Members(RemoveSelfFromPeers(s, self)) = Members(s) \ {self}
         /\ self \notin Members(s) => RemoveSelfFromPeers(s, self) = s
  <1>1. Members(s) \subseteq AllTexts
    BY LenProperties DEF Members
  <1>2. Members(s) \cap (AllTexts \ {self}) = Members(s) \ {self}
    BY <1>1
  <1> QED BY <1>1, <1>2, KeepProperties DEF RemoveSelfFromPeers

LEMMA DiscoverTyped ==
  ASSUME NEW raw \in Seq(AllTexts)
  PROVE  discoverPeers(raw) \in Seq(AllTexts)
  <1> DEFINE t == [i \in DOMAIN raw |-> TrimSpace(raw[i])]
  <1>1. PICK n \in Nat : DOMAIN raw = 1..n /\ raw \in [1..n -> AllTexts]
    BY LenProperties
  <1>2. t \in [1..n -> AllTexts]
    BY <1>1, TrimFacts
  <1>3. t \in Seq(AllTexts)
    BY <1>1, <1>2
  <1> QED BY <1>3, KeepProperties DEF discoverPeers

\* The plain strings of the variable, without the space around them.
LEMMA DiscoveredPeers ==
  ASSUME NEW raw \in Seq(AllTexts)
  PROVE  LET found == DiscoverAndValidatePeers(raw)
         IN  /\ found \in Seq(AllTexts)
             /\ Members(found) = {TrimSpace(a) : a \in {b \in Members(raw) : Plain(b)}}
             /\ \A a \in Members(found) : ValidatePeerAddress(a) /\ ~a.outer
  <1> DEFINE t == [i \in DOMAIN raw |-> TrimSpace(raw[i])]
             V == {a \in AllTexts : ValidatePeerAddress(a)}
             some == discoverPeers(raw)
             found == DiscoverAndValidatePeers(raw)
  <1>1. PICK n \in Nat : DOMAIN raw = 1..n /\ raw \in [1..n -> AllTexts]
    BY LenProperties
  <1>2. t \in Seq(AllTexts)
    <2>1. t \in [1..n -> AllTexts]
      BY <1>1, TrimFacts
    <2> QED BY <1>1, <2>1
  <1>3. Members(t) = {TrimSpace(a) : a \in Members(raw)}
    BY DEF Members
  <1> HIDE DEF t
  <1>4. /\ some \in Seq(AllTexts)
        /\ Members(some) = Members(t) \cap (AllTexts \ {EmptyText})
    BY <1>2, KeepProperties DEF discoverPeers, t
  <1> HIDE DEF some
  <1>5. found \in Seq(AllTexts) /\ Members(found) = Members(some) \cap V
    BY <1>4, KeepProperties DEF DiscoverAndValidatePeers, filterValidPeers, some
  <1> HIDE DEF found
  <1>6. Members(raw) \subseteq AllTexts
    BY <1>1 DEF Members
  <1>7. ~ValidatePeerAddress(EmptyText)
    BY DEF ValidatePeerAddress, EmptyText, Text
  <1>8. Members(found) = {a \in Members(t) : a \in V}
    <2>1. EmptyText \notin V
      BY <1>7
    <2>2. V \subseteq AllTexts
      OBVIOUS
    <2> HIDE DEF V
    <2> QED BY <1>4, <1>5, <2>1, <2>2
  <1>9. ASSUME NEW b \in Members(raw)
        PROVE  TrimSpace(b) \in V <=> Plain(b)
    <2>1. TrimSpace(b) \in AllTexts /\ (Plain(TrimSpace(b)) <=> Plain(b))
      BY <1>6, TrimFacts DEF Plain
    <2> QED BY <2>1, ValidIsPlain
  <1>10. Members(found) = {TrimSpace(a) : a \in {b \in Members(raw) : Plain(b)}}
    <2> HIDE DEF V
    <2> QED BY <1>3, <1>8, <1>9
  <1>11. \A a \in Members(found) : ValidatePeerAddress(a) /\ ~a.outer
    BY <1>3, <1>6, <1>8, TrimFacts
  <1> QED BY <1>5, <1>10, <1>11 DEF found

\* What both constructors start from is normal already; they differ in whether
\* they remove the bind address.
LEMMA ConstructorsPeers ==
  ASSUME NEW raw \in Seq(AllTexts), NEW self, NEW bind
  PROVE  LET kept == {TrimSpace(a) : a \in {b \in Members(raw) : Plain(b)}}
         IN  /\ Members(ManagerPeers(raw, self, bind)) = kept \ {self, bind}
             /\ Members(TransportPeers(raw, self)) = kept \ {self}
             /\ bind \notin kept =>
                  ManagerPeers(raw, self, bind) = TransportPeers(raw, self)
  <1> DEFINE found == DiscoverAndValidatePeers(raw)
             kept == {TrimSpace(a) : a \in {b \in Members(raw) : Plain(b)}}
             rest == RemoveSelfFromPeers(found, self)
  <1>1. /\ found \in Seq(AllTexts) /\ Members(found) = kept
        /\ \A a \in Members(found) : ValidatePeerAddress(a) /\ ~a.outer
    BY DiscoveredPeers
  <1>2. Members(found) \subseteq AllTexts
    BY <1>1, LenProperties DEF Members
  <1>3. \A a \in Members(found) : NormalizePeerAddress(a) = a
    BY <1>1, <1>2, ValidIsNormal
  <1>4. NormalizePeerAddresses(found) = found
    BY <1>1, <1>3, NormalList
  <1>5. rest \in Seq(AllTexts) /\ Members(rest) = kept \ {self}
    <2> HIDE DEF found, kept
    <2> QED BY <1>1, RemoveSelf
  <1>6. TransportPeers(raw, self) = rest
    <2>1. \A a \in Members(rest) : NormalizePeerAddress(a) = a
      <3> HIDE DEF rest, found, kept
      <3> QED BY <1>1, <1>3, <1>5
    <2>2. NormalizePeerAddresses(rest) = rest
      <3> HIDE DEF rest
      <3> QED BY <1>5, <2>1, NormalList
    <2> QED BY <2>2 DEF TransportPeers
  <1>7. ManagerPeers(raw, self, bind) = RemoveSelfFromPeers(rest, bind)
    BY <1>4 DEF ManagerPeers
  <1>8. /\ Members(RemoveSelfFromPeers(rest, bind)) = (kept \ {self}) \ {bind}
        /\ bind \notin kept \ {self} => RemoveSelfFromPeers(rest, bind) = rest
    <2> HIDE DEF rest, kept
    <2> QED BY <1>5, RemoveSelf
  <1> HIDE DEF rest, kept
  <1> QED BY <1>5, <1>6, <1>7, <1>8 DEF kept

\* Whatever strings an environment variable holds, and however many, exactly
\* the plain ones that are not the node itself become peers, and the two
\* constructors agree: DiscoverAndValidatePeers, NormalizePeerAddresses and
\* RemoveSelfFromPeers (peer.go:70, 76, 101) in either order.
THEOREM PeersOfAnyList ==
  ASSUME NEW raw \in Seq(AllTexts), NEW self
  PROVE  PeersExact(raw, self)
  <1> DEFINE kept == {TrimSpace(a) : a \in {b \in Members(raw) : Plain(b)}}
  <1>1. EmptyText \notin kept
    <2>1. Members(raw) \subseteq AllTexts
      BY LenProperties DEF Members
    <2>2. \A a \in AllTexts : Plain(a) => TrimSpace(a).host \in Name
      BY TrimFacts DEF Plain
    <2>3. EmptyText.host \notin Name
      BY AddressAssumption DEF EmptyText, Text
    <2> QED BY <2>1, <2>2, <2>3
  <1>2. /\ Members(ManagerPeers(raw, self, EmptyText)) = kept \ {self, EmptyText}
        /\ ManagerPeers(raw, self, EmptyText) = TransportPeers(raw, self)
    BY <1>1, ConstructorsPeers
  <1>3. kept \ {self, EmptyText} = kept \ {self}
    <2> HIDE DEF kept
    <2> QED BY <1>1
  <1> QED BY <1>2, <1>3 DEF PeersExact

\* The property that TLC checks, for any set of parts.
THEOREM AnyTwoStrings == PeerListExact
  <1> SUFFICES ASSUME NEW a \in Texts, NEW b \in Texts, NEW self
               PROVE  PeersExact(<<a, b>>, self)
    BY DEF PeerListExact
  <1>1. <<a, b>> \in Seq(AllTexts)
    BY DEF Texts
  <1> QED BY <1>1, PeersOfAnyList

-----------------------------------------------------------------------------
(* The advertised address *)

Hosts == Name \cup V6
NoWildSource(sources) == \A h \in Members(sources) \ {Empty} : Ip[h] \notin Wild

LEMMA AdvertisedHost ==
  ASSUME NEW sources \in Seq(Hosts \cup {Empty})
  PROVE  LET h == resolveAdvertiseHost(sources)
         IN  h \in Hosts /\ (NoWildSource(sources) => Ip[h] \notin Wild)
  <1> DEFINE set == Keep(sources, Hosts)
             h == resolveAdvertiseHost(sources)
  <1>1. /\ set \in Seq(Hosts \cup {Empty})
        /\ Members(set) = Members(sources) \cap Hosts
    BY KeepProperties
  <1>2. h = IF set = << >> THEN Loopback ELSE Head(set)
    BY DEF resolveAdvertiseHost, Hosts
  <1> HIDE DEF set, h
  <1> SUFFICES h \in Hosts /\ (NoWildSource(sources) => Ip[h] \notin Wild)
    BY DEF h
  <1>3. CASE set = << >>
    BY <1>2, <1>3, AddressAssumption DEF Hosts
  <1>4. CASE set # << >>
    <2>1. Head(set) = set[1] /\ 1 \in DOMAIN set
      BY <1>1, <1>4
    <2>2. h \in Members(set)
      BY <1>2, <1>4, <2>1 DEF Members
    <2>3. h \in Members(sources) /\ h \in Hosts /\ h # Empty
      BY <1>1, <2>2, AddressAssumption DEF Hosts
    <2> QED BY <2>3 DEF NoWildSource
  <1> QED BY <1>3, <1>4

LEMMA ResolveFacts ==
  ASSUME NEW h \in Hosts, NEW p, Resolve(h, p) # Invalid
  PROVE  /\ Ip[h] \in Hosts
         /\ \E port \in Port : Resolve(h, p) = Text(Ip[h], port)
  BY AddressAssumption DEF Resolve, Hosts

LEMMA ListenFacts ==
  ASSUME NEW bind \in AllTexts, normalizeListenAddress(bind) # Invalid
  PROVE  normalizeListenAddress(bind).host \in Hosts \cup {Empty}
  BY AddressAssumption DEF normalizeListenAddress, AllTexts, Text, Hosts

LEMMA AdvertisedText ==
  ASSUME NEW bind \in AllTexts, NEW sources \in Seq(Hosts \cup {Empty}),
         ResolveAdvertiseAddress(bind, sources) # Invalid
  PROVE  \E h \in Hosts, port \in Port :
           /\ ResolveAdvertiseAddress(bind, sources) = Text(h, port)
           /\ NoWildSource(sources) => h \notin Wild
  <1> DEFINE listen == normalizeListenAddress(bind)
             at == IF listen.host \in {Empty, None} THEN listen
                   ELSE Resolve(listen.host, listen.port)
             host == IF at.host \in Wild \cup {Empty} THEN resolveAdvertiseHost(sources)
                     ELSE at.host
             own == ResolveAdvertiseAddress(bind, sources)
  <1>1. own = IF at = Invalid THEN Invalid ELSE Resolve(host, listen.port)
    BY DEF ResolveAdvertiseAddress
  <1>2. at # Invalid /\ own = Resolve(host, listen.port)
    <2> HIDE DEF at, host, listen
    <2> QED BY <1>1
  <1>3. /\ listen.host \in Hosts \cup {Empty}
        /\ at.host \in Hosts \cup {Empty}
        /\ at.host # Empty => Ip[at.host] = at.host
    <2>1. CASE listen.host \in {Empty, None}
      <3>1. at = listen
        BY <2>1
      <3>2. listen # Invalid
        BY <1>2, <3>1
      <3>3. listen.host \in Hosts \cup {Empty}
        BY <3>2, ListenFacts
      <3>4. None \notin Hosts \cup {Empty}
        BY AddressAssumption DEF Hosts
      <3>5. at.host = Empty /\ listen.host = Empty
        <4> HIDE DEF at, listen
        <4> QED BY <2>1, <3>1, <3>3, <3>4
      <3> QED BY <3>5
    <2>2. CASE listen.host \notin {Empty, None}
      <3>1. at = Resolve(listen.host, listen.port)
        BY <2>2
      <3>2. listen # Invalid
        BY <2>2 DEF Invalid, Text
      <3>3. listen.host \in Hosts
        BY <2>2, <3>2, ListenFacts
      <3>4. Ip[listen.host] \in Hosts /\ at.host = Ip[listen.host]
        <4> HIDE DEF at, listen
        <4>1. Ip[listen.host] \in Hosts
              /\ \E port \in Port : at = Text(Ip[listen.host], port)
          BY <1>2, <3>1, <3>3, ResolveFacts
        <4> QED BY <4>1 DEF Text
      <3>5. Ip[listen.host] # Empty
        BY <3>4, AddressAssumption DEF Hosts
      <3>6. Ip[Ip[listen.host]] = Ip[listen.host]
        BY <3>3, <3>5, AddressAssumption DEF Hosts
      <3> HIDE DEF at, listen
      <3> QED BY <3>3, <3>4, <3>6
    <2> QED BY <2>1, <2>2
  <1> HIDE DEF at, listen
  <1>4. host \in Hosts /\ (NoWildSource(sources) => Ip[host] \notin Wild)
    <2>1. CASE at.host \in Wild \cup {Empty}
      BY <2>1, AdvertisedHost
    <2>2. CASE at.host \notin Wild \cup {Empty}
      BY <1>3, <2>2
    <2> QED BY <2>1, <2>2
  <1> HIDE DEF host, own
  <1>5. own # Invalid
    BY DEF own
  <1>6. Ip[host] \in Hosts /\ \E port \in Port : own = Text(Ip[host], port)
    BY <1>2, <1>4, <1>5, ResolveFacts
  <1> QED BY <1>4, <1>6 DEF own

LEMMA SingleList ==
  ASSUME NEW a \in AllTexts, ~a.outer, a # EmptyText
  PROVE  DiscoverAndValidatePeers(<<a>>) =
           IF ValidatePeerAddress(a) THEN <<a>> ELSE << >>
  <1> DEFINE V == {b \in AllTexts : ValidatePeerAddress(b)}
  <1>1. <<a>> \in Seq(AllTexts) /\ Members(<<a>>) = {a}
    BY DEF Members
  <1>2. [i \in DOMAIN <<a>> |-> TrimSpace(<<a>>[i])] = <<a>>
    <2>1. TrimSpace(a) = a
      BY TrimFacts
    <2>2. \A i \in DOMAIN <<a>> : TrimSpace(<<a>>[i]) = <<a>>[i]
      BY <2>1
    <2> QED BY <2>2
  <1>3. discoverPeers(<<a>>) = <<a>>
    <2>1. discoverPeers(<<a>>) = Keep(<<a>>, AllTexts \ {EmptyText})
      BY <1>2 DEF discoverPeers
    <2>2. {a} \subseteq AllTexts \ {EmptyText}
      OBVIOUS
    <2> QED BY <1>1, <2>1, <2>2, KeepProperties
  <1>4. DiscoverAndValidatePeers(<<a>>) = Keep(<<a>>, V)
    BY <1>3 DEF DiscoverAndValidatePeers, filterValidPeers
  <1>5. CASE ValidatePeerAddress(a)
    BY <1>1, <1>4, <1>5, KeepProperties
  <1>6. CASE ~ValidatePeerAddress(a)
    <2>1. Keep(<<a>>, V) \in Seq(AllTexts) /\ Members(Keep(<<a>>, V)) = {a} \cap V
      BY <1>1, KeepProperties
    <2>2. Members(Keep(<<a>>, V)) = {}
      BY <1>6, <2>1
    <2> HIDE DEF V
    <2>3. Keep(<<a>>, V) = << >>
      BY <2>1, <2>2, LenProperties, EmptySeq DEF Members
    <2> QED BY <1>4, <1>6, <2>3
  <1> QED BY <1>5, <1>6

LEMMA PlainAccepted ==
  ASSUME NEW h \in Hosts, NEW port \in Port
  PROVE  AddPeerAddress(Text(h, port)) = IF h \in V6 THEN Invalid ELSE Text(h, port)
  <1> DEFINE own == Text(h, port)
  <1>1. /\ own \in AllTexts /\ ~own.outer /\ own.host = h /\ own.port = port
    BY AddressAssumption DEF Text, AllTexts, Hosts
  <1> HIDE DEF own
  <1>2. ValidatePeerAddress(own) <=> h \notin V6
    <2>1. Plain(own) <=> h \notin V6
      BY <1>1, AddressAssumption DEF Plain, Hosts
    <2> QED BY <1>1, <2>1, ValidIsPlain
  <1>3. NormalizePeerAddress(own) = own
    <2>1. TrimSpace(own) = own /\ own.port # None
      BY <1>1, TrimFacts, AddressAssumption
    <2> QED BY <2>1 DEF NormalizePeerAddress, Colons
  <1> QED BY <1>2, <1>3 DEF AddPeerAddress, own

\* What resolveTransportAddresses (raft.go:110) makes of any bind address and any
\* environment is no wildcard unless a host of the environment resolves to
\* one, and is accepted by AddPeer and in lists of peers exactly if it is not IPv6.
THEOREM AdvertisedByAny ==
  ASSUME NEW bind \in AllTexts, NEW sources \in Seq(Name \cup V6 \cup {Empty})
  PROVE  AdvertisedWell(bind, sources)
  <1> DEFINE own == ResolveAdvertiseAddress(bind, sources)
  <1> SUFFICES ASSUME own # Invalid, NoWildSource(sources)
               PROVE  /\ own.host \notin Wild \cup {Empty}
                      /\ AddPeerAddress(own) = IF own.host \in V6 THEN Invalid ELSE own
                      /\ DiscoverAndValidatePeers(<<own>>) =
                           IF own.host \in V6 THEN << >> ELSE <<own>>
    BY DEF AdvertisedWell, NoWildSource
  <1>1. PICK h \in Hosts, port \in Port : own = Text(h, port) /\ h \notin Wild
    <2>1. sources \in Seq(Hosts \cup {Empty})
      BY DEF Hosts
    <2> QED BY <2>1, AdvertisedText
  <1> HIDE DEF own
  <1>2. /\ own \in AllTexts /\ ~own.outer /\ own # EmptyText
        /\ own.host = h /\ own.port = port
    BY <1>1, AddressAssumption DEF Text, EmptyText, AllTexts, Hosts
  <1>3. ValidatePeerAddress(own) <=> own.host \notin V6
    <2>1. Plain(own) <=> own.host \notin V6
      BY <1>2, AddressAssumption DEF Plain, Hosts
    <2> QED BY <1>2, <2>1, ValidIsPlain
  <1>5. AddPeerAddress(own) = IF own.host \in V6 THEN Invalid ELSE own
    BY <1>1, <1>2, PlainAccepted
  <1>6. DiscoverAndValidatePeers(<<own>>) = IF own.host \in V6 THEN << >> ELSE <<own>>
    BY <1>2, <1>3, SingleList
  <1>7. own.host \notin Wild \cup {Empty}
    BY <1>1, <1>2, AddressAssumption DEF Hosts
  <1> QED BY <1>5, <1>6, <1>7

\* The property that TLC checks, for any set of parts.
THEOREM AdvertisedByBounded == AdvertisedIsAccepted
  <1> SUFFICES ASSUME NEW bind \in Texts, NEW h \in Part \cup V6
               PROVE  AdvertisedWell(bind, <<Empty, h>>)
    BY DEF AdvertisedIsAccepted
  <1>1. bind \in AllTexts
    BY DEF Texts
  <1>2. <<Empty, h>> \in Seq(Name \cup V6 \cup {Empty})
    BY PartAssumption
  <1> QED BY <1>1, <1>2, AdvertisedByAny

-----------------------------------------------------------------------------
(* The formation over these strings *)

\* What an environment variable contributes is what ClusterFormation is given.
LEMMA PeersNamed ==
  ASSUME NEW n \in Node
  PROVE  LET kept == {TrimSpace(a) : a \in {b \in Members(Variable[n]) : Plain(b)}}
         IN  {Spelled[i] : i \in Peers(n)} = kept \ {Self(n), Listen[n]}
  <1> DEFINE raw == Variable[n]
             found == DiscoverAndValidatePeers(raw)
             V == {a \in AllTexts : ValidatePeerAddress(a)}
  <1>1. /\ raw \in Seq(AllTexts) /\ Spelled \in [Address -> AllTexts]
        /\ \A i, j \in Address : Spelled[i] = Spelled[j] => i = j
        /\ Spelled[Own[n]] = Self(n)
        /\ \A i \in Address : Bind[n] = i <=> Spelled[i] = Listen[n]
        /\ Members(discoverPeers(raw)) = {Spelled[i] : i \in Env[n]}
        /\ Valid = {i \in Address : Spelled[i] \in V}
    BY AddressingAssumption DEF Addresses
  <1>2. Own[n] \in Address /\ Env[n] \subseteq Address
    BY FormationAssumption
  <1>3. /\ found \in Seq(AllTexts)
        /\ Members(found) = {TrimSpace(a) : a \in {b \in Members(raw) : Plain(b)}}
    BY <1>1, DiscoveredPeers
  <1>4. Members(found) = {Spelled[i] : i \in Env[n]} \cap V
    <2>1. discoverPeers(raw) \in Seq(AllTexts)
      BY <1>1, DiscoverTyped
    <2>2. Members(found) = Members(discoverPeers(raw)) \cap V
      BY <2>1, KeepProperties DEF DiscoverAndValidatePeers, filterValidPeers
    <2> QED BY <1>1, <2>2
  <1> HIDE DEF raw, found, V
  <1>5. {Spelled[i] : i \in Peers(n)} = Members(found) \ {Self(n), Listen[n]}
    BY <1>1, <1>2, <1>4 DEF Peers
  <1> QED BY <1>3, <1>5 DEF raw

\* Whatever happens to the cluster, the peers with which a node goes on to start
\* or to join one are the ones its constructor computes from the strings of its
\* environment (manager.go:431, 571).
THEOREM PeersAreCoded == Spec => []PeersAsCoded
  <1>1. PeersAsCoded
    <2>1. ASSUME NEW n \in Node
          PROVE  LET peers == {Spelled[i] : i \in Peers(n)}
                 IN  /\ peers = Members(ManagerPeers(Variable[n], Self(n), Listen[n]))
                     /\ peers = Members(TransportPeers(Variable[n], Self(n)))
                                  \ {Listen[n]}
      <3> DEFINE kept == {TrimSpace(a) : a \in {b \in Members(Variable[n]) : Plain(b)}}
      <3>1. Variable[n] \in Seq(AllTexts)
        BY AddressingAssumption
      <3>2. /\ Members(ManagerPeers(Variable[n], Self(n), Listen[n]))
                 = kept \ {Self(n), Listen[n]}
            /\ Members(TransportPeers(Variable[n], Self(n))) = kept \ {Self(n)}
        BY <3>1, ConstructorsPeers
      <3>3. {Spelled[i] : i \in Peers(n)} = kept \ {Self(n), Listen[n]}
        BY PeersNamed
      <3> HIDE DEF kept
      <3> QED BY <3>2, <3>3
    <2> QED BY <2>1, AnyTwoStrings DEF PeersAsCoded
  <1> QED BY <1>1, PTL

\* Whatever happens to the cluster, a node that runs can be added and named by the
\* address it runs under, unless that is IPv6.
THEOREM OwnAddressAccepted == Spec => []OwnIsAccepted
  <1>1. OwnIsAccepted
    <2>1. ASSUME NEW n \in Node, Self(n).host \notin V6
          PROVE  AddPeerAddress(Self(n)) = Spelled[Own[n]]
      <3>1. /\ Listen[n] \in AllTexts /\ Sources[n] \in Seq(Hosts \cup {Empty})
            /\ Spelled[Own[n]] = Self(n) /\ Self(n) \in AllTexts
        BY AddressingAssumption, FormationAssumption DEF Hosts
      <3>2. Self(n) # Invalid
        BY <3>1, AddressAssumption DEF Invalid, Text, AllTexts
      <3>3. PICK h \in Hosts, port \in Port : Self(n) = Text(h, port)
        BY <3>1, <3>2, AdvertisedText DEF Self
      <3>4. AddPeerAddress(Self(n)) = Self(n)
        BY <2>1, <3>3, PlainAccepted DEF Text, Hosts
      <3> QED BY <3>1, <3>4
    <2> QED BY <2>1, AdvertisedByBounded DEF OwnIsAccepted
  <1> QED BY <1>1, PTL
=============================================================================
