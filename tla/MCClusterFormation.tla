------------------------- MODULE MCClusterFormation -------------------------
(* Instances of Addressing for TLC: three nodes and the strings that they are
   configured with. *)
EXTENDS Addressing

CONSTANTS n1, n2, n3, a1, a2, a3, h2, h3, b2, ip1, ip2, ip3, name2, name3, six, all, lo, p, q, zero

Names == {ip1, ip2, ip3, name2, name3, all, lo, p, q, zero}
ResolvesTo ==
  [h \in Names \cup {six} |-> CASE h = name2 -> ip2 [] h = name3 -> ip3 [] OTHER -> h]

\* Each node listens at one address, the second and the third also under their
\* names: h2 and h3; b2 is the name of node 2 without a port.
Spellings ==
  [i \in Address |->
     CASE i = a1 -> Text(ip1, p) [] i = a2 -> Text(ip2, p) [] i = a3 -> Text(ip3, p)
       [] i = h2 -> Text(name2, p) [] i = h3 -> Text(name3, p) [] OTHER -> Text(name2, None)]
The(text) == CHOOSE i \in Addresses({text}) : TRUE
Listener ==
  [i \in Address |-> IF i = a1 THEN n1 ELSE IF i \in {a3, h3} THEN n3 ELSE n2]

\* All nodes bind to the wildcard address ":7331" and find their own host in
\* the variable of their platform.
Wildcard == [n \in Node |-> Text(Empty, p)]
Hosts ==
  [n \in Node |-> <<Empty, Empty, IF n = n1 THEN ip1 ELSE IF n = n2 THEN name2 ELSE ip3>>]
Home == [n \in Node |-> The(Self(n))]
NoAddress == [n \in Node |-> Nobody]

\* The list of peers: the first node names nobody but itself, the others name
\* everybody, with a space after each comma, the second node also by its name,
\* with a port and without, and a comma at the end.
Padded(i) == [Spelled[i] EXCEPT !.outer = TRUE]
Lists ==
  [n \in Node |-> IF n = n1 THEN <<Padded(a1)>>
                  ELSE <<Padded(a1), Padded(a2), Padded(a3), Padded(h2),
                         Padded(b2), EmptyText>>]
Listed == [n \in Node |-> Addresses(Members(discoverPeers(Lists[n])))]
Accepted == Addresses({a \in AllTexts : ValidatePeerAddress(a)})

\* What the operator types to add and to remove a node: the second is added by
\* its name, the third by the address it advertises.  (A node that is added by
\* both deposes itself again and again, in ever newer terms.)
Typed == Addresses({AddPeerAddress(s) : s \in {Padded(h2), Spelled[a3], Text(six, p)}})
Removed == Addresses({NormalizePeerAddress(Padded(a1))})

\* The values of the constants: names of values that TLC computes once.
TheSpelled == Spellings
TheVariable == Lists
TheOwn == Home
TheEnv == Listed
TheAt == Listener
TheBind == NoAddress
TheValid == Accepted
TheWanted == Typed
TheUnwanted == Removed
TheIp == ResolvesTo

\* Nodes that ended, or were started again.
Disturbed == {n \in Node : starts[n] > 1 \/ (starts[n] = 1 /\ proc[n] = "off")}
AtMostOneDisturbed == Cardinality(Disturbed) <= 1
=============================================================================
