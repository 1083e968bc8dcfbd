----------------------------- MODULE PeerAddress ----------------------------
(***************************************************************************)
(* The addresses of peers, as strings that the code takes apart: how the   *)
(* environment variable becomes a list of peers (internal/raft/peer.go),   *)
(* what AddPeer accepts, and the address a node advertises and so knows    *)
(* itself by (internal/raft/raft.go).                                      *)
(*                                                                         *)
(* A string is abstracted to the text before the last colon outside of     *)
(* brackets, the text after it, and where it has white space: around the   *)
(* whole or around that colon.                                             *)
(***************************************************************************)
EXTENDS Naturals, Sequences

CONSTANTS
  Name,      \* host names, IPv4 addresses and ports: text without a colon
  V6,        \* IPv6 addresses: text with two colons or more
  Port,      \* the members of Name that are port numbers
  Raft,      \* the default port, 8300
  Zero,      \* port 0
  Wild,      \* hosts that stand for every interface: 0.0.0.0, [::]
  Ip,        \* Ip[h]: the address host h resolves to, which is its own, or Empty
  Loopback,  \* 127.0.0.1
  Empty,     \* the empty text
  None       \* there is no such part

ASSUME AddressAssumption ==
  /\ Name \cap V6 = {} /\ {Empty, None} \cap (Name \cup V6) = {}
  /\ Port \subseteq Name /\ {Raft, Zero} \subseteq Port /\ Wild \subseteq Name \cup V6
  /\ Ip \in [Name \cup V6 -> Name \cup V6 \cup {Empty}]
  /\ \A h \in Name \cup V6 : Ip[h] # Empty => Ip[Ip[h]] = Ip[h]
  /\ Loopback \in Name \ Wild /\ Ip[Loopback] = Loopback
  /\ Empty # None

\* host [colon port], with white space around the whole or around the colon.
Text(h, p) == [host |-> h, port |-> p, outer |-> FALSE, inner |-> FALSE]
EmptyText == Text(Empty, None)
Invalid == Text(None, None)  \* stands for an error

AllTexts ==
  {a \in [host : Name \cup V6 \cup {Empty}, port : Name \cup {Empty, None},
          outer : BOOLEAN, inner : BOOLEAN] : a.port = None => ~a.inner}

\* How many colons the text has; of more than two it does not matter.
Colons(a) == (IF a.host \in V6 THEN 2 ELSE 0) + (IF a.port = None THEN 0 ELSE 1)

TrimSpace(a) == [a EXCEPT !.outer = FALSE]

\* Those members of list s that are in S, in their order.
Keep(s, S) ==
  LET Kept[i \in 0..Len(s)] ==
        IF i = 0 THEN << >>
        ELSE IF s[i] \in S THEN Append(Kept[i - 1], s[i]) ELSE Kept[i - 1]
  IN Kept[Len(s)]

-----------------------------------------------------------------------------
(* peer.go *)

\* The environment variable, split at its commas.
discoverPeers(raw) ==
  Keep([i \in DOMAIN raw |-> TrimSpace(raw[i])], AllTexts \ {EmptyText})

\* Two parts, neither of them blank.
ValidatePeerAddress(a) == Colons(a) = 1 /\ a.host # Empty /\ a.port # Empty

filterValidPeers(peers) == Keep(peers, {a \in AllTexts : ValidatePeerAddress(a)})

DiscoverAndValidatePeers(raw) == filterValidPeers(discoverPeers(raw))

\* Without a port the default one is assumed.
NormalizePeerAddress(addr) ==
  LET a == TrimSpace(addr)
  IN IF Colons(a) = 0 THEN [a EXCEPT !.port = Raft] ELSE a

NormalizePeerAddresses(peers) == [i \in DOMAIN peers |-> NormalizePeerAddress(peers[i])]

RemoveSelfFromPeers(peers, self) == Keep(peers, AllTexts \ {self})

\* The lists of peers that NewManager and NewManagerWithTransport start with.
ManagerPeers(raw, self, bind) ==
  LET peers == NormalizePeerAddresses(DiscoverAndValidatePeers(raw))
  IN RemoveSelfFromPeers(RemoveSelfFromPeers(peers, self), bind)

\* Faulty: the node is removed before the strings are trimmed and checked.
TransportPeers_SelfFirst(raw, self) ==
  NormalizePeerAddresses(DiscoverAndValidatePeers(RemoveSelfFromPeers(raw, self)))

TransportPeers(raw, self) ==
  NormalizePeerAddresses(RemoveSelfFromPeers(DiscoverAndValidatePeers(raw), self))

\* What Manager.AddPeer gives to Raft, or Invalid.
AddPeerAddress(a) ==
  LET b == NormalizePeerAddress(a) IN IF ValidatePeerAddress(b) THEN b ELSE Invalid

-----------------------------------------------------------------------------
(* raft.go: the advertised address *)

\* SplitHostPort takes "host:port", ":port" and "[v6]:port"; text without a
\* colon is taken for a port.  White space makes an address that does not resolve.
normalizeListenAddress(bind) ==
  CASE bind = EmptyText \/ bind.outer \/ bind.inner -> Invalid
    [] bind.port # None -> bind
    [] bind.host \in Name -> Text(Empty, bind.host)
    [] OTHER -> Invalid

\* The first host that is set: five variables of the environment, the host
\* name, the first interface that is no loopback.
resolveAdvertiseHost(sources) ==
  LET set == Keep(sources, Name \cup V6)
  IN IF set = << >> THEN Loopback ELSE Head(set)

\* net.ResolveTCPAddr: no port is port 0.
Resolve(h, p) ==
  CASE p \in Port /\ Ip[h] # Empty -> Text(Ip[h], p)
    [] p = Empty /\ Ip[h] # Empty -> Text(Ip[h], Zero)
    [] OTHER -> Invalid

\* Faulty: a wildcard is advertised as it is.
ResolveAdvertiseAddress_Wildcard(bind, sources) ==
  LET listen == normalizeListenAddress(bind)
  IN IF listen = Invalid THEN Invalid
     ELSE Resolve(IF listen.host = Empty THEN resolveAdvertiseHost(sources)
                  ELSE listen.host, listen.port)

ResolveAdvertiseAddress(bind, sources) ==
  LET listen == normalizeListenAddress(bind)
      at == IF listen.host \in {Empty, None} THEN listen
            ELSE Resolve(listen.host, listen.port)
  IN IF at = Invalid THEN Invalid
     ELSE Resolve(IF at.host \in Wild \cup {Empty} THEN resolveAdvertiseHost(sources)
                  ELSE at.host, listen.port)

-----------------------------------------------------------------------------
(* Properties *)

\* One host that is no IPv6 address, and one port.
Plain(a) == a.host \in Name /\ a.port \in Name

Members(s) == {s[i] : i \in DOMAIN s}

\* Of a list of strings exactly the plain ones that are not this node become
\* peers, each in the same form; the two constructors of a manager, which
\* remove the node and normalise in a different order, agree.
PeersExact(raw, self) ==
  LET peers == ManagerPeers(raw, self, EmptyText)
  IN /\ Members(peers) = {TrimSpace(a) : a \in {b \in Members(raw) : Plain(b)}} \ {self}
     /\ peers = TransportPeers(raw, self)

\* A node can be added under the address it advertises, and that address is
\* kept in a list of peers, exactly if it is no IPv6 address; no node advertises
\* a wildcard or an empty host, whatever it binds to, if its environment names
\* no host that resolves to one.
AdvertisedWell(bind, sources) ==
  LET own == ResolveAdvertiseAddress(bind, sources)
  IN (own # Invalid /\ \A h \in Members(sources) \ {Empty} : Ip[h] \notin Wild) =>
       /\ own.host \notin Wild \cup {Empty}
       /\ AddPeerAddress(own) = IF own.host \in V6 THEN Invalid ELSE own
       /\ DiscoverAndValidatePeers(<<own>>) =
            IF own.host \in V6 THEN << >> ELSE <<own>>

CONSTANT Part  \* the parts of the strings that TLC tries

ASSUME PartAssumption == Part \subseteq Name

Texts ==
  {a \in AllTexts : /\ a.host \in Part \cup V6 \cup {Empty}
                    /\ a.port \in Part \cup {Empty, None}}

\* For all lists of two of these strings.
PeerListExact ==
  \A a, b \in Texts, self \in {c \in Texts : Plain(c) /\ ~c.outer} :
    PeersExact(<<a, b>>, self)

AdvertisedIsAccepted ==
  \A bind \in Texts, h \in Part \cup V6 : AdvertisedWell(bind, <<Empty, h>>)
=============================================================================
