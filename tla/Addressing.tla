----------------------------- MODULE Addressing -----------------------------
(***************************************************************************)
(* ClusterFormation over the strings of PeerAddress: every address of the  *)
(* formation is spelled by a text, and what a node knows of itself and of  *)
(* its peers is what the code computes from its configuration and from     *)
(* the environment of its process.                                         *)
(***************************************************************************)
EXTENDS ClusterFormation, PeerAddress

CONSTANTS
  Spelled,   \* Spelled[i]: the text of address i
  Variable,  \* Variable[n]: the texts between the commas of n's peer variable
  Sources,   \* Sources[n]: the hosts n finds in its environment, or Empty
  Listen     \* Listen[n]: the bind address in the configuration of n

Addresses(texts) == {i \in Address : Spelled[i] \in texts}

\* The address under which node n knows itself.
Self(n) == ResolveAdvertiseAddress(Listen[n], Sources[n])

\* ClusterFormation is given what the code makes of these texts, and has an
\* address for each text in a variable.
ASSUME AddressingAssumption ==
  /\ Spelled \in [Address -> AllTexts]
  /\ \A i, j \in Address : Spelled[i] = Spelled[j] => i = j
  /\ \A n \in Node :
       /\ Variable[n] \in Seq(AllTexts) /\ Listen[n] \in AllTexts
       /\ Sources[n] \in Seq(Name \cup V6 \cup {Empty})
       /\ Spelled[Own[n]] = Self(n)
       /\ \A i \in Address : Bind[n] = i <=> Spelled[i] = Listen[n]
       /\ Members(discoverPeers(Variable[n])) = {Spelled[i] : i \in Env[n]}
  /\ Valid = Addresses({a \in AllTexts : ValidatePeerAddress(a)})

-----------------------------------------------------------------------------
(* Properties *)

\* The peers with which ClusterFormation lets a node start are those the code
\* computes from the strings of its environment, by either constructor (only
\* NewManager knows a bind address); and so it is for any two strings: exactly
\* the plain ones that are not the node's own are kept (PeerListExact).
PeersAsCoded ==
  \A n \in Node : proc[n] = "boot" =>
    LET peers == {Spelled[i] : i \in Peers(n)}
    IN /\ peers = Members(ManagerPeers(Variable[n], Self(n), Listen[n]))
       /\ peers = Members(TransportPeers(Variable[n], Self(n))) \ {Listen[n]}
       /\ PeerListExact

\* A node whose Raft instance runs under the address it advertises can be named
\* and added by that address, and so can every node, unless it advertises IPv6
\* (AdvertisedIsAccepted).
OwnIsAccepted ==
  \A n \in Node : raftUp[n] =>
    /\ Self(n).host \in V6 \/ AddPeerAddress(Self(n)) = Spelled[Own[n]]
    /\ AdvertisedIsAccepted
=============================================================================
