-------------------------- MODULE ConfiguredPeers --------------------------
(***************************************************************************)
(* The configured peers, network/src/p2p/peers.rs: a map from peers to a   *)
(* usage and a set of addresses.  P2PVideoNode::new fills it from two      *)
(* lists of addresses and starts the DHT and the circuit listeners from    *)
(* it; the identify protocol adds addresses; configure_player reads the    *)
(* wss addresses it hands to browsers.                                     *)
(*                                                                         *)
(* An address is a sequence of protocols.  A member of Peers stands for    *)
(* the protocol P2p of that peer, BadHash for P2p of a hash that is no     *)
(* peer id.                                                                *)
(***************************************************************************)
EXTENDS Naturals, SequencesExt

CONSTANTS
    Peers,
    BadHash,
    Lists,          \* bound: the lists of addresses a user may configure
    Announced       \* bound: the addresses a peer may announce

Names == {"ip4", "tcp", "http", "memory", "unix", "ws", "wss", "circuit"}
Protocol == Peers \cup {BadHash} \cup Names
Multiaddr == Seq(Protocol)

ASSUME PeersAssumption ==
    /\ Peers \cap (Names \cup {BadHash}) = {} /\ BadHash \notin Names
    /\ \A l \in Lists : l \in Seq(Multiaddr)
    /\ \A a \in Announced : a \in Multiaddr

VARIABLES
    router_peers, additional_peers,     \* the configuration: two lists
    pc,         \* "config" while new reads them, "running" or "panicked"
    read,       \* how many of their addresses it has read
    map,        \* peers to [usage, known_addresses]
    kad,        \* <<peer, address>> given to kad_wan.add_address
    circuits    \* addresses injected as listen addresses

config == <<router_peers, additional_peers>>
vars == <<config, pc, read, map, kad, circuits>>

-----------------------------------------------------------------------------
\* Mutant: whatever ends the address is taken for the peer.
ParsesAny(addr) == addr # <<>>

\* PeerAddr::parse
Parses(addr) == addr # <<>> /\ addr[Len(addr)] \in Peers
PeerOf(addr) == addr[Len(addr)]
AddrOf(addr) == SubSeq(addr, 1, Len(addr) - 1)

\* Mutant: a peer that has an entry keeps it, and gains the address.
WithEntryKept(addr, usage) ==
    [p \in DOMAIN map \cup {PeerOf(addr)} |->
        IF p # PeerOf(addr) THEN map[p]
        ELSE [usage |-> IF p \in DOMAIN map THEN map[p].usage ELSE usage,
              known_addresses |->
                 {AddrOf(addr)} \cup
                 (IF p \in DOMAIN map THEN map[p].known_addresses ELSE {})]]

\* save_new_peer and then save_known_address: an entry of the same peer is
\* replaced, with its usage and its addresses.
WithEntry(addr, usage) ==
    [p \in DOMAIN map \cup {PeerOf(addr)} |->
        IF p = PeerOf(addr)
        THEN [usage |-> usage, known_addresses |-> {AddrOf(addr)}]
        ELSE map[p]]

\* What map offers: node_bootstrap, and the routers' part of it.
node_bootstrap == UNION {{p} \X map[p].known_addresses : p \in DOMAIN map}
IsRouter(p) == map[p].usage = "router"
FullAddr(pa) == Append(pa[2], pa[1])

node_circuit_addrs ==
    {Append(FullAddr(pa), "circuit") : pa \in {b \in node_bootstrap : IsRouter(b[1])}}

\* Mutant: the scan goes on behind the first peer.
ScanOn(s, p) ==
    IF ~ s.scanning THEN s ELSE
    CASE p \in {"http", "memory", "unix", "ws"} -> [result |-> FALSE, scanning |-> FALSE]
      [] p = "wss" -> [s EXCEPT !.result = TRUE]
      [] OTHER -> s

\* The loop of p2p_wss_addresses over the protocols of an address.
Scan(s, p) ==
    IF ~ s.scanning THEN s ELSE
    CASE p \in {"http", "memory", "unix", "ws"} -> [result |-> FALSE, scanning |-> FALSE]
      [] p \in Peers \cup {BadHash, "circuit"} -> [s EXCEPT !.scanning = FALSE]
      [] p = "wss" -> [s EXCEPT !.result = TRUE]
      [] OTHER -> s
IsWss(addr) == FoldLeft(Scan, [result |-> FALSE, scanning |-> TRUE], addr).result

player_bootstrap == {a \in {FullAddr(pa) : pa \in node_bootstrap} : IsWss(a)}
player_delegates ==
    {a \in {FullAddr(pa) : pa \in {b \in node_bootstrap : IsRouter(b[1])}} : IsWss(a)}
-----------------------------------------------------------------------------
Configured == router_peers \o additional_peers

Init ==
    /\ router_peers \in Lists /\ additional_peers \in Lists
    /\ pc = "config" /\ read = 0
    /\ map = <<>>       \* the function of no peers
    /\ kad = {} /\ circuits = {}

\* ConfiguredPeers::new: the next address of a list.  One that does not end
\* with a peer id is ignored.
ReadAddr(usage) ==
    LET addr == Configured[read + 1] IN
    /\ map' = IF Parses(addr) THEN WithEntry(addr, usage) ELSE map
    /\ read' = read + 1
    /\ UNCHANGED <<config, pc, kad, circuits>>

ReadRouter ==
    /\ pc = "config" /\ read < Len(router_peers)
    /\ ReadAddr("router")

ReadAdditional ==
    /\ pc = "config"
    /\ Len(router_peers) <= read /\ read < Len(Configured)
    /\ ReadAddr("bootstrap")

\* Mutant: only the routers get used to bootstrap the DHT.
StartRouters ==
    /\ pc = "config" /\ read = Len(Configured)
    /\ kad' = {pa \in node_bootstrap : IsRouter(pa[1])}
    /\ circuits' = node_circuit_addrs
    /\ pc' = IF node_bootstrap = {} THEN "panicked" ELSE "running"
    /\ UNCHANGED <<config, read, map>>

\* P2PVideoNode::new, with the map complete: kad_wan.bootstrap() is
\* unwrapped, and fails when the DHT knows no peer.
Start ==
    /\ pc = "config" /\ read = Len(Configured)
    /\ kad' = node_bootstrap
    /\ circuits' = node_circuit_addrs
    /\ pc' = IF node_bootstrap = {} THEN "panicked" ELSE "running"
    /\ UNCHANGED <<config, read, map>>

\* IdentifyEvent::Received, from any peer: each address is saved for a
\* configured peer and given to the DHT in any case.
Identify(peer, addrs) ==
    /\ pc = "running"
    /\ map' = [p \in DOMAIN map |->
                 IF p = peer THEN [map[p] EXCEPT !.known_addresses = @ \cup addrs] ELSE map[p]]
    /\ kad' = kad \cup ({peer} \X addrs)
    /\ UNCHANGED <<config, pc, read, circuits>>

Next ==
    \/ ReadRouter
    \/ ReadAdditional
    \/ Start
    \/ \E peer \in Peers, addrs \in SUBSET Announced : Identify(peer, addrs)

Spec == Init /\ [][Next]_vars
-----------------------------------------------------------------------------
Usage == {"router", "bootstrap"}
Entry == [usage : Usage, known_addresses : SUBSET Multiaddr]

TypeOK ==
    /\ pc \in {"config", "running", "panicked"}
    /\ read \in 0 .. Len(Configured)
    /\ DOMAIN map \subseteq Peers /\ map \in [DOMAIN map -> Entry]
    /\ kad \subseteq Peers \X Multiaddr

(***************************************************************************)
(* Every address the map holds of a peer was given to the DHT, from the    *)
(* configuration or from the peer itself: the two are fed by different     *)
(* code and must agree, or a browser is sent to peers the node cannot      *)
(* find.                                                                   *)
(***************************************************************************)
KadKnowsMap == pc = "running" => node_bootstrap \subseteq kad

(***************************************************************************)
(* "All configured peers get used to bootstrap our DHT" (node.rs:63): each *)
(* peer that some configured address names is in the DHT with one of its   *)
(* configured addresses, however often it was listed, and the node starts  *)
(* if any address names a peer.                                            *)
(***************************************************************************)
NamesPeer(i, p) == Parses(Configured[i]) /\ PeerOf(Configured[i]) = p
AllPeersBootstrap ==
    \A i \in 1 .. Len(Configured), p \in Peers :
        NamesPeer(i, p) =>
            /\ pc # "panicked"
            /\ pc = "running" =>
                  \E j \in 1 .. Len(Configured) :
                      NamesPeer(j, p) /\ <<p, AddrOf(Configured[j])>> \in kad

(***************************************************************************)
(* What decides about a peer is the last address that names it: its list   *)
(* is the usage, and it alone of the configured addresses is sure to be    *)
(* known.  A peer has an entry exactly when an address names it.           *)
(***************************************************************************)
LastNaming(i, p) == NamesPeer(i, p) /\ \A j \in i + 1 .. read : ~ NamesPeer(j, p)
LastEntryDecides ==
    /\ \A i \in 1 .. read, p \in Peers : NamesPeer(i, p) => p \in DOMAIN map
    /\ \A p \in DOMAIN map : \E i \in 1 .. read :
          /\ LastNaming(i, p)
          /\ map[p].usage = IF i <= Len(router_peers) THEN "router" ELSE "bootstrap"
          /\ AddrOf(Configured[i]) \in map[p].known_addresses
          /\ pc = "config" => map[p].known_addresses = {AddrOf(Configured[i])}

(***************************************************************************)
(* What browsers are given: exactly the known addresses that a page served *)
(* over https may dial, those whose part before the first peer id or relay *)
(* is a secure websocket and nothing a browser refuses; and a delegate is  *)
(* always among the peers to bootstrap from.                               *)
(***************************************************************************)
Transport(addr) ==
    {addr[i] : i \in {j \in 1 .. Len(addr) :
        \A k \in 1 .. j : addr[k] \notin Peers \cup {BadHash, "circuit"}}}
DialsSecurely(addr) ==
    "wss" \in Transport(addr) /\ Transport(addr) \cap {"http", "memory", "unix", "ws"} = {}
PlayersDialSecurely ==
    /\ player_bootstrap = {FullAddr(pa) : pa \in {b \in node_bootstrap : DialsSecurely(FullAddr(b))}}
    /\ player_delegates \subseteq player_bootstrap

(***************************************************************************)
(* Once the node runs, no peer gains or loses its place or its usage, and  *)
(* addresses are only added: what one published player was told is still   *)
(* known when the next is made, and a stranger never becomes a delegate.   *)
(***************************************************************************)
EntriesOnlyGrow ==
    [][pc = "running" =>
        /\ DOMAIN map' = DOMAIN map
        /\ \A p \in DOMAIN map :
              /\ map'[p].usage = map[p].usage
              /\ map[p].known_addresses \subseteq map'[p].known_addresses]_vars

(***************************************************************************)
(* "Add 'listen' addresses using p2p-circuit via our configured routers"   *)
(* (node.rs:68): each router of the configuration has one.                 *)
(***************************************************************************)
RoutersListened ==
    pc = "running" =>
        \A i \in 1 .. Len(router_peers) :
            Parses(router_peers[i]) =>
                \E c \in circuits : c[Len(c) - 1] = PeerOf(router_peers[i])
=============================================================================
