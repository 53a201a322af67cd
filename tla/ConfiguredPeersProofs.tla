----------------------- MODULE ConfiguredPeersProofs -----------------------
(***************************************************************************)
(* Theorems about ConfiguredPeers, for any peers, any two lists and any    *)
(* announcements.  That every configured peer reaches the DHT follows from *)
(* two facts that are inductive: the last address that names a peer is in  *)
(* the map, and what is in the map has been given to the DHT.              *)
(***************************************************************************)
EXTENDS ConfiguredPeers, Recursion

\* The configuration is two lists, which are read to the end before the node
\* runs, and the node stops only when the map holds no address.
Reading ==
    /\ router_peers \in Seq(Multiaddr) /\ additional_peers \in Seq(Multiaddr)
    /\ pc # "config" => read = Len(Configured)
    /\ pc = "panicked" => node_bootstrap = {}

IInv == TypeOK /\ Reading /\ LastEntryDecides /\ KadKnowsMap

LEMMA ConfiguredType ==
    ASSUME router_peers \in Seq(Multiaddr), additional_peers \in Seq(Multiaddr)
    PROVE  /\ Configured \in Seq(Multiaddr)
           /\ Len(Configured) = Len(router_peers) + Len(additional_peers)
           /\ Len(router_peers) \in Nat /\ Len(Configured) \in Nat
           /\ \A i \in 1 .. Len(Configured) : Configured[i] \in Multiaddr
BY DEF Configured

LEMMA AddrType ==
    ASSUME NEW addr \in Multiaddr, Parses(addr)
    PROVE  PeerOf(addr) \in Peers /\ AddrOf(addr) \in Multiaddr
BY DEF Parses, PeerOf, AddrOf, Multiaddr

LEMMA InitInv == Init => IInv
<1> SUFFICES ASSUME Init PROVE IInv
  OBVIOUS
<1>1. router_peers \in Seq(Multiaddr) /\ additional_peers \in Seq(Multiaddr)
  BY PeersAssumption DEF Init
<1>2. DOMAIN map = {}
  BY DEF Init
<1>3. Len(Configured) \in Nat
  BY <1>1, ConfiguredType
<1>4. TypeOK
  <2>1. map \in [DOMAIN map -> Entry]
    BY <1>2 DEF Init
  <2> QED BY <1>2, <1>3, <2>1 DEF Init, TypeOK
<1>5. Reading /\ KadKnowsMap
  BY <1>1 DEF Init, Reading, KadKnowsMap
<1>6. LastEntryDecides
  BY <1>2 DEF Init, LastEntryDecides
<1> QED BY <1>4, <1>5, <1>6 DEF IInv

\* Reading an address of either list.
LEMMA ReadInv ==
    ASSUME IInv, pc = "config", read < Len(Configured), NEW usage \in Usage, ReadAddr(usage),
           usage = IF read + 1 <= Len(router_peers) THEN "router" ELSE "bootstrap"
    PROVE  IInv'
<1> DEFINE addr == Configured[read + 1]
           p == PeerOf(addr)
<1>1. /\ map' = IF Parses(addr) THEN WithEntry(addr, usage) ELSE map
      /\ read' = read + 1
      /\ UNCHANGED <<router_peers, additional_peers, pc, kad, circuits>>
  BY DEF ReadAddr, config
<1>2. Configured' = Configured /\ Len(router_peers') = Len(router_peers)
  BY <1>1 DEF Configured
<1>3. /\ read \in Nat /\ Len(Configured) \in Nat /\ read + 1 \in 1 .. Len(Configured)
      /\ addr \in Multiaddr
  BY ConfiguredType DEF IInv, TypeOK, Reading
<1>4. Reading' /\ KadKnowsMap'
  BY <1>1, <1>2 DEF IInv, Reading, KadKnowsMap
<1>5. \A i, q : NamesPeer(i, q)' <=> NamesPeer(i, q)
  BY <1>2 DEF NamesPeer
<1>6. CASE ~ Parses(addr)
  <2>1. map' = map
    BY <1>1, <1>6
  <2>2. TypeOK'
    BY <1>1, <1>2, <1>3, <2>1 DEF IInv, TypeOK
  <2>3. \A q \in Peers : ~ NamesPeer(read + 1, q)
    BY <1>6 DEF NamesPeer
  <2>4. \A i \in 1 .. read', q \in Peers : NamesPeer(i, q)' => q \in DOMAIN map'
    BY <1>1, <1>3, <1>5, <2>1, <2>3 DEF IInv, LastEntryDecides
  <2>5. ASSUME NEW q \in DOMAIN map'
        PROVE  \E i \in 1 .. read' :
                  /\ LastNaming(i, q)'
                  /\ map'[q].usage = IF i <= Len(router_peers) THEN "router" ELSE "bootstrap"
                  /\ AddrOf(Configured[i]) \in map'[q].known_addresses
                  /\ pc = "config" => map'[q].known_addresses = {AddrOf(Configured[i])}
    <3>1. PICK i \in 1 .. read :
                  /\ LastNaming(i, q)
                  /\ map[q].usage = IF i <= Len(router_peers) THEN "router" ELSE "bootstrap"
                  /\ AddrOf(Configured[i]) \in map[q].known_addresses
                  /\ pc = "config" => map[q].known_addresses = {AddrOf(Configured[i])}
      BY <2>1 DEF IInv, LastEntryDecides
    <3>2. q \in Peers
      BY <2>1 DEF IInv, TypeOK
    <3>3. LastNaming(i, q)'
      BY <1>1, <1>3, <1>5, <2>3, <3>1, <3>2 DEF LastNaming
    <3> QED BY <1>1, <1>3, <2>1, <3>1, <3>3
  <2>6. LastEntryDecides'
    BY <1>1, <1>2, <2>4, <2>5 DEF LastEntryDecides
  <2> QED BY <1>4, <2>2, <2>6 DEF IInv
<1>7. CASE Parses(addr)
  <2>1. p \in Peers /\ AddrOf(addr) \in Multiaddr
    BY <1>3, <1>7, AddrType
  <2>2. /\ DOMAIN map' = DOMAIN map \cup {p}
        /\ map'[p] = [usage |-> usage, known_addresses |-> {AddrOf(addr)}]
        /\ \A q \in DOMAIN map \ {p} : map'[q] = map[q]
        /\ map' = [q \in DOMAIN map' |-> map'[q]]
    BY <1>1, <1>7 DEF WithEntry
  <2>3. TypeOK'
    <3>1. map'[p] \in Entry
      BY <2>1, <2>2 DEF Entry
    <3>2. DOMAIN map' \subseteq Peers /\ map' \in [DOMAIN map' -> Entry]
      BY <2>1, <2>2, <3>1 DEF IInv, TypeOK
    <3> QED BY <1>1, <1>2, <1>3, <3>2 DEF IInv, TypeOK
  <2>4. NamesPeer(read + 1, p) /\ \A q \in Peers : NamesPeer(read + 1, q) => q = p
    BY <1>7 DEF NamesPeer
  <2>5. \A i \in 1 .. read', q \in Peers : NamesPeer(i, q)' => q \in DOMAIN map'
    BY <1>1, <1>3, <1>5, <2>2, <2>4 DEF IInv, LastEntryDecides
  <2>6. ASSUME NEW q \in DOMAIN map'
        PROVE  \E i \in 1 .. read' :
                  /\ LastNaming(i, q)'
                  /\ map'[q].usage = IF i <= Len(router_peers) THEN "router" ELSE "bootstrap"
                  /\ AddrOf(Configured[i]) \in map'[q].known_addresses
                  /\ pc = "config" => map'[q].known_addresses = {AddrOf(Configured[i])}
    <3>1. CASE q = p
      <4>1. PICK i \in 1 .. read' : i = read + 1
        BY <1>1, <1>3
      <4>2. NamesPeer(i, q)'
        BY <1>5, <2>4, <3>1, <4>1
      <4>3. LastNaming(i, q)'
        BY <1>1, <1>3, <4>1, <4>2 DEF LastNaming
      <4>4. /\ map'[q].usage = IF i <= Len(router_peers) THEN "router" ELSE "bootstrap"
            /\ map'[q].known_addresses = {AddrOf(Configured[i])}
        BY <2>2, <3>1, <4>1
      <4> QED BY <4>3, <4>4
    <3>2. CASE q # p
      <4>1. q \in DOMAIN map /\ q \in Peers /\ map'[q] = map[q]
        BY <2>2, <3>2 DEF IInv, TypeOK
      <4>2. PICK i \in 1 .. read :
                  /\ LastNaming(i, q)
                  /\ map[q].usage = IF i <= Len(router_peers) THEN "router" ELSE "bootstrap"
                  /\ AddrOf(Configured[i]) \in map[q].known_addresses
                  /\ pc = "config" => map[q].known_addresses = {AddrOf(Configured[i])}
        BY <4>1 DEF IInv, LastEntryDecides
      <4>3. LastNaming(i, q)'
        BY <1>1, <1>3, <1>5, <2>4, <3>2, <4>1, <4>2 DEF LastNaming
      <4> QED BY <1>1, <1>3, <4>1, <4>2, <4>3
    <3> QED BY <3>1, <3>2
  <2>7. LastEntryDecides'
    BY <1>1, <1>2, <2>5, <2>6 DEF LastEntryDecides
  <2> QED BY <1>4, <2>3, <2>7 DEF IInv
<1> QED BY <1>6, <1>7

LEMMA StartInv == ASSUME IInv, Start PROVE IInv'
<1>1. /\ pc = "config" /\ read = Len(Configured) /\ kad' = node_bootstrap
      /\ pc' = IF node_bootstrap = {} THEN "panicked" ELSE "running"
      /\ UNCHANGED <<router_peers, additional_peers, read, map>>
  BY DEF Start, config
<1>2. Configured' = Configured /\ node_bootstrap' = node_bootstrap
  BY <1>1 DEF Configured, node_bootstrap
<1>3. node_bootstrap \subseteq Peers \X Multiaddr
  BY DEF IInv, TypeOK, node_bootstrap, Entry
<1>4. TypeOK' /\ Reading' /\ KadKnowsMap'
  BY <1>1, <1>2, <1>3 DEF IInv, TypeOK, Reading, KadKnowsMap
<1>5. LastEntryDecides'
  BY <1>1, <1>2 DEF IInv, LastEntryDecides, LastNaming, NamesPeer
<1> QED BY <1>4, <1>5 DEF IInv

\* What a step of Identify does to each entry.
LEMMA IdentifyEntries ==
    ASSUME IInv, NEW peer \in Peers, NEW addrs \in SUBSET Announced, Identify(peer, addrs)
    PROVE  /\ DOMAIN map' = DOMAIN map /\ map' \in [DOMAIN map -> Entry]
           /\ \A p \in DOMAIN map :
                 /\ map'[p].usage = map[p].usage
                 /\ map'[p].known_addresses =
                       map[p].known_addresses \cup (IF p = peer THEN addrs ELSE {})
<1>1. map' = [p \in DOMAIN map |->
                 IF p = peer THEN [map[p] EXCEPT !.known_addresses = @ \cup addrs] ELSE map[p]]
  BY DEF Identify
<1>2. addrs \subseteq Multiaddr
  BY PeersAssumption
<1>3. ASSUME NEW p \in DOMAIN map
      PROVE  /\ map'[p] \in Entry /\ map'[p].usage = map[p].usage
             /\ map'[p].known_addresses =
                   map[p].known_addresses \cup (IF p = peer THEN addrs ELSE {})
  <2>1. map[p] \in Entry
    BY DEF IInv, TypeOK
  <2> QED BY <1>1, <1>2, <2>1 DEF Entry
<1> QED BY <1>1, <1>3

LEMMA IdentifyInv ==
    ASSUME IInv, NEW peer \in Peers, NEW addrs \in SUBSET Announced, Identify(peer, addrs)
    PROVE  IInv'
<1>1. /\ pc = "running" /\ kad' = kad \cup ({peer} \X addrs)
      /\ UNCHANGED <<router_peers, additional_peers, pc, read>>
  BY DEF Identify, config
<1>2. Configured' = Configured
  BY <1>1 DEF Configured
<1>3. /\ DOMAIN map' = DOMAIN map /\ map' \in [DOMAIN map -> Entry]
      /\ \A p \in DOMAIN map :
            /\ map'[p].usage = map[p].usage
            /\ map'[p].known_addresses =
                  map[p].known_addresses \cup (IF p = peer THEN addrs ELSE {})
  BY IdentifyEntries
<1>4. TypeOK'
  BY <1>1, <1>2, <1>3, PeersAssumption DEF IInv, TypeOK
<1>5. Reading'
  BY <1>1, <1>2 DEF IInv, Reading
<1>6. KadKnowsMap'
  <2> SUFFICES ASSUME NEW p \in DOMAIN map', NEW x \in map'[p].known_addresses
               PROVE  <<p, x>> \in kad'
    BY DEF KadKnowsMap, node_bootstrap
  <2>1. CASE x \in map[p].known_addresses
    BY <1>1, <1>3, <2>1 DEF IInv, KadKnowsMap, node_bootstrap
  <2>2. CASE x \notin map[p].known_addresses
    BY <1>1, <1>3, <2>2
  <2> QED BY <2>1, <2>2
<1>7. LastEntryDecides'
  BY <1>1, <1>2, <1>3 DEF IInv, LastEntryDecides, LastNaming, NamesPeer
<1> QED BY <1>4, <1>5, <1>6, <1>7 DEF IInv

LEMMA StepInv == IInv /\ [Next]_vars => IInv'
<1> SUFFICES ASSUME IInv, [Next]_vars PROVE IInv'
  OBVIOUS
<1>1. Len(router_peers) <= Len(Configured) /\ Len(router_peers) \in Nat /\ read \in Nat
      /\ Len(Configured) \in Nat
  BY ConfiguredType DEF IInv, TypeOK, Reading
<1>2. CASE ReadRouter
  BY <1>1, <1>2, ReadInv DEF ReadRouter, Usage
<1>3. CASE ReadAdditional
  BY <1>1, <1>3, ReadInv DEF ReadAdditional, Usage
<1>4. CASE Start
  BY <1>4, StartInv
<1>5. ASSUME NEW peer \in Peers, NEW addrs \in SUBSET Announced, Identify(peer, addrs)
      PROVE  IInv'
  BY <1>5, IdentifyInv
<1>6. CASE UNCHANGED vars
  <2>1. Configured' = Configured /\ node_bootstrap' = node_bootstrap
    BY <1>6 DEF vars, config, Configured, node_bootstrap
  <2>2. TypeOK' /\ Reading' /\ KadKnowsMap'
    BY <1>6, <2>1 DEF vars, config, IInv, TypeOK, Reading, KadKnowsMap
  <2>3. LastEntryDecides'
    BY <1>6, <2>1 DEF vars, config, IInv, LastEntryDecides, LastNaming, NamesPeer
  <2> QED BY <2>2, <2>3 DEF IInv
<1> QED BY <1>2, <1>3, <1>4, <1>5, <1>6 DEF Next

(***************************************************************************)
(* The inductive invariant holds in every state.                           *)
(***************************************************************************)
THEOREM Invariance == Spec => []IInv
BY InitInv, StepInv, PTL DEF Spec

(***************************************************************************)
(* The map holds configured peers and addresses, whatever the lists are    *)
(* made of (peers.rs:10-41).                                               *)
(***************************************************************************)
THEOREM TypeCorrect == Spec => []TypeOK
BY Invariance, PTL DEF IInv

(***************************************************************************)
(* The DHT was given every address in the map (node.rs:64-66,              *)
(* behaviour.rs:62-70).                                                    *)
(***************************************************************************)
THEOREM KadKnowsMapCorrect == Spec => []KadKnowsMap
BY Invariance, PTL DEF IInv

(***************************************************************************)
(* The last address that names a peer decides about it (peers.rs:15-35).   *)
(***************************************************************************)
THEOREM LastEntryDecidesCorrect == Spec => []LastEntryDecides
BY Invariance, PTL DEF IInv

LEMMA InvBootstraps == IInv => AllPeersBootstrap
<1> SUFFICES ASSUME IInv, NEW i \in 1 .. Len(Configured), NEW p \in Peers, NamesPeer(i, p)
             PROVE  /\ pc # "panicked"
                    /\ pc = "running" =>
                          \E j \in 1 .. Len(Configured) :
                              NamesPeer(j, p) /\ <<p, AddrOf(Configured[j])>> \in kad
  BY DEF AllPeersBootstrap
<1>1. CASE pc = "config"
  BY <1>1
<1>2. CASE pc # "config"
  <2>1. read = Len(Configured)
    BY <1>2 DEF IInv, Reading
  <2>2. p \in DOMAIN map
    BY <2>1 DEF IInv, LastEntryDecides
  <2>3. PICK j \in 1 .. read :
           NamesPeer(j, p) /\ AddrOf(Configured[j]) \in map[p].known_addresses
    BY <2>2 DEF IInv, LastEntryDecides, LastNaming
  <2>4. <<p, AddrOf(Configured[j])>> \in node_bootstrap
    BY <2>2, <2>3 DEF node_bootstrap
  <2> QED BY <2>1, <2>3, <2>4 DEF IInv, Reading, KadKnowsMap
<1> QED BY <1>1, <1>2

(***************************************************************************)
(* Every peer a configured address names gets used to bootstrap the DHT,   *)
(* and the node starts if there is one (node.rs:63-75).                    *)
(***************************************************************************)
THEOREM AllPeersBootstrapCorrect == Spec => []AllPeersBootstrap
BY Invariance, InvBootstraps, PTL

LEMMA StepGrows ==
    ASSUME IInv, [Next]_vars, pc = "running"
    PROVE  /\ DOMAIN map' = DOMAIN map
           /\ \A p \in DOMAIN map :
                 /\ map'[p].usage = map[p].usage
                 /\ map[p].known_addresses \subseteq map'[p].known_addresses
<1>1. ASSUME NEW peer \in Peers, NEW addrs \in SUBSET Announced, Identify(peer, addrs)
      PROVE  /\ DOMAIN map' = DOMAIN map
             /\ \A p \in DOMAIN map :
                   /\ map'[p].usage = map[p].usage
                   /\ map[p].known_addresses \subseteq map'[p].known_addresses
  BY <1>1, IdentifyEntries
<1>2. CASE UNCHANGED vars
  BY <1>2 DEF vars
<1> QED BY <1>1, <1>2 DEF Next, ReadRouter, ReadAdditional, Start

(***************************************************************************)
(* Once the node runs, entries only gain addresses (peers.rs:37-41).       *)
(***************************************************************************)
THEOREM EntriesOnlyGrowCorrect == Spec => EntriesOnlyGrow
<1>1. IInv /\ [Next]_vars =>
        [pc = "running" =>
          /\ DOMAIN map' = DOMAIN map
          /\ \A p \in DOMAIN map :
                /\ map'[p].usage = map[p].usage
                /\ map[p].known_addresses \subseteq map'[p].known_addresses]_vars
  BY StepGrows
<1> QED BY <1>1, Invariance, PTL DEF Spec, EntriesOnlyGrow
-----------------------------------------------------------------------------
(***************************************************************************)
(* The loop over an address agrees with the set of protocols that come     *)
(* before its first peer or relay, protocol by protocol.                   *)
(***************************************************************************)
Relays == Peers \cup {BadHash, "circuit"}
Refused == {"http", "memory", "unix", "ws"}
Scans == [result : BOOLEAN, scanning : BOOLEAN]
Before == [result |-> FALSE, scanning |-> TRUE]

\* The protocols met by a dialler in the first k of addr.
Met(addr, k) == {addr[i] : i \in {j \in 1 .. k : \A m \in 1 .. j : addr[m] \notin Relays}}

Agrees(s, addr, k) ==
    /\ s \in Scans
    /\ s.result <=> "wss" \in Met(addr, k) /\ Met(addr, k) \cap Refused = {}
    /\ s.scanning <=> /\ Met(addr, k) \cap Refused = {}
                      /\ \A m \in 1 .. k : addr[m] \notin Relays

LEMMA MetNext ==
    ASSUME NEW addr, NEW k \in Nat
    PROVE  Met(addr, k + 1) =
              IF \A m \in 1 .. k + 1 : addr[m] \notin Relays
              THEN Met(addr, k) \cup {addr[k + 1]} ELSE Met(addr, k)
<1>1. 1 .. k + 1 = (1 .. k) \cup {k + 1}
  OBVIOUS
<1> DEFINE Open(j) == \A m \in 1 .. j : addr[m] \notin Relays
<1>2. {j \in 1 .. k + 1 : Open(j)} =
         {j \in 1 .. k : Open(j)} \cup (IF Open(k + 1) THEN {k + 1} ELSE {})
  <2> HIDE DEF Open
  <2> QED BY <1>1
<1>3. /\ Met(addr, k + 1) = {addr[i] : i \in {j \in 1 .. k + 1 : Open(j)}}
      /\ Met(addr, k) = {addr[i] : i \in {j \in 1 .. k : Open(j)}}
  BY DEF Met
<1>4. CASE Open(k + 1)
  <2>1. {j \in 1 .. k + 1 : Open(j)} = {j \in 1 .. k : Open(j)} \cup {k + 1}
    BY <1>2, <1>4
  <2> HIDE DEF Open
  <2>2. Met(addr, k + 1) = Met(addr, k) \cup {addr[k + 1]}
    BY <1>3, <2>1
  <2> QED BY <1>4, <2>2 DEF Open
<1>5. CASE ~ Open(k + 1)
  <2>1. {j \in 1 .. k + 1 : Open(j)} = {j \in 1 .. k : Open(j)}
    BY <1>2, <1>5
  <2> HIDE DEF Open
  <2>2. Met(addr, k + 1) = Met(addr, k)
    BY <1>3, <2>1
  <2> QED BY <1>5, <2>2 DEF Open
<1> QED BY <1>4, <1>5

LEMMA ScanAgrees ==
    ASSUME NEW addr, NEW k \in Nat, NEW s, Agrees(s, addr, k)
    PROVE  Agrees(Scan(s, addr[k + 1]), addr, k + 1)
<1> DEFINE p == addr[k + 1]
           t == Scan(s, p)
           met == Met(addr, k)
           open == \A m \in 1 .. k : addr[m] \notin Relays
<1>1. /\ (\A m \in 1 .. k + 1 : addr[m] \notin Relays) <=> open /\ p \notin Relays
      /\ Met(addr, k + 1) = IF open /\ p \notin Relays THEN met \cup {p} ELSE met
  <2>1. 1 .. k + 1 = (1 .. k) \cup {k + 1}
    OBVIOUS
  <2>2. (\A m \in 1 .. k + 1 : addr[m] \notin Relays) <=> open /\ p \notin Relays
    BY <2>1
  <2> QED BY <2>2, MetNext
<1>2. /\ s \in Scans
      /\ s.result <=> "wss" \in met /\ met \cap Refused = {}
      /\ s.scanning <=> met \cap Refused = {} /\ open
  BY DEF Agrees
<1>3. /\ Relays \cap Refused = {} /\ "wss" \notin Relays /\ "wss" \notin Refused
  BY PeersAssumption DEF Relays, Refused, Names
<1> SUFFICES /\ t \in Scans
             /\ t.result <=> "wss" \in Met(addr, k + 1) /\ Met(addr, k + 1) \cap Refused = {}
             /\ t.scanning <=> Met(addr, k + 1) \cap Refused = {} /\ open /\ p \notin Relays
  BY <1>1 DEF Agrees
<1> HIDE DEF open, met
<1>4. CASE ~ s.scanning
  <2>1. t = s
    BY <1>4 DEF Scan
  <2> HIDE DEF t
  <2>2. CASE met \cap Refused # {}
    BY <1>1, <1>2, <1>4, <2>1, <2>2
  <2>3. CASE ~ open
    BY <1>1, <1>2, <1>4, <2>1, <2>3
  <2> QED BY <1>2, <1>4, <2>2, <2>3
<1>5. CASE s.scanning /\ p \in Refused
  <2>1. t = [result |-> FALSE, scanning |-> FALSE]
    BY <1>3, <1>5 DEF Scan, Refused, Relays
  <2>2. p \in Met(addr, k + 1)
    BY <1>1, <1>2, <1>3, <1>5
  <2> HIDE DEF t, p
  <2> QED BY <1>5, <2>1, <2>2 DEF Scans
<1>6. CASE s.scanning /\ p \in Relays
  <2>1. t = [s EXCEPT !.scanning = FALSE]
    BY <1>3, <1>6 DEF Scan, Refused, Relays
  <2> HIDE DEF t, p
  <2> QED BY <1>1, <1>2, <1>6, <2>1 DEF Scans
<1>7. CASE s.scanning /\ p = "wss"
  <2>1. t = [s EXCEPT !.result = TRUE]
    BY <1>3, <1>7 DEF Scan, Refused, Relays
  <2> HIDE DEF t, p
  <2> QED BY <1>1, <1>2, <1>3, <1>7, <2>1 DEF Scans
<1>8. CASE s.scanning /\ p \notin Refused \cup Relays /\ p # "wss"
  <2>1. t = s
    BY <1>8 DEF Scan, Refused, Relays
  <2> HIDE DEF t, p
  <2> QED BY <1>1, <1>2, <1>3, <1>8, <2>1
<1> QED BY <1>4, <1>5, <1>6, <1>7, <1>8

\* The library folds the positions of addr from the last one down.
LEMMA IsWssDialsSecurely ==
    ASSUME NEW addr \in Multiaddr PROVE IsWss(addr) <=> DialsSecurely(addr)
<1> DEFINE n == Len(addr)
           D == 1 .. n
           choice == [t \in SUBSET D |-> Max(t)]
           step == [i \in D |-> [s \in Scans |-> Scan(s, addr[i])]]
           Is(f) == f = [t \in SUBSET D |->
                           IF t = {} THEN Before
                           ELSE LET i == Max(t) IN Scan(f[t \ {i}], addr[i])]
<1>1. n \in Nat /\ D = DOMAIN addr
  BY DEF Multiaddr
<1>2. IsWss(addr) = (CHOOSE f : Is(f))[D].result
  BY <1>1 DEF IsWss, FoldLeft, MapThenFoldSet, Before
<1>3. \A t \in SUBSET D : choice[t] = Max(t)
  OBVIOUS
<1>4. \A i \in D, s \in Scans : step[i][s] = Scan(s, addr[i])
  OBVIOUS
<1>5. \A i \in D, s \in Scans : Scan(s, addr[i]) \in Scans
  BY DEF Scan, Scans
<1>6. Before \in Scans
  BY DEF Before, Scans
<1> HIDE DEF n
<1>7. ASSUME NEW t \in SUBSET D, t # {} PROVE Max(t) \in t
  <2>1. t \in SUBSET (0 .. n)
    BY <1>1
  <2> QED BY <1>1, <1>7, <2>1, Greatest
<1>8. ASSUME NEW k \in D PROVE Max(1 .. k) = k /\ (1 .. k) \ {k} = 1 .. k - 1
                              /\ 1 .. k \in SUBSET D /\ 1 .. k # {}
  <2> DEFINE t == 1 .. k
  <2>1. t \in SUBSET (0 .. n) /\ t # {} /\ k \in t /\ t \in SUBSET D
    BY <1>1
  <2>2. \A y \in t : y <= k
    BY <1>1
  <2>3. t \ {k} = 1 .. k - 1
    BY <1>1
  <2> HIDE DEF t
  <2>4. Max(t) = k
    BY <1>1, <2>1, <2>2, Greatest
  <2> QED BY <2>1, <2>3, <2>4 DEF t
<1> HIDE DEF D, choice, step
<1>9. \E g : Is(g)
  <2>1. IsFiniteSet(D)
    BY <1>1, FS_Interval DEF D
  <2>2. ChoosesIn(choice, D)
    BY <1>3, <1>7 DEF ChoosesIn
  <2>3. StepsIn(step, D, Scans)
    BY <1>4, <1>5 DEF StepsIn
  <2>4. PICK g : FoldsBy(g, Scans, Before, choice, step, D)
    BY <1>6, <2>1, <2>2, <2>3, Foldable
  <2>5. ASSUME NEW t \in SUBSET D
        PROVE  g[t] = IF t = {} THEN Before ELSE Scan(g[t \ {Max(t)}], addr[Max(t)])
    <3>1. CASE t = {}
      BY <2>4, <3>1 DEF FoldsBy
    <3>2. CASE t # {}
      <4>1. choice[t] = Max(t) /\ Max(t) \in D /\ t \ {Max(t)} \in SUBSET D
        BY <1>3, <1>7, <3>2
      <4>2. g[t \ {Max(t)}] \in Scans /\ g[t] = step[Max(t)][g[t \ {Max(t)}]]
        BY <2>4, <3>2, <4>1 DEF FoldsBy
      <4> QED BY <1>4, <3>2, <4>1, <4>2
    <3> QED BY <3>1, <3>2
  <2>6. g = [t \in SUBSET D |-> g[t]]
    BY <2>4 DEF FoldsBy
  <2>7. Is(g)
    BY <2>5, <2>6
  <2> HIDE DEF Is
  <2> QED BY <2>7
<1>10. PICK f : Is(f) /\ IsWss(addr) = f[D].result
  <2> HIDE DEF Is
  <2> QED BY <1>2, <1>9
<1>11. /\ f[{}] = Before
       /\ \A k \in D : f[1 .. k] = Scan(f[1 .. k - 1], addr[k])
  <2>1. \A t \in SUBSET D : f[t] = IF t = {} THEN Before ELSE Scan(f[t \ {Max(t)}], addr[Max(t)])
    BY <1>10
  <2> QED BY <1>8, <2>1
<1> DEFINE A == {k \in Int : Agrees(f[1 .. k], addr, k)}
<1>12. 0 \in A
  <2>1. 1 .. 0 = {} /\ Met(addr, 0) = {}
    BY DEF Met
  <2>2. Agrees(Before, addr, 0)
    BY <1>6, <2>1 DEF Agrees, Before
  <2> QED BY <1>11, <2>1, <2>2
<1>13. \A k \in 0 .. n - 1 : k \in A => k + 1 \in A
  <2> SUFFICES ASSUME NEW k \in 0 .. n - 1, Agrees(f[1 .. k], addr, k)
               PROVE  Agrees(f[1 .. k + 1], addr, k + 1)
    BY <1>1
  <2>1. k + 1 \in D /\ k + 1 - 1 = k /\ k \in Nat
    BY <1>1 DEF D
  <2>2. f[1 .. k + 1] = Scan(f[1 .. k], addr[k + 1])
    BY <1>11, <2>1
  <2> QED BY <2>1, <2>2, ScanAgrees
<1>14. n \in A
  <2>1. 0 \in Int /\ n \in Int /\ n \in 0 .. n
    BY <1>1
  <2> HIDE DEF A
  <2> QED BY <1>12, <1>13, <2>1, Upward
<1>15. Met(addr, n) = Transport(addr)
  BY DEF Met, Transport, Relays, n
<1> QED BY <1>10, <1>14, <1>15 DEF Agrees, D, DialsSecurely, Refused

LEMMA InvDials == IInv => PlayersDialSecurely
<1> SUFFICES ASSUME IInv PROVE PlayersDialSecurely
  OBVIOUS
<1>1. ASSUME NEW pa \in node_bootstrap
      PROVE  FullAddr(pa) \in Multiaddr
  <2>1. PICK p \in DOMAIN map : pa \in {p} \X map[p].known_addresses
    BY DEF node_bootstrap
  <2>2. p \in Peers /\ map[p].known_addresses \subseteq Multiaddr
    BY DEF IInv, TypeOK, Entry
  <2>3. pa[1] \in Protocol /\ pa[2] \in Seq(Protocol)
    BY <2>1, <2>2 DEF Protocol, Multiaddr
  <2> QED BY <2>3 DEF FullAddr, Multiaddr
<1>2. \A pa \in node_bootstrap : IsWss(FullAddr(pa)) <=> DialsSecurely(FullAddr(pa))
  BY <1>1, IsWssDialsSecurely
<1> QED BY <1>2 DEF PlayersDialSecurely, player_bootstrap, player_delegates

(***************************************************************************)
(* For addresses of any length, the loop of p2p_wss_addresses              *)
(* (peers.rs:161-187) hands browsers exactly the addresses they may dial.  *)
(***************************************************************************)
THEOREM PlayersDialSecurelyCorrect == Spec => []PlayersDialSecurely
BY Invariance, InvDials, PTL
=============================================================================
