------------------------------ MODULE MCPeers ------------------------------
(***************************************************************************)
(* A small instance of ConfiguredPeers: three peers, of which a            *)
(* configuration names none to two, and lists of up to two addresses: with *)
(* and without wss, with a bad hash, and without a peer.  Peers announce   *)
(* plain, refused and relayed addresses.                                   *)
(***************************************************************************)
EXTENDS ConfiguredPeers, TLC

CONSTANTS a, b, c

MCPeers == {a, b, c}
Addresses == {<<"ip4", "wss", a>>, <<"ip4", "tcp", a>>, <<"ip4", "wss", b>>,
              <<"ip4", BadHash>>, <<"ip4", "wss">>}
MCLists == {<<>>} \cup {<<x>> : x \in Addresses}
           \cup {<<x, y>> : x \in Addresses, y \in Addresses}
MCAnnounced == {<<"wss", "ws">>, <<"wss", b, "circuit", "ws">>, <<"tcp", b, "circuit", "wss">>}
=============================================================================
