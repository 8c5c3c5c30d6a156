---------------------------- MODULE PeerProtocol ----------------------------
(***************************************************************************)
(* The messages peers exchange (struct PeerProtocol) as far as the handler *)
(* tells them apart: which flag bits are set, the hashId, and the node     *)
(* (id, ip and port always travel together and name one peer).             *)
(*                                                                         *)
(* join, notify and stabilize build their message in a local struct of     *)
(* which they assign only some members; the other flags and the hashId are *)
(* whatever the stack held.  StackFlags and StackIds are those leftovers.  *)
(***************************************************************************)
EXTENDS IdRange

CONSTANTS
  Peers,       \* the processes running peer.c
  Id,          \* Id[p]: the node id given on p's command line
  StackFlags,  \* the sets of flags an unassigned struct may show
  StackIds     \* the hashIds an unassigned struct may show

Flags == {"finger", "fack", "join", "notify", "stabilize", "reply", "lookup"}

PeerMessage == [flags : SUBSET Flags, hashId : byte16, node : Peers]

ASSUME ProtocolAssumption ==
  /\ Id \in [Peers -> byte16]
  /\ StackFlags \subseteq SUBSET Flags
  /\ StackIds \subseteq byte16

(* The one flag assigned, the node assigned, everything else left over.    *)
Unassigned(flag, node) ==
  [flags : {{flag} \union left : left \in StackFlags}, hashId : StackIds, node : {node}]

join(new_peer_info)        == Unassigned("join", new_peer_info)
notify(next_peer_info)     == Unassigned("notify", next_peer_info)
stabilize(this_peer_info)  == Unassigned("stabilize", this_peer_info)

(* send_found_lookup reuses the decoded request: reply set, lookup cleared,*)
(* hashId kept, the node replaced by the responsible one.                  *)
found_lookup(data, next) ==
  [data EXCEPT !.flags = (@ \union {"reply"}) \ {"lookup"}, !.node = next]

(* The else-if chain of receive_handler: the first flag in this order.     *)
Precedence == <<"finger", "fack", "join", "notify", "stabilize", "reply", "lookup">>

Dispatches(m, flag) ==
  \E i \in DOMAIN Precedence :
    /\ Precedence[i] = flag
    /\ flag \in m.flags
    /\ \A j \in 1 .. i - 1 : Precedence[j] \notin m.flags

id_is_between(hash_id, this, prev) == in_range(hash_id, Id[this], Id[prev])

==============================================================================
