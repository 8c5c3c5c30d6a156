------------------------------ MODULE PeerCodec ------------------------------
(***************************************************************************)
(* One message of peers at a time, byte by byte, on its way through a      *)
(* settled ring: built by encode_peerProtocol, read and judged where it    *)
(* arrives, forwarded as it came, a lookup answered.  What the handler     *)
(* does with it otherwise is in Peer, which moves messages as records      *)
(* (PeerProtocol); here those records are compared with what is decoded.   *)
(*                                                                         *)
(* An integer of a struct is the sequence of its bytes in the memory of a  *)
(* little-endian host, so htons and htonl reverse it and a wider store     *)
(* appends zeros.  The header byte, and what is combined into it, is the   *)
(* set of its bits.                                                        *)
(***************************************************************************)
EXTENDS HashJen, IdRange

CONSTANTS
  Nodes,    \* the peers: [id, ip, port]
  Ring,     \* the next peer of each
  Stack,    \* what the flags of an unassigned struct may hold, the bits of each
  Ids,      \* the values a hashId may hold
  Heap,     \* the bytes that may follow a received message
  Keys,     \* the keys that others look up
  Behind    \* the bytes that may lie behind a key

byte8 == 0 .. 255

Flags == {"finger", "fack", "join", "notify", "stabilize", "reply", "lookup"}

Bit == [control |-> {0}, finger |-> {1}, fack |-> {2}, join |-> {3}, notify |-> {4},
        stabilize |-> {5}, reply |-> {6}, lookup |-> {7}]

ASSUME NodesAssumption ==
  /\ Nodes \subseteq [id : [1 .. 2 -> byte8], ip : [1 .. 4 -> byte8], port : [1 .. 2 -> byte8]]
  /\ Ring \in [Nodes -> Nodes] /\ \A n \in Nodes : \E p \in Nodes : Ring[p] = n

ASSUME BytesAssumption ==
  /\ Stack \subseteq [DOMAIN Bit -> SUBSET (0 .. 7)] /\ Heap \subseteq byte8
  /\ Ids \subseteq byte16 /\ Keys \union Behind \subseteq Seq(byte8)

(* The hash of a key in a request, where b lies behind it.                 *)
KeyHash(key, b) == get_hash_value(key \o b, Len(key))

(* get_hash_value returns a byte16.                                        *)
ASSUME HashAssumption == \A key \in Keys, b \in Behind : KeyHash(key, b) \in byte16

VARIABLES
  wire,    \* the bytes of the message there is
  at,      \* the peer it is for
  data,    \* the struct that peer has decoded
  origin   \* what it was built for: flag, node, hashId, and the key looked up

vars == <<wire, at, data, origin>>

None == <<>>

(* The number the bytes of a byte16 stand for, and the reverse.            *)
Value(bytes) == bytes[1] + 256 * bytes[2]
Bytes(n) == <<n % 256, n \div 256>>

Messages == INSTANCE PeerProtocol WITH
  Peers <- Nodes, Id <- [n \in Nodes |-> Value(n.id)],
  StackFlags <- SUBSET Flags, StackIds <- byte16

-----------------------------------------------------------------------------
(* The codec.                                                              *)

(* Offsets of hashId, nodeId, nodeIp and nodePort, from 1.                 *)
HashAt == 2
IdAt   == 4
IpAt   == 6
PortAt == 10

htons(w) == <<w[2], w[1]>>
htonl(w) == <<w[4], w[3], w[2], w[1]>>

(* The bits any of the members has, whatever bits these are.               *)
Combined(d) == UNION {d.flags[f] : f \in DOMAIN Bit}

Flagged(header) == [f \in DOMAIN Bit |-> header \intersect Bit[f]]

(* The members are combined as they are, and the integers lie one after    *)
(* the other.  The port is stored as a byte32: the two zeros it is widened *)
(* by fall behind the eleven bytes of peerProtocolCalculateSize.           *)
encode_peerProtocol(d) ==
  LET hash == htons(d.hashId)
      id   == htons(d.nodeId)
      ip   == htonl(d.nodeIp)
      port == htons(d.nodePort)
  IN <<Combined(d), hash[1], hash[2], id[1], id[2], ip[1], ip[2], ip[3], ip[4], port[1], port[2]>>

(* Deviation: the port is read as the byte32 it is stored as.              *)
decode_peerProtocol_ntohl_port(msg, beyond) ==
  LET B(i)  == IF i <= Len(msg) THEN msg[i] ELSE beyond
      At(i) == <<B(i), B(i + 1), B(i + 2), B(i + 3)>>
  IN [flags |-> Flagged(msg[1]), hashId |-> htons(At(HashAt)), nodeId |-> htons(At(IdAt)),
      nodeIp |-> htonl(At(IpAt)), nodePort |-> SubSeq(htonl(At(PortAt)), 1, 2)]

(* Four bytes are read for the port, too, and htons takes the lower two.   *)
decode_peerProtocol(msg, beyond) ==
  LET B(i)  == IF i <= Len(msg) THEN msg[i] ELSE beyond
      At(i) == <<B(i), B(i + 1), B(i + 2), B(i + 3)>>
  IN [flags |-> Flagged(msg[1]), hashId |-> htons(At(HashAt)), nodeId |-> htons(At(IdAt)),
      nodeIp |-> htonl(At(IpAt)), nodePort |-> htons(At(PortAt))]

isPeerProtocol(msg) == msg[1] \intersect Bit["control"] # {}

-----------------------------------------------------------------------------
(* The senders.                                                            *)

(* join, notify, stabilize: a local struct, with one flag and the control  *)
(* bit assigned.                                                           *)
Struct_without_control(flag, node, stack, hashId) ==
  [flags |-> [stack EXCEPT ![flag] = Bit[flag]], hashId |-> Bytes(hashId),
   nodeId |-> node.id, nodeIp |-> node.ip, nodePort |-> node.port]

Struct(flag, node, stack, hashId) ==
  [flags |-> [stack EXCEPT ![flag] = Bit[flag], !["control"] = Bit["control"]],
   hashId |-> Bytes(hashId), nodeId |-> node.id, nodeIp |-> node.ip, nodePort |-> node.port]

(* Deviation: lookup stays set.                                            *)
send_found_lookup_keeps_lookup(d, next) ==
  [flags |-> [d.flags EXCEPT !["control"] = Bit["control"], !["reply"] = Bit["reply"]],
   hashId |-> d.hashId, nodeId |-> next.id, nodeIp |-> next.ip, nodePort |-> next.port]

send_found_lookup(d, next) ==
  [flags |-> [d.flags EXCEPT !["control"] = Bit["control"], !["reply"] = Bit["reply"],
                             !["lookup"] = {}],
   hashId |-> d.hashId, nodeId |-> next.id, nodeIp |-> next.ip, nodePort |-> next.port]

Init == wire = None /\ at = None /\ data = None /\ origin = None

Send(d, to) ==
  /\ wire' = encode_peerProtocol(d)
  /\ at' = to

Clean == [f \in DOMAIN Bit |-> {}]

SendNew ==
  /\ wire = None
  /\ \E flag \in {"join", "notify", "stabilize"}, node \in Nodes, to \in Nodes,
        stack \in Stack, hashId \in Ids :
       /\ Send(Struct(flag, node, stack, hashId), to)
       /\ origin' = [flag |-> flag, node |-> node, hashId |-> hashId, key |-> None]
  /\ UNCHANGED data

(* Lookups come from other implementations and from sr.py, for an id or    *)
(* for the hash of a key.                                                  *)
SendLookup(node, to, hashId, key) ==
  /\ Send(Struct("lookup", node, Clean, hashId), to)
  /\ origin' = [flag |-> "lookup", node |-> node, hashId |-> hashId, key |-> key]

Lookup ==
  /\ wire = None
  /\ \E node \in Nodes, to \in Nodes :
       \/ \E hashId \in Ids : SendLookup(node, to, hashId, None)
       \/ \E key \in Keys, b \in Behind :
            SendLookup(node, to, KeyHash(key, b), key)
  /\ UNCHANGED data

-----------------------------------------------------------------------------
(* receive_handler.                                                        *)

NodeOf(d) == [id |-> d.nodeId, ip |-> d.nodeIp, port |-> d.nodePort]

AsMessage(d) ==
  [flags |-> {f \in Flags : d.flags[f] # {}}, hashId |-> Value(d.hashId), node |-> NodeOf(d)]

Receive ==
  /\ wire # None
  /\ data = None
  /\ \E beyond \in Heap : data' = decode_peerProtocol(wire, beyond)
  /\ UNCHANGED <<wire, at, origin>>

Handles(flag) == data # None /\ Messages!Dispatches(AsMessage(data), flag)

Previous == CHOOSE p \in Nodes : Ring[p] = at

(* A join is this peer's, a lookup the next peer's.                        *)
Joins == Handles("join") /\ Messages!id_is_between(Value(data.hashId), at, Previous)

(* Deviation: the peer that is responsible answers itself.                 *)
Answers_itself ==
  Handles("lookup") /\ Messages!id_is_between(Value(data.hashId), at, Previous)

Answers == Handles("lookup") /\ Messages!id_is_between(Value(data.hashId), Ring[at], at)

(* Deviation: a message that has come back to the peer it names is dropped.*)
Forwards_abroad ==
  /\ (Handles("join") /\ ~ Joins) \/ (Handles("lookup") /\ ~ Answers)
  /\ NodeOf(data) # at

Forwards == (Handles("join") /\ ~ Joins) \/ (Handles("lookup") /\ ~ Answers)

(* The bytes go on as they came.                                           *)
Redirect ==
  /\ Forwards
  /\ at' = Ring[at]
  /\ data' = None
  /\ UNCHANGED <<wire, origin>>

AnswerLookup ==
  /\ Answers
  /\ Send(send_found_lookup(data, Ring[at]), Ring[at])
  /\ origin' = [origin EXCEPT !.flag = "reply", !.node = Ring[at]]
  /\ data' = None

(* Every other message ends here.                                          *)
Done ==
  /\ data # None /\ ~ Forwards /\ ~ Answers
  /\ wire' = None /\ at' = None /\ data' = None /\ origin' = None

receive_handler == Receive \/ Redirect \/ AnswerLookup \/ Done

Next == SendNew \/ Lookup \/ receive_handler

(* A peer's thread goes on with the message it has got.                    *)
Spec == Init /\ [][Next]_vars /\ WF_vars(receive_handler)

-----------------------------------------------------------------------------
(* Properties.                                                             *)

(* What a receiver decodes, after any number of redirects, is a message    *)
(* PeerProtocol says the sender may send: no id, address or port is        *)
(* swapped, mixed or read from the bytes behind the message                *)
(* (data_helper.c:33-36, 53-57).                                           *)
ReadsAsSent ==
  data # None =>
    /\ AsMessage(data) \in Messages!Unassigned(origin.flag, origin.node)
    /\ Value(data.hashId) = origin.hashId

(* However many leftovers its header has, a peer's message is never taken  *)
(* for a client's request, whose key would be read from it (peer.c:93).    *)
TakenForPeer == wire # None => isPeerProtocol(wire)

(* id_is_between, on the ids and hashes that were decoded, agrees with the *)
(* Chord interval ]prev, this] except at the upper end and on intervals    *)
(* that wrap (extended_math.h:14).                                         *)
InteriorOnly ==
  data # None =>
    \A this, prev \in Nodes :
      Messages!CoversInteriorOnly(Value(data.hashId), Value(this.id), Value(prev.id))

(* The id a key is looked up by does not depend on what lies behind the    *)
(* key in the request it came in, in particular not on the value of a SET  *)
(* (uthash.h:687-697 reads by length): a GET of the key finds the peer     *)
(* the SET went to.                                                        *)
ReadsKeyOnly ==
  wire # None /\ origin.key # None =>
    \A b \in Behind : origin.hashId = KeyHash(origin.key, b)

(* Every byte of a key counts, at the ends of blocks too (uthash.h:669-699):*)
(* changing one gives another hash.                                        *)
EveryByteCounts ==
  wire # None /\ origin.key # None =>
    LET key == origin.key
        Hashed(k) == HASH_JEN(k \o CHOOSE b \in Behind : TRUE, Len(key))
    IN \A i \in DOMAIN key : Hashed([key EXCEPT ![i] = (@ + 1) % 256]) # Hashed(key)

(* A found lookup, encoded and decoded, is what PeerProtocol says it is:   *)
(* the request with the responsible node, reply set and lookup cleared.    *)
FoundLookup ==
  [][AnswerLookup =>
       \A beyond \in Heap :
         AsMessage(decode_peerProtocol(wire', beyond))
           = Messages!found_lookup(AsMessage(data), Ring[at])]_vars

Responsible(n) ==
  \E p \in Nodes : Ring[p] = n /\ Messages!id_is_between(origin.hashId, n, p)

(* A lookup for an id of some peer's interval, wherever it enters the      *)
(* ring, reaches the peer before that one and is answered with a reply     *)
(* naming the responsible peer, sent to it (peer.c:205-208).               *)
LookupAnswered ==
  \A n \in Nodes :
    (wire # None /\ origin.flag = "lookup" /\ Responsible(n))
      ~> (origin # None /\ origin.flag = "reply" /\ at = n /\ origin.node = n /\ Responsible(n))

(* A lookup for an id that no interval has is passed on and on             *)
(* (peer.c:209-213): nothing counts its hops and no peer takes it.         *)
StraysCirculate ==
  [][wire # None /\ origin.flag = "lookup" /\ ~ (\E n \in Nodes : Responsible(n))
       => UNCHANGED <<wire, origin>>]_vars

==============================================================================
