---------------------------- MODULE PeerCodecProofs ----------------------------
(***************************************************************************)
(* That a message of peers is read as it was sent, for any peers, ids,     *)
(* leftovers on the stack and bytes behind the message, and that a key is  *)
(* looked up by its own bytes alone.                                       *)
(***************************************************************************)
EXTENDS PeerCodec, SequenceTheorems, IdRangeProofs

-----------------------------------------------------------------------------
(* Messages as bytes.                                                      *)

Eleven(a, b, c, d, e, f, g, h, i, j, k) == <<a, b, c, d, e, f, g, h, i, j, k>>

(* What is sent of a struct that names a node: eleven bytes.               *)
Laid(header, hashId, node) ==
  <<header, hashId \div 256, hashId % 256, node.id[2], node.id[1],
    node.ip[4], node.ip[3], node.ip[2], node.ip[1], node.port[2], node.port[1]>>

(* A struct that names a node, and what is read of those bytes.            *)
Naming(flags, hashId, node) ==
  [flags |-> flags, hashId |-> Bytes(hashId),
   nodeId |-> node.id, nodeIp |-> node.ip, nodePort |-> node.port]

Read(header, hashId, node) == Naming(Flagged(header), hashId, node)

LEMMA NodeBytes ==
  ASSUME NEW node \in Nodes
  PROVE  /\ node.id = <<node.id[1], node.id[2]>>
         /\ node.ip = <<node.ip[1], node.ip[2], node.ip[3], node.ip[4]>>
         /\ node.port = <<node.port[1], node.port[2]>>
<1>1. /\ node.id \in [1 .. 2 -> byte8] /\ node.ip \in [1 .. 4 -> byte8]
      /\ node.port \in [1 .. 2 -> byte8]
  BY NodesAssumption
<1>2. \A q \in [1 .. 2 -> byte8] : q = <<q[1], q[2]>>
  OBVIOUS
<1>3. \A q \in [1 .. 4 -> byte8] : q = <<q[1], q[2], q[3], q[4]>>
  OBVIOUS
<1> QED
  BY <1>1, <1>2, <1>3

LEMMA Encodes ==
  ASSUME NEW flags, NEW h \in byte16, NEW node \in Nodes
  PROVE  encode_peerProtocol(Naming(flags, h, node)) = Laid(Combined(Naming(flags, h, node)), h, node)
<1> DEFINE d == Naming(flags, h, node)
<1>1. d.hashId = Bytes(h) /\ d.nodeId = node.id /\ d.nodeIp = node.ip /\ d.nodePort = node.port
  BY DEF Naming
<1> HIDE DEF d
<1>2. htons(d.hashId)[1] = h \div 256 /\ htons(d.hashId)[2] = h % 256
  BY <1>1 DEF htons, Bytes
<1>3. htons(d.nodeId)[1] = node.id[2] /\ htons(d.nodeId)[2] = node.id[1]
  BY <1>1 DEF htons
<1>4. /\ htonl(d.nodeIp)[1] = node.ip[4] /\ htonl(d.nodeIp)[2] = node.ip[3]
      /\ htonl(d.nodeIp)[3] = node.ip[2] /\ htonl(d.nodeIp)[4] = node.ip[1]
  BY <1>1 DEF htonl
<1>5. htons(d.nodePort)[1] = node.port[2] /\ htons(d.nodePort)[2] = node.port[1]
  BY <1>1 DEF htons
<1>6. encode_peerProtocol(d)
        = Eleven(Combined(d), htons(d.hashId)[1], htons(d.hashId)[2],
                 htons(d.nodeId)[1], htons(d.nodeId)[2], htonl(d.nodeIp)[1], htonl(d.nodeIp)[2],
                 htonl(d.nodeIp)[3], htonl(d.nodeIp)[4], htons(d.nodePort)[1], htons(d.nodePort)[2])
  BY DEF encode_peerProtocol, Eleven
<1>7. Laid(Combined(d), h, node)
        = Eleven(Combined(d), h \div 256, h % 256, node.id[2], node.id[1],
                 node.ip[4], node.ip[3], node.ip[2], node.ip[1], node.port[2], node.port[1])
  BY DEF Laid, Eleven
<1>8. encode_peerProtocol(d) = Laid(Combined(d), h, node)
  BY <1>2, <1>3, <1>4, <1>5, <1>6, <1>7
<1> QED
  BY <1>8 DEF d

LEMMA IdSwappedBack ==
  ASSUME NEW node \in Nodes, NEW w, w[1] = node.id[2], w[2] = node.id[1]
  PROVE  htons(w) = node.id
<1>1. htons(w) = <<node.id[1], node.id[2]>>
  BY DEF htons
<1> QED
  BY <1>1, NodeBytes

LEMMA PortSwappedBack ==
  ASSUME NEW node \in Nodes, NEW w, w[1] = node.port[2], w[2] = node.port[1]
  PROVE  htons(w) = node.port
<1>1. htons(w) = <<node.port[1], node.port[2]>>
  BY DEF htons
<1> QED
  BY <1>1, NodeBytes

Four(a, b, c, d) == <<a, b, c, d>>

LEMMA IpOfFour ==
  \A node \in Nodes : node.ip = Four(node.ip[1], node.ip[2], node.ip[3], node.ip[4])
BY NodeBytes DEF Four

LEMMA Decodes ==
  ASSUME NEW header, NEW h \in byte16, NEW node \in Nodes, NEW beyond
  PROVE  decode_peerProtocol(Laid(header, h, node), beyond) = Read(header, h, node)
<1> DEFINE msg   == Laid(header, h, node)
           B(i)  == IF i <= Len(msg) THEN msg[i] ELSE beyond
           At(i) == <<B(i), B(i + 1), B(i + 2), B(i + 3)>>
<1>1. /\ Len(msg) = 11 /\ msg[1] = header /\ msg[2] = h \div 256 /\ msg[3] = h % 256
      /\ msg[4] = node.id[2] /\ msg[5] = node.id[1]
      /\ msg[6] = node.ip[4] /\ msg[7] = node.ip[3] /\ msg[8] = node.ip[2] /\ msg[9] = node.ip[1]
      /\ msg[10] = node.port[2] /\ msg[11] = node.port[1]
  BY DEF Laid
<1> HIDE DEF msg
<1>2. \A i \in 1 .. 11 : B(i) = msg[i]
  BY <1>1
<1>3. /\ At(2)[1] = h \div 256 /\ At(2)[2] = h % 256
      /\ At(4)[1] = node.id[2] /\ At(4)[2] = node.id[1]
      /\ At(6)[1] = node.ip[4] /\ At(6)[2] = node.ip[3]
      /\ At(6)[3] = node.ip[2] /\ At(6)[4] = node.ip[1]
      /\ At(10)[1] = node.port[2] /\ At(10)[2] = node.port[1]
  BY <1>1, <1>2
<1>4. decode_peerProtocol(msg, beyond)
        = [flags |-> Flagged(msg[1]), hashId |-> htons(At(2)), nodeId |-> htons(At(4)),
           nodeIp |-> htonl(At(6)), nodePort |-> htons(At(10))]
  BY DEF decode_peerProtocol, HashAt, IdAt, IpAt, PortAt
<1> HIDE DEF At
<1>5. htons(At(2)) = Bytes(h)
  BY <1>3 DEF htons, Bytes
<1> HIDE DEF B
<1>6. htons(At(4)) = node.id
  BY <1>3, IdSwappedBack
<1>7. htonl(At(6)) = node.ip
  <2>1. htonl(At(6)) = Four(At(6)[4], At(6)[3], At(6)[2], At(6)[1])
    BY DEF htonl, Four
  <2>2. @ = Four(node.ip[1], node.ip[2], node.ip[3], node.ip[4])
    BY <1>3
  <2>3. @ = node.ip
    BY IpOfFour
  <2> QED
    BY <2>1, <2>2, <2>3
<1>8. htons(At(10)) = node.port
  BY <1>3, PortSwappedBack
<1>9. decode_peerProtocol(msg, beyond) = Read(header, h, node)
  BY <1>1, <1>4, <1>5, <1>6, <1>7, <1>8 DEF Read, Naming
<1> QED
  BY <1>9 DEF msg

LEMMA ValueOfBytes == \A n \in byte16 : Value(Bytes(n)) = n
<1> SUFFICES ASSUME NEW n \in byte16
             PROVE  Value(Bytes(n)) = n
  OBVIOUS
<1>1. Bytes(n)[1] = n % 256 /\ Bytes(n)[2] = n \div 256
  BY DEF Bytes
<1>2. n \in Int
  BY Byte16IsInt
<1>3. (n % 256) + 256 * (n \div 256) = n
  BY <1>2
<1> QED
  BY <1>1, <1>3 DEF Value

-----------------------------------------------------------------------------
(* Flags as bits.                                                          *)

LEMMA FlagsHaveBits ==
  /\ DOMAIN Bit = Flags \union {"control"} /\ "control" \notin Flags
  /\ Bit["control"] = {0} /\ Bit["reply"] = {6} /\ Bit["lookup"] = {7}
  /\ \A f \in Flags : Bit[f] # {}
BY DEF Bit, Flags

LEMMA BitsApart ==
  ASSUME NEW f \in DOMAIN Bit, NEW g \in DOMAIN Bit, f # g
  PROVE  Bit[f] \intersect Bit[g] = {}
BY DEF Bit

LEMMA MembersCombined ==
  ASSUME NEW d, NEW f \in DOMAIN Bit
  PROVE  d.flags[f] \subseteq Combined(d)
BY DEF Combined

(* What a struct combines of a flag and the control bit it has assigned.   *)
LEMMA StructCombined ==
  ASSUME NEW flag \in Flags, NEW node, NEW stack \in [DOMAIN Bit -> SUBSET (0 .. 7)], NEW hashId
  PROVE  LET header == Combined(Struct(flag, node, stack, hashId))
         IN 0 \in header /\ Bit[flag] \subseteq header
<1> DEFINE d == Struct(flag, node, stack, hashId)
<1>1. d.flags["control"] = Bit["control"] /\ d.flags[flag] = Bit[flag]
  BY FlagsHaveBits DEF Struct
<1>2. 0 \in Bit["control"] /\ flag \in DOMAIN Bit /\ "control" \in DOMAIN Bit
  BY FlagsHaveBits
<1> HIDE DEF d
<1>3. d.flags["control"] \subseteq Combined(d) /\ d.flags[flag] \subseteq Combined(d)
  BY <1>2, MembersCombined
<1>4. 0 \in Combined(d) /\ Bit[flag] \subseteq Combined(d)
  BY <1>1, <1>2, <1>3
<1> QED
  BY <1>4 DEF d

LEMMA StructEncoded ==
  ASSUME NEW flag, NEW node \in Nodes, NEW stack, NEW hashId \in byte16
  PROVE  LET d == Struct(flag, node, stack, hashId)
         IN encode_peerProtocol(d) = Laid(Combined(d), hashId, node)
<1>1. PICK flags : Struct(flag, node, stack, hashId) = Naming(flags, hashId, node)
  BY DEF Struct, Naming
<1> QED
  BY <1>1, Encodes

LEMMA LookupCombined ==
  ASSUME NEW node, NEW hashId
  PROVE  Combined(Struct("lookup", node, Clean, hashId)) = {0, 7}
<1> DEFINE flags == [Clean EXCEPT !["lookup"] = Bit["lookup"], !["control"] = Bit["control"]]
<1>1. \A f \in DOMAIN Bit : flags[f] = IF f = "lookup" THEN {7} ELSE IF f = "control" THEN {0} ELSE {}
  BY FlagsHaveBits DEF Clean
<1>2. "lookup" \in DOMAIN Bit /\ "control" \in DOMAIN Bit
  BY FlagsHaveBits DEF Flags
<1>3. Combined(Struct("lookup", node, Clean, hashId)) = UNION {flags[f] : f \in DOMAIN Bit}
  BY DEF Combined, Struct
<1> HIDE DEF flags
<1>4. UNION {flags[f] : f \in DOMAIN Bit} = {0, 7}
  BY <1>1, <1>2
<1> QED
  BY <1>3, <1>4

(* Each flag is read as itself where every member has bits of its own.     *)
LEMMA CombinedReadBack ==
  ASSUME NEW d, \A f \in DOMAIN Bit : d.flags[f] \subseteq Bit[f], NEW f \in DOMAIN Bit
  PROVE  Combined(d) \intersect Bit[f] = d.flags[f]
<1>1. ASSUME NEW x \in Combined(d) \intersect Bit[f]
      PROVE  x \in d.flags[f]
  <2>1. PICK g \in DOMAIN Bit : x \in d.flags[g]
    BY <1>1 DEF Combined
  <2>2. x \in Bit[f] /\ x \in Bit[g]
    BY <1>1, <2>1
  <2>3. f = g
    BY <2>2, BitsApart
  <2> QED
    BY <2>1, <2>3
<1>2. d.flags[f] \subseteq Combined(d)
  BY MembersCombined
<1> QED
  BY <1>1, <1>2

-----------------------------------------------------------------------------
(* The inductive invariant.                                                *)

(* What is on its way to a peer is what was encoded, with the control bit  *)
(* and that of its flag; a lookup has no other.                            *)
Carries(bytes, to, o) ==
  /\ to \in Nodes
  /\ o \in [flag : Flags, node : Nodes, hashId : byte16, key : Keys \union {None}]
  /\ bytes = Laid(bytes[1], o.hashId, o.node)
  /\ 0 \in bytes[1] /\ Bit[o.flag] \subseteq bytes[1]
  /\ o.flag = "lookup" => bytes[1] = {0, 7}

Carried == wire # None => Carries(wire, at, origin)

(* A hash that was computed was computed of the key.                       *)
Hashed ==
  wire # None /\ origin.key # None =>
    \E b \in Behind : origin.hashId = KeyHash(origin.key, b)

(* What the receiver has decoded is what is on its way.                    *)
Decoded ==
  data # None => wire # None /\ data = Read(wire[1], origin.hashId, origin.node)

CodecInv == Carried /\ Hashed /\ Decoded

LEMMA LaidHeader == \A header, hashId, node : Laid(header, hashId, node)[1] = header
BY DEF Laid

LEMMA LaidCarries ==
  ASSUME NEW header, NEW hashId \in byte16, NEW node \in Nodes, NEW to \in Nodes, NEW flag \in Flags,
         NEW key \in Keys \union {None},
         0 \in header, Bit[flag] \subseteq header, flag = "lookup" => header = {0, 7}
  PROVE  Carries(Laid(header, hashId, node), to,
                 [flag |-> flag, node |-> node, hashId |-> hashId, key |-> key])
<1> DEFINE o == [flag |-> flag, node |-> node, hashId |-> hashId, key |-> key]
<1>1. /\ o \in [flag : Flags, node : Nodes, hashId : byte16, key : Keys \union {None}]
      /\ o.flag = flag /\ o.hashId = hashId /\ o.node = node
  OBVIOUS
<1>2. Laid(header, hashId, node)[1] = header
  BY LaidHeader
<1> HIDE DEF o
<1>3. Carries(Laid(header, hashId, node), to, o)
  BY <1>1, <1>2 DEF Carries
<1> QED
  BY <1>3 DEF o

LEMMA InitInv == Init => CodecInv
BY DEF Init, CodecInv, Carried, Hashed, Decoded

LEMMA NextOnRing == \A n \in Nodes : Ring[n] \in Nodes
BY NodesAssumption

LEMMA SendNewInv == CodecInv /\ SendNew => CodecInv'
<1> SUFFICES ASSUME CodecInv, SendNew
             PROVE  CodecInv'
  OBVIOUS
<1>1. PICK flag \in {"join", "notify", "stabilize"}, node \in Nodes, to \in Nodes,
           stack \in Stack, hashId \in Ids :
        /\ Send(Struct(flag, node, stack, hashId), to)
        /\ origin' = [flag |-> flag, node |-> node, hashId |-> hashId, key |-> None]
  BY DEF SendNew
<1>2. /\ flag \in Flags /\ flag # "lookup" /\ hashId \in byte16
      /\ stack \in [DOMAIN Bit -> SUBSET (0 .. 7)]
  BY BytesAssumption DEF Flags
<1> DEFINE header == Combined(Struct(flag, node, stack, hashId))
<1>3. wire' = Laid(header, hashId, node)
  BY <1>1, <1>2, StructEncoded DEF Send
<1>4. 0 \in header /\ Bit[flag] \subseteq header
  BY <1>2, StructCombined
<1> HIDE DEF header
<1>5. None \in Keys \union {None}
  OBVIOUS
<1>6. Carried'
  BY <1>1, <1>2, <1>3, <1>4, <1>5, LaidCarries DEF Carried, Send
<1>7. data' = None
  BY DEF SendNew, CodecInv, Decoded
<1>8. Hashed' /\ Decoded'
  BY <1>1, <1>7 DEF Hashed, Decoded
<1> QED
  BY <1>6, <1>8 DEF CodecInv

LEMMA SendLookupCarried ==
  ASSUME NEW node \in Nodes, NEW to \in Nodes, NEW hashId \in byte16,
         NEW key \in Keys \union {None}, SendLookup(node, to, hashId, key)
  PROVE  Carried'
<1>1. wire' = Laid({0, 7}, hashId, node)
  <2> DEFINE d == Struct("lookup", node, Clean, hashId)
  <2>1. encode_peerProtocol(d) = Laid(Combined(d), hashId, node)
    BY StructEncoded
  <2>2. Combined(d) = {0, 7}
    BY LookupCombined
  <2>3. wire' = encode_peerProtocol(d)
    BY DEF SendLookup, Send
  <2> HIDE DEF d
  <2> QED
    BY <2>1, <2>2, <2>3
<1>2. "lookup" \in Flags /\ 0 \in {0, 7} /\ Bit["lookup"] \subseteq {0, 7}
  BY FlagsHaveBits DEF Flags
<1>3. origin' = [flag |-> "lookup", node |-> node, hashId |-> hashId, key |-> key] /\ at' = to
  BY DEF SendLookup, Send
<1> QED
  BY <1>1, <1>2, <1>3, LaidCarries DEF Carried

LEMMA LookupInv == CodecInv /\ Lookup => CodecInv'
<1> SUFFICES ASSUME CodecInv, Lookup
             PROVE  CodecInv'
  OBVIOUS
<1>1. data' = None
  BY DEF Lookup, CodecInv, Decoded
<1>2. Decoded'
  BY <1>1 DEF Decoded
<1>3. PICK node \in Nodes, to \in Nodes :
        \/ \E hashId \in Ids : SendLookup(node, to, hashId, None)
        \/ \E key \in Keys, b \in Behind :
             SendLookup(node, to, KeyHash(key, b), key)
  BY DEF Lookup
<1>4. ASSUME NEW hashId \in Ids, SendLookup(node, to, hashId, None)
      PROVE  Carried' /\ Hashed'
  <2>1. hashId \in byte16
    BY BytesAssumption
  <2>2. Carried'
    BY <1>4, <2>1, SendLookupCarried
  <2>3. Hashed'
    BY <1>4 DEF Hashed, SendLookup
  <2> QED
    BY <2>2, <2>3
<1>5. ASSUME NEW key \in Keys, NEW b \in Behind,
             SendLookup(node, to, KeyHash(key, b), key)
      PROVE  Carried' /\ Hashed'
  <2>1. KeyHash(key, b) \in byte16
    BY HashAssumption
  <2>2. Carried'
    BY <1>5, <2>1, SendLookupCarried
  <2>3. origin'.key = key /\ origin'.hashId = KeyHash(key, b)
    BY <1>5 DEF SendLookup
  <2>4. Hashed'
    BY <2>3 DEF Hashed
  <2> QED
    BY <2>2, <2>4
<1> QED
  BY <1>2, <1>3, <1>4, <1>5 DEF CodecInv

LEMMA ReceiveInv == CodecInv /\ Receive => CodecInv'
<1> SUFFICES ASSUME CodecInv, Receive
             PROVE  CodecInv'
  OBVIOUS
<1>1. Carries(wire, at, origin) /\ wire # None
  BY DEF CodecInv, Carried, Receive
<1>2. PICK beyond \in Heap : data' = decode_peerProtocol(wire, beyond)
  BY DEF Receive
<1>3. origin.hashId \in byte16 /\ origin.node \in Nodes
  BY <1>1 DEF Carries
<1>4. wire = Laid(wire[1], origin.hashId, origin.node)
  BY <1>1 DEF Carries
<1>5. decode_peerProtocol(Laid(wire[1], origin.hashId, origin.node), beyond)
        = Read(wire[1], origin.hashId, origin.node)
  BY <1>3, Decodes
<1>6. data' = Read(wire[1], origin.hashId, origin.node)
  BY <1>2, <1>4, <1>5
<1>7. UNCHANGED <<wire, at, origin>>
  BY DEF Receive
<1> QED
  BY <1>1, <1>6, <1>7 DEF CodecInv, Carried, Hashed, Decoded

LEMMA RedirectInv == CodecInv /\ Redirect => CodecInv'
<1> SUFFICES ASSUME CodecInv, Redirect
             PROVE  CodecInv'
  OBVIOUS
<1>1. UNCHANGED <<wire, origin>> /\ at' = Ring[at] /\ data' = None
  BY DEF Redirect
<1>2. wire # None => Carries(wire, Ring[at], origin)
  BY NextOnRing DEF CodecInv, Carried, Carries
<1> QED
  BY <1>1, <1>2 DEF CodecInv, Carried, Hashed, Decoded

(* A found lookup is built of what was read, and names the next peer.      *)
FoundFlags(header) ==
  [Flagged(header) EXCEPT !["control"] = Bit["control"], !["reply"] = Bit["reply"], !["lookup"] = {}]

LEMMA FoundNames ==
  ASSUME NEW header, NEW hashId, NEW node, NEW next
  PROVE  send_found_lookup(Read(header, hashId, node), next)
           = Naming(FoundFlags(header), hashId, next)
BY DEF send_found_lookup, Read, Naming, FoundFlags

LEMMA FoundFlag ==
  ASSUME NEW header, NEW f \in DOMAIN Bit
  PROVE  FoundFlags(header)[f] = IF f \in {"control", "reply"} THEN Bit[f]
                                 ELSE IF f = "lookup" THEN {} ELSE header \intersect Bit[f]
BY DEF FoundFlags, Flagged

LEMMA FoundEncoded ==
  ASSUME NEW header, NEW hashId \in byte16, NEW node, NEW next \in Nodes, NEW d,
         d = send_found_lookup(Read(header, hashId, node), next)
  PROVE  /\ encode_peerProtocol(d) = Laid(Combined(d), hashId, next)
         /\ 0 \in Combined(d) /\ Bit["reply"] \subseteq Combined(d)
<1>1. d = Naming(FoundFlags(header), hashId, next)
  BY FoundNames
<1>2. encode_peerProtocol(d) = Laid(Combined(d), hashId, next)
  BY <1>1, Encodes
<1>3. "control" \in DOMAIN Bit /\ "reply" \in DOMAIN Bit
  BY FlagsHaveBits DEF Flags
<1>4. d.flags["control"] = Bit["control"] /\ d.flags["reply"] = Bit["reply"]
  <2>1. d.flags = FoundFlags(header)
    BY <1>1 DEF Naming
  <2> QED
    BY ZenonT(60), <1>3, <2>1, FoundFlag
<1>5. d.flags["control"] \subseteq Combined(d) /\ d.flags["reply"] \subseteq Combined(d)
  BY <1>3, MembersCombined
<1>6. 0 \in Combined(d) /\ Bit["reply"] \subseteq Combined(d)
  BY <1>4, <1>5, FlagsHaveBits
<1> QED
  BY <1>2, <1>6

LEMMA AnswerLookupInv == CodecInv /\ AnswerLookup => CodecInv'
<1> SUFFICES ASSUME CodecInv, AnswerLookup
             PROVE  CodecInv'
  OBVIOUS
<1>1. data # None
  BY DEF AnswerLookup, Answers, Handles
<1>2. wire # None /\ data = Read(wire[1], origin.hashId, origin.node)
  BY <1>1 DEF CodecInv, Decoded
<1>3. /\ at \in Nodes
      /\ origin \in [flag : Flags, node : Nodes, hashId : byte16, key : Keys \union {None}]
  BY <1>2 DEF CodecInv, Carried, Carries
<1> DEFINE d == send_found_lookup(data, Ring[at])
<1>4. Ring[at] \in Nodes /\ origin.hashId \in byte16 /\ origin.key \in Keys \union {None}
  BY <1>3, NextOnRing
<1>5. /\ encode_peerProtocol(d) = Laid(Combined(d), origin.hashId, Ring[at])
      /\ 0 \in Combined(d) /\ Bit["reply"] \subseteq Combined(d)
  BY <1>2, <1>4, FoundEncoded
<1>6. wire' = encode_peerProtocol(d) /\ at' = Ring[at] /\ data' = None
  BY <1>2 DEF AnswerLookup, Send
<1>7. origin' = [flag |-> "reply", node |-> Ring[at], hashId |-> origin.hashId, key |-> origin.key]
  BY <1>3 DEF AnswerLookup
<1> HIDE DEF d
<1>8. "reply" \in Flags /\ "reply" # "lookup"
  BY DEF Flags
<1>9. Carried'
  BY <1>4, <1>5, <1>6, <1>7, <1>8, LaidCarries DEF Carried
<1>10. Hashed'
  BY <1>2, <1>7 DEF CodecInv, Hashed
<1> QED
  BY <1>6, <1>9, <1>10 DEF CodecInv, Decoded

LEMMA NextInv == CodecInv /\ [Next]_vars => CodecInv'
<1> SUFFICES ASSUME CodecInv, [Next]_vars
             PROVE  CodecInv'
  OBVIOUS
<1>1. CASE SendNew
  BY <1>1, SendNewInv
<1>2. CASE Lookup
  BY <1>2, LookupInv
<1>3. CASE Receive
  BY <1>3, ReceiveInv
<1>4. CASE Redirect
  BY <1>4, RedirectInv
<1>5. CASE AnswerLookup
  BY <1>5, AnswerLookupInv
<1>6. CASE Done
  BY <1>6 DEF Done, CodecInv, Carried, Hashed, Decoded
<1>7. CASE UNCHANGED vars
  BY <1>7 DEF vars, CodecInv, Carried, Hashed, Decoded
<1> QED
  BY <1>1, <1>2, <1>3, <1>4, <1>5, <1>6, <1>7 DEF Next, receive_handler

LEMMA Inductive == Spec => []CodecInv
  BY InitInv, NextInv, PTL DEF Spec

-----------------------------------------------------------------------------
(* What is read is what was sent.                                          *)

LEMMA TwoBytes ==
  ASSUME NEW x \in 0 .. 255, NEW y \in 0 .. 255
  PROVE  x + 256 * y \in byte16
<1> DEFINE w == x + 256 * y
<1>1. w \in Int /\ 0 <= w /\ w <= 65535
  OBVIOUS
<1> HIDE DEF w
<1>2. w \in byte16
  BY <1>1, Byte16Range
<1> QED
  BY <1>2 DEF w

LEMMA IdsAreByte16 == \A n \in Nodes : Value(n.id) \in byte16
<1> SUFFICES ASSUME NEW n \in Nodes
             PROVE  Value(n.id) \in byte16
  OBVIOUS
<1>1. n.id[1] \in byte8 /\ n.id[2] \in byte8
  BY NodesAssumption
<1> QED
  BY <1>1, TwoBytes DEF Value, byte8

(* Both operators are those of IdRange.                                    *)
LEMMA InstancesAgree ==
  /\ Messages!Flags = Flags /\ Messages!byte16 = byte16
  /\ \A v, u, l : Messages!CoversInteriorOnly(v, u, l) <=> CoversInteriorOnly(v, u, l)
BY DEF Messages!Flags, Flags, Messages!byte16, byte16,
       Messages!CoversInteriorOnly, CoversInteriorOnly, Messages!in_range, in_range,
       Messages!ChordCovers, ChordCovers, Messages!Distance, Distance,
       Messages!Uncovered, Uncovered

(* The message a receiver sees in what it has read.                        *)
LEMMA MessageRead ==
  ASSUME NEW header, NEW hashId \in byte16, NEW node \in Nodes
  PROVE  AsMessage(Read(header, hashId, node))
           = [flags |-> {f \in Flags : header \intersect Bit[f] # {}}, hashId |-> hashId, node |-> node]
<1> DEFINE d == Read(header, hashId, node)
<1>1. /\ d.flags = Flagged(header) /\ d.hashId = Bytes(hashId)
      /\ d.nodeId = node.id /\ d.nodeIp = node.ip /\ d.nodePort = node.port
  BY DEF Read, Naming
<1> HIDE DEF d
<1>2. Value(d.hashId) = hashId
  BY <1>1, ValueOfBytes
<1>3. NodeOf(d) = node
  BY <1>1, NodesAssumption DEF NodeOf
<1>4. {f \in Flags : d.flags[f] # {}} = {f \in Flags : header \intersect Bit[f] # {}}
  BY <1>1, FlagsHaveBits DEF Flagged
<1>5. AsMessage(d) = [flags |-> {f \in Flags : header \intersect Bit[f] # {}},
                      hashId |-> hashId, node |-> node]
  BY <1>2, <1>3, <1>4 DEF AsMessage
<1> QED
  BY <1>5 DEF d

LEMMA DataRead ==
  ASSUME CodecInv, data # None
  PROVE  /\ Carries(wire, at, origin) /\ origin.hashId \in byte16 /\ origin.node \in Nodes
         /\ origin.flag \in Flags /\ at \in Nodes
         /\ data = Read(wire[1], origin.hashId, origin.node)
BY DEF CodecInv, Carried, Decoded, Carries

LEMMA ReadsAsSentInv == CodecInv => ReadsAsSent
<1> SUFFICES ASSUME CodecInv, data # None
             PROVE  /\ AsMessage(data) \in Messages!Unassigned(origin.flag, origin.node)
                    /\ Value(data.hashId) = origin.hashId
  BY DEF ReadsAsSent
<1> DEFINE flags == {f \in Flags : wire[1] \intersect Bit[f] # {}}
<1>1. AsMessage(data) = [flags |-> flags, hashId |-> origin.hashId, node |-> origin.node]
  BY DataRead, MessageRead
<1>2. origin.flag \in flags
  BY DataRead, FlagsHaveBits DEF Carries
<1>3. flags \in SUBSET Flags
  OBVIOUS
<1> HIDE DEF flags
<1>4. flags = {origin.flag} \union flags
  BY <1>2
<1>5. [flags |-> flags, hashId |-> origin.hashId, node |-> origin.node]
        \in Messages!Unassigned(origin.flag, origin.node)
  BY <1>3, <1>4, DataRead, InstancesAgree DEF Messages!Unassigned
<1>6. data.hashId = Bytes(origin.hashId)
  BY DataRead DEF Read, Naming
<1> QED
  BY <1>1, <1>5, <1>6, DataRead, ValueOfBytes

(* Whatever the leftovers, the stack and the heap hold, a receiver decodes *)
(* a message its sender may have meant, after any number of redirects.     *)
THEOREM DecodesWhatWasSent == Spec => []ReadsAsSent
<1>1. CodecInv => ReadsAsSent
  BY ReadsAsSentInv
<1> QED
  BY <1>1, Inductive, PTL

(* No message of peers looks like a client's request.                      *)
THEOREM PeersAreNotClients == Spec => []TakenForPeer
<1>1. CodecInv => TakenForPeer
  BY FlagsHaveBits DEF CodecInv, Carried, Carries, TakenForPeer, isPeerProtocol
<1> QED
  BY <1>1, Inductive, PTL

(* On ids that were decoded, id_is_between covers the interior of the      *)
(* interval and nothing else.                                              *)
THEOREM DecodedIdsInterior == Spec => []InteriorOnly
<1>1. CodecInv => InteriorOnly
  <2> SUFFICES ASSUME CodecInv, data # None, NEW this \in Nodes, NEW prev \in Nodes
               PROVE  Messages!CoversInteriorOnly(Value(data.hashId), Value(this.id), Value(prev.id))
    BY DEF InteriorOnly
  <2>1. Value(data.hashId) = origin.hashId /\ origin.hashId \in byte16
    BY DataRead, ReadsAsSentInv DEF ReadsAsSent
  <2>2. CoversInteriorOnly(Value(data.hashId), Value(this.id), Value(prev.id))
    BY <2>1, IdsAreByte16, InRangeCoversInterior
  <2> QED
    BY <2>2, InstancesAgree
<1> QED
  BY <1>1, Inductive, PTL

-----------------------------------------------------------------------------
(* Steps: an answered lookup, and one that nobody answers.                 *)

LEMMA FoundMessage ==
  ASSUME NEW flags, NEW hashId, NEW node, NEW next
  PROVE  Messages!found_lookup([flags |-> flags, hashId |-> hashId, node |-> node], next)
           = [flags |-> (flags \union {"reply"}) \ {"lookup"}, hashId |-> hashId, node |-> next]
<1> DEFINE m == [flags |-> flags, hashId |-> hashId, node |-> node]
<1>1. Messages!found_lookup(m, next)
        = [m EXCEPT !.flags = (m.flags \union {"reply"}) \ {"lookup"}, !.node = next]
  BY DEF Messages!found_lookup
<1>2. \A x : [m EXCEPT !.flags = x, !.node = next] = [flags |-> x, hashId |-> hashId, node |-> next]
  <2> SUFFICES ASSUME NEW x
               PROVE  [m EXCEPT !.flags = x, !.node = next]
                        = [flags |-> x, hashId |-> hashId, node |-> next]
    OBVIOUS
  <2> DEFINE Fields == {x, flags, hashId, node, next}
  <2>1. m \in [flags : Fields, hashId : Fields, node : Fields]
    OBVIOUS
  <2>2. [m EXCEPT !.flags = x] = [flags |-> x, hashId |-> hashId, node |-> node]
    BY <2>1
  <2>3. [m EXCEPT !.flags = x, !.node = next] = [[m EXCEPT !.flags = x] EXCEPT !.node = next]
    OBVIOUS
  <2> DEFINE r == [flags |-> x, hashId |-> hashId, node |-> node]
  <2>4. r \in [flags : Fields, hashId : Fields, node : Fields]
    OBVIOUS
  <2>5. [r EXCEPT !.node = next] = [flags |-> x, hashId |-> hashId, node |-> next]
    BY <2>4
  <2> QED
    BY <2>2, <2>3, <2>5
<1>3. m.flags = flags
  OBVIOUS
<1> HIDE DEF m
<1>4. Messages!found_lookup(m, next)
        = [flags |-> (flags \union {"reply"}) \ {"lookup"}, hashId |-> hashId, node |-> next]
  BY <1>1, <1>2, <1>3
<1> QED
  BY <1>4 DEF m

LEMMA AnswerIsFound ==
  ASSUME CodecInv, AnswerLookup, NEW beyond
  PROVE  AsMessage(decode_peerProtocol(wire', beyond))
           = Messages!found_lookup(AsMessage(data), Ring[at])
<1> DEFINE d == send_found_lookup(data, Ring[at])
           header == wire[1]
<1>1. data # None /\ wire' = encode_peerProtocol(d)
  BY DEF AnswerLookup, Answers, Handles, Send
<1>2. /\ origin.hashId \in byte16 /\ origin.node \in Nodes /\ Ring[at] \in Nodes
      /\ data = Read(header, origin.hashId, origin.node)
  BY <1>1, DataRead, NextOnRing
<1>3. d = Naming(FoundFlags(header), origin.hashId, Ring[at])
  BY <1>2, FoundNames
<1> HIDE DEF d, header
<1>4. wire' = Laid(Combined(d), origin.hashId, Ring[at])
  BY <1>1, <1>2, <1>3, Encodes
<1>5. AsMessage(decode_peerProtocol(wire', beyond))
        = [flags |-> {f \in Flags : Combined(d) \intersect Bit[f] # {}},
           hashId |-> origin.hashId, node |-> Ring[at]]
  <2>1. decode_peerProtocol(wire', beyond) = Read(Combined(d), origin.hashId, Ring[at])
    BY <1>2, <1>4, Decodes
  <2> QED
    BY <1>2, <2>1, MessageRead
<1>6. AsMessage(data) = [flags |-> {f \in Flags : header \intersect Bit[f] # {}},
                         hashId |-> origin.hashId, node |-> origin.node]
  BY <1>2, MessageRead
<1>7. \A f \in DOMAIN Bit : Combined(d) \intersect Bit[f] = FoundFlags(header)[f]
  <2>1. d.flags = FoundFlags(header)
    BY <1>3 DEF Naming
  <2>2. ASSUME NEW f \in DOMAIN Bit
        PROVE  d.flags[f] \subseteq Bit[f]
    <3>1. FoundFlags(header)[f] = IF f \in {"control", "reply"} THEN Bit[f]
                                  ELSE IF f = "lookup" THEN {} ELSE header \intersect Bit[f]
      BY FoundFlag
    <3> QED
      BY <2>1, <3>1
  <2> QED
    BY <2>1, <2>2, CombinedReadBack
<1>8. {f \in Flags : Combined(d) \intersect Bit[f] # {}}
        = ({f \in Flags : header \intersect Bit[f] # {}} \union {"reply"}) \ {"lookup"}
  <2>1. "reply" \in Flags /\ "reply" # "lookup"
    BY DEF Flags
  <2>2. \A f \in Flags : /\ f \in DOMAIN Bit /\ f # "control" /\ Bit[f] # {}
                         /\ Combined(d) \intersect Bit[f] = FoundFlags(header)[f]
    BY <1>7, FlagsHaveBits
  <2>3. ASSUME NEW f \in Flags
        PROVE  Combined(d) \intersect Bit[f] # {}
                 <=> (header \intersect Bit[f] # {} \/ f = "reply") /\ f # "lookup"
    <3>1. FoundFlags(header)[f] = IF f \in {"control", "reply"} THEN Bit[f]
                                  ELSE IF f = "lookup" THEN {} ELSE header \intersect Bit[f]
      BY <2>2, FoundFlag
    <3> QED
      BY <2>1, <2>2, <3>1
  <2> QED
    BY <2>1, <2>3
<1> QED
  <2> DEFINE before == {f \in Flags : header \intersect Bit[f] # {}}
             after  == {f \in Flags : Combined(d) \intersect Bit[f] # {}}
  <2>1. /\ AsMessage(data) = [flags |-> before, hashId |-> origin.hashId, node |-> origin.node]
        /\ after = (before \union {"reply"}) \ {"lookup"}
        /\ AsMessage(decode_peerProtocol(wire', beyond))
             = [flags |-> after, hashId |-> origin.hashId, node |-> Ring[at]]
    BY <1>5, <1>6, <1>8
  <2> HIDE DEF before, after
  <2> QED
    BY <2>1, FoundMessage

(* The reply that is sent, as it will be read, is the request with reply   *)
(* set, lookup cleared and the responsible node in it.                     *)
THEOREM AnswersAreFoundLookups == Spec => FoundLookup
<1>1. CodecInv /\ [Next]_vars =>
        [AnswerLookup =>
           \A beyond \in Heap :
             AsMessage(decode_peerProtocol(wire', beyond))
               = Messages!found_lookup(AsMessage(data), Ring[at])]_vars
  BY AnswerIsFound
<1> QED
  BY <1>1, Inductive, PTL DEF Spec, FoundLookup

LEMMA LookupIsDispatched ==
  ASSUME CodecInv, data # None, origin.flag = "lookup"
  PROVE  Handles("lookup")
<1>1. wire[1] = {0, 7}
  BY DataRead DEF Carries
<1>2. {f \in Flags : {0, 7} \intersect Bit[f] # {}} = {"lookup"}
  BY DEF Flags, Bit
<1>3. AsMessage(data).flags = {"lookup"}
  <2>1. AsMessage(data) = [flags |-> {f \in Flags : wire[1] \intersect Bit[f] # {}},
                           hashId |-> origin.hashId, node |-> origin.node]
    BY DataRead, MessageRead
  <2> QED
    BY <1>1, <1>2, <2>1
<1>4. Messages!Dispatches(AsMessage(data), "lookup")
  <2>1. /\ 7 \in DOMAIN Messages!Precedence /\ Messages!Precedence[7] = "lookup"
        /\ \A j \in 1 .. 6 : Messages!Precedence[j] # "lookup"
    BY DEF Messages!Precedence
  <2> QED
    BY <1>3, <2>1 DEF Messages!Dispatches
<1> QED
  BY <1>4 DEF Handles

(* A lookup for an id of no interval is neither answered nor dropped.      *)
THEOREM StraysAreNotTaken == Spec => StraysCirculate
<1>1. ASSUME CodecInv, Next, wire # None, origin.flag = "lookup",
             ~ \E n \in Nodes : Responsible(n)
      PROVE  UNCHANGED <<wire, origin>>
  <2>1. ~ Answers
    <3>1. ASSUME Answers
          PROVE  Responsible(Ring[at])
      <4>1. data # None /\ Messages!id_is_between(Value(data.hashId), Ring[at], at)
        BY <3>1 DEF Answers, Handles
      <4>2. Value(data.hashId) = origin.hashId /\ at \in Nodes
        BY <1>1, <4>1, DataRead, ReadsAsSentInv DEF ReadsAsSent
      <4> QED
        BY <4>1, <4>2 DEF Responsible
    <3>2. data # None => Ring[at] \in Nodes
      BY <1>1, DataRead, NextOnRing
    <3> QED
      BY <1>1, <3>1, <3>2 DEF Answers, Handles
  <2>2. data # None => Forwards
    BY <1>1, <2>1, LookupIsDispatched DEF Forwards
  <2>3. ~ SendNew /\ ~ Lookup /\ ~ Done /\ ~ AnswerLookup
    BY <1>1, <2>1, <2>2 DEF SendNew, Lookup, Done, AnswerLookup
  <2>4. Receive \/ Redirect
    BY <1>1, <2>3 DEF Next, receive_handler
  <2> QED
    BY <2>4 DEF Receive, Redirect
<1>2. CodecInv /\ [Next]_vars =>
        [wire # None /\ origin.flag = "lookup" /\ ~ (\E n \in Nodes : Responsible(n))
           => UNCHANGED <<wire, origin>>]_vars
  BY <1>1
<1> QED
  BY <1>2, Inductive, PTL DEF Spec, StraysCirculate

-----------------------------------------------------------------------------
(* What a hash is computed of.                                             *)

(* A word is read from the first size bytes at its offset alone.           *)
LEMMA WordReads ==
  ASSUME NEW m, NEW n, NEW from \in Int, NEW size \in Int,
         \A k \in 1 .. 4 : k <= size => m[from + k] = n[from + k]
  PROVE  Word(m, from, size) = Word(n, from, size)
BY DEF Word

LEMMA WordsRead ==
  ASSUME NEW m, NEW n, NEW from \in Nat, NEW size \in Int,
         \A i \in Int : from < i /\ i <= from + size => m[i] = n[i]
  PROVE  Words(m, from, size) = Words(n, from, size)
<1>1. /\ Word(m, from, size) = Word(n, from, size)
      /\ Word(m, from + 4, size - 4) = Word(n, from + 4, size - 4)
      /\ Word(m, from + 8, size - 8) = Word(n, from + 8, size - 8)
  BY WordReads
<1> QED
  BY <1>1 DEF Words

(* HASH_JEN of two memories with the same first keylen bytes.              *)
LEMMA HashReadsKey ==
  ASSUME NEW keylen \in Nat, NEW m, NEW n, \A i \in 1 .. keylen : m[i] = n[i]
  PROVE  HASH_JEN(m, keylen) = HASH_JEN(n, keylen)
<1>1. Blocks(keylen) \in Nat /\ 12 * Blocks(keylen) <= keylen
  BY DEF Blocks
<1>2. \A b \in 1 .. Blocks(keylen) : Words(m, 12 * (b - 1), 12) = Words(n, 12 * (b - 1), 12)
  <2> SUFFICES ASSUME NEW b \in 1 .. Blocks(keylen)
               PROVE  Words(m, 12 * (b - 1), 12) = Words(n, 12 * (b - 1), 12)
    OBVIOUS
  <2>1. 12 * (b - 1) \in Nat /\ 12 * (b - 1) + 12 <= keylen
    BY <1>1
  <2> QED
    BY <2>1, WordsRead
<1>3. Words(m, 12 * Blocks(keylen), keylen - 12 * Blocks(keylen))
        = Words(n, 12 * Blocks(keylen), keylen - 12 * Blocks(keylen))
  BY <1>1, WordsRead
<1>4. Whole(m, keylen) = Whole(n, keylen)
  BY <1>2 DEF Whole
<1>5. Rest(m, keylen) = Rest(n, keylen)
  BY <1>3 DEF Rest
<1> QED
  BY <1>4, <1>5 DEF HASH_JEN

LEMMA KeyHashReadsKey ==
  ASSUME NEW key \in Keys, NEW b \in Behind, NEW c \in Behind
  PROVE  KeyHash(key, b) = KeyHash(key, c)
<1>1. key \in Seq(byte8) /\ b \in Seq(byte8) /\ c \in Seq(byte8)
  BY BytesAssumption
<1>2. Len(key) \in Nat /\ \A i \in 1 .. Len(key) : (key \o b)[i] = key[i] /\ (key \o c)[i] = key[i]
  BY <1>1
<1>3. HASH_JEN(key \o b, Len(key)) = HASH_JEN(key \o c, Len(key))
  BY <1>2, HashReadsKey
<1> QED
  BY <1>3 DEF KeyHash, get_hash_value

(* The id of a key that is looked up is that of the key alone, whatever    *)
(* value or leftover of the heap lies behind it.                           *)
THEOREM LookedUpByKey == Spec => []ReadsKeyOnly
<1>1. CodecInv => ReadsKeyOnly
  <2> SUFFICES ASSUME CodecInv, wire # None, origin.key # None, NEW b \in Behind
               PROVE  origin.hashId = KeyHash(origin.key, b)
    BY DEF ReadsKeyOnly
  <2>1. origin.key \in Keys
    BY DEF CodecInv, Carried, Carries
  <2>2. PICK c \in Behind : origin.hashId = KeyHash(origin.key, c)
    BY DEF CodecInv, Hashed
  <2> QED
    BY <2>1, <2>2, KeyHashReadsKey
<1> QED
  BY <1>1, Inductive, PTL

==============================================================================
