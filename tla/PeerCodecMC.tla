----------------------------- MODULE PeerCodecMC -----------------------------
(***************************************************************************)
(* Three peers on one machine, with ids and ports whose bytes all differ,  *)
(* and keys of every length up to two blocks of HASH_JEN and a byte.       *)
(***************************************************************************)
EXTENDS PeerCodec, Bitwise

CONSTANT MaxLength

MCXor16(x, y) == x ^^ y

Node(id, port) == [id |-> Bytes(id), ip |-> <<127, 0, 0, 1>>, port |-> Bytes(port)]

(* Ports of the tests; ids 10000 and 20000 are theirs, too.                *)
nA == Node(10000, 3002)
nB == Node(20000, 3005)
nC == Node(30001, 3200)

ThreeNodes == {nA, nB, nC}

MCRing == [n \in ThreeNodes |-> IF n = nA THEN nB ELSE IF n = nB THEN nC ELSE nA]

(* All clean, or all left over: the bits of fack, finger, reply and        *)
(* lookup, or that of join.  Or one left over, with another's bit.         *)
Leftovers ==
  {[f \in DOMAIN Bit |-> left] : left \in {{}, {3}, {1, 2, 6, 7}}}
    \union {[f \in DOMAIN Bit |-> IF f = "reply" THEN Bit["stabilize"] ELSE {}]}

(* The ends of the identifiers and of an interval, and an inside.          *)
BoundaryIds == {0, 9999, 10000, 10001, 19999, 20000, 65535}

(* "DataKey", as the tests spell it.                                       *)
DataKey == <<68, 97, 116, 97, 75, 101, 121>>

MCKeys ==
  {DataKey} \union {[i \in 1 .. n |-> 96 + i] : n \in 0 .. MaxLength}
    \union {[i \in 1 .. n |-> (i * 97) % 256] : n \in 1 .. MaxLength}

MCBehind == {[i \in 1 .. 12 |-> b] : b \in {0, 83, 255}}

(* The test of the full cycle expects the lookup of "DataKey" as 81 51 E6  *)
(* and answers it with 41 51 E6                                            *)
(* (test/services/peer_client_full_cycle.service:15-16, 22-23).            *)
TestedBytes ==
  wire # None /\ origin.key = DataKey =>
    SubSeq(wire, 1, 3) \in {<<{7, 0}, 5 * 16 + 1, 14 * 16 + 6>>, <<{6, 0}, 5 * 16 + 1, 14 * 16 + 6>>}

==============================================================================
