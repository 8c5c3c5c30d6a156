----------------------------- MODULE ClientCodec -----------------------------
(***************************************************************************)
(* The client protocol on the wire (data_helper.c, client.c, peer.c): one  *)
(* header byte of operation bits, a 16-bit key length, a 32-bit value      *)
(* length, the key, the value.  Lengths are written in digits below Radix, *)
(* 256 in the code, and keys and values consist of such bytes.             *)
(***************************************************************************)
EXTENDS Integers, Sequences

CONSTANT Radix  \* the values of a byte: 256

ASSUME CodecAssumption == Radix \in Nat \ {0, 1}

byte8 == 0 .. Radix - 1

HeaderSize == 1 + 2 + 4

(* The header byte: ACK_BIT and the bits of the operations.                *)
Bit == [act |-> 16, get |-> 32, set |-> 64, delete |-> 128]

Header(bits) ==
  LET On(b) == IF b \in bits THEN Bit[b] ELSE 0
  IN On("act") + On("get") + On("set") + On("delete")

Bits(byte) == {b \in DOMAIN Bit : (byte \div Bit[b]) % 2 = 1}

(* A number cut to two and to four bytes, highest byte first, and back.    *)
htons(n) == <<(n \div Radix) % Radix, n % Radix>>
htonl(n) == htons(n \div (Radix * Radix)) \o htons(n)

ntohs(high, low) == high * Radix + low
ntohl(b1, b2, b3, b4) == ntohs(b1, b2) * (Radix * Radix) + ntohs(b3, b4)

(* Deviation: the key is copied up to its end, not to the key length.      *)
encode_clientProtocol_whole_key(data) ==
  <<Header(data.bits)>> \o htons(data.key_length) \o htonl(data.value_length)
    \o data.key \o SubSeq(data.value, 1, data.value_length)

encode_clientProtocol(data) ==
  <<Header(data.bits)>> \o htons(data.key_length) \o htonl(data.value_length)
    \o SubSeq(data.key, 1, data.key_length) \o SubSeq(data.value, 1, data.value_length)

(* The lengths in the header are believed, however short the message is:   *)
(* decoding reads no further than the header, but key and value point      *)
(* beyond the message, to what the memory there holds, if it is there:     *)
(* who reads them may die of it.                                           *)
decode_clientProtocol(msg, beyond) ==
  LET At(i) == IF i <= Len(msg) THEN msg[i] ELSE beyond
      Field(offset, length) == [i \in 1 .. length |-> At(offset + i)]
      key_length == ntohs(At(2), At(3))
      value_length == ntohl(At(4), At(5), At(6), At(7))
  IN [bits |-> Bits(msg[1]),
      key_length |-> key_length, value_length |-> value_length,
      key |-> Field(HeaderSize, key_length),
      value |-> Field(HeaderSize + key_length, value_length)]

-----------------------------------------------------------------------------
(* What the two ends encode.                                               *)

(* main of client.c, for a command line [op, key, value].  An unknown      *)
(* method sets no bit, and strlen is cut to the 16 bits of key_length.     *)
RequestStruct(r) ==
  [bits |-> {r.op} \intersect {"get", "set", "delete"},
   key_length |-> Len(r.key) % (Radix * Radix), key |-> r.key,
   value_length |-> IF r.op = "set" THEN Len(r.value) ELSE 0,
   value |-> IF r.op = "set" THEN r.value ELSE <<>>]

(* Deviation: the bytes on the stack stay in the value length.             *)
Acknowledge_unset_length(op) == <<Header({"act", op})>> \o htons(0) \o htonl(1)

(* respond_as_responsible_peer: a header with nothing after it ...         *)
Acknowledge(op) == <<Header({"act", op})>> \o htons(0) \o htonl(0)

(* ... except for a GET that finds something: the decoded request, with    *)
(* the value put in.                                                       *)
FoundStruct(data, value) ==
  [data EXCEPT !.bits = @ \union {"act"}, !.value_length = Len(value), !.value = value]

=============================================================================
