---------------------------- MODULE ExchangeProofs ----------------------------
(***************************************************************************)
(* What direct_receive hands on, whatever the sizes of buffers and         *)
(* messages and whichever blocks realloc moves, when it blocks, and that   *)
(* what it hands on whole is understood.                                   *)
(***************************************************************************)
EXTENDS Exchange, SequenceTheorems, TLAPS

-----------------------------------------------------------------------------
(* The inductive invariant.                                                *)

States == {"idle", "recv", "called", "strayed", "reset", "crashed", "killed"}

(* Header bits exceed a byte of a small radix, so bytes are naturals.      *)
TypeOK ==
  /\ split \in BOOLEAN
  /\ state \in [Receivers -> States]
  /\ sent \in [Receivers -> Seq(Nat)] /\ stream \in [Receivers -> Seq(Nat)]
  /\ held \in [Receivers -> Seq(Nat)] /\ given \in [Receivers -> Seq(Nat)]
  /\ moved \in [Receivers -> SUBSET Int]
  /\ DOMAIN table = Peers
  /\ \A p \in Peers : \A k \in DOMAIN table[p] : table[p][k] \in Seq(Nat)

(* A receiver that waits has all that was sent to it in its full buffers,  *)
(* in the frames above it, and in the stream.                              *)
Waiting ==
  \A s \in Receivers :
    state[s] = "recv" =>
      /\ sent[s] = held[s] \o stream[s]
      /\ Len(held[s]) % BUFFER_SIZE = 0
      /\ given[s] = <<>>
      /\ s \in Peers => sent[s] # <<>>

Untouched(s) ==
  state[s] = "idle" =>
    sent[s] = <<>> /\ stream[s] = <<>> /\ held[s] = <<>> /\ moved[s] = {} /\ given[s] = <<>>

(* Who still sends to whom: only a receiver that has not handed on its     *)
(* message is sent anything.                                               *)
InTurn ==
  /\ state["client"] = "idle" => \A s \in Receivers : state[s] = "idle"
  /\ state["peer"] \in {"idle", "recv"} =>
       state["next"] = "idle" /\ state["redirect"] = "idle" /\ sent["client"] = <<>>
  /\ state["redirect"] = "recv" => state["peer"] = "called" /\ sent["client"] = <<>>
  /\ state["next"] = "recv" => state["redirect"] = "recv" /\ sent["redirect"] = <<>>
  /\ state["client"] = "called" => state["peer"] # "recv" /\ state["redirect"] # "recv"

ExchangeInv ==
  /\ TypeOK
  /\ Waiting
  /\ \A s \in Receivers : Untouched(s)
  /\ InTurn
  /\ GivenAsSent

-----------------------------------------------------------------------------
(* Bytes.                                                                  *)

LEMMA DivNat == ASSUME NEW n \in Nat, NEW d \in Nat \ {0} PROVE n \div d \in Nat /\ n % d \in 0 .. n
<1>1. n = d * (n \div d) + (n % d) /\ n % d \in 0 .. d - 1
  OBVIOUS
<1>2. n \div d \in Nat
  OBVIOUS
<1>3. \A x, y \in Nat : x * y >= 0
  OBVIOUS
<1> QED
  BY <1>1, <1>2, <1>3

LEMMA RadixSquared == Radix * Radix \in Nat \ {0}
  BY CodecAssumption

LEMMA TwoBytes == ASSUME NEW n \in Nat PROVE htons(n) \in Seq(Nat)
<1>1. Radix \in Nat \ {0}
  BY CodecAssumption
<1>2. n \div Radix \in Nat /\ n % Radix \in Nat
  BY <1>1, DivNat
<1>3. (n \div Radix) % Radix \in Nat
  BY <1>1, <1>2, DivNat
<1> QED
  BY <1>2, <1>3 DEF htons

LEMMA FourBytes == ASSUME NEW n \in Nat PROVE htonl(n) \in Seq(Nat)
<1>1. n \div (Radix * Radix) \in Nat
  BY RadixSquared, DivNat
<1>2. htons(n \div (Radix * Radix)) \in Seq(Nat) /\ htons(n) \in Seq(Nat)
  BY <1>1, TwoBytes
<1> QED
  BY <1>2, ConcatProperties DEF htonl

LEMMA HeaderNat == ASSUME NEW bits PROVE Header(bits) \in Nat
  BY DEF Header, Bit

LEMMA LengthsRead ==
  ASSUME NEW b1 \in Nat, NEW b2 \in Nat, NEW b3 \in Nat, NEW b4 \in Nat
  PROVE  ntohs(b1, b2) \in Nat /\ ntohl(b1, b2, b3, b4) \in Nat
<1>1. \A x, y \in Nat : x * y \in Nat /\ x + y \in Nat
  OBVIOUS
<1>2. Radix \in Nat /\ Radix * Radix \in Nat
  BY CodecAssumption, RadixSquared
<1>3. ntohs(b1, b2) \in Nat /\ ntohs(b3, b4) \in Nat
  BY <1>1, <1>2 DEF ntohs
<1> QED
  BY <1>1, <1>2, <1>3 DEF ntohl

(* What is built of bytes of two lengths is a sequence of them, and not    *)
(* empty.                                                                  *)
LEMMA EncodedBytes ==
  ASSUME NEW d, d.key_length \in Nat, d.value_length \in Nat,
         \A i \in 1 .. d.key_length : d.key[i] \in Nat,
         \A i \in 1 .. d.value_length : d.value[i] \in Nat
  PROVE  encode_clientProtocol(d) \in Seq(Nat) /\ encode_clientProtocol(d) # <<>>
<1> DEFINE first == <<Header(d.bits)>> \o htons(d.key_length) \o htonl(d.value_length)
           key   == SubSeq(d.key, 1, d.key_length)
           value == SubSeq(d.value, 1, d.value_length)
<1>1. htons(d.key_length) \in Seq(Nat) /\ htonl(d.value_length) \in Seq(Nat)
  BY TwoBytes, FourBytes
<1>2. <<Header(d.bits)>> \in Seq(Nat) /\ Len(<<Header(d.bits)>>) = 1
  BY HeaderNat
<1>3. <<Header(d.bits)>> \o htons(d.key_length) \in Seq(Nat)
      /\ Len(<<Header(d.bits)>> \o htons(d.key_length)) >= 1
  BY <1>1, <1>2, ConcatProperties, LenProperties
<1>4. first \in Seq(Nat) /\ Len(first) >= 1
  BY <1>1, <1>3, ConcatProperties, LenProperties
<1>5. key \in Seq(Nat) /\ value \in Seq(Nat)
  <2>1. key \in Seq(Nat)
    BY SubSeqProperties
  <2>2. value \in Seq(Nat)
    BY SubSeqProperties
  <2> QED
    BY <2>1, <2>2
<1>6. first \o key \in Seq(Nat) /\ Len(first \o key) >= 1
  BY <1>4, <1>5, ConcatProperties, LenProperties
<1>7. first \o key \o value \in Seq(Nat) /\ Len(first \o key \o value) >= 1
  BY <1>5, <1>6, ConcatProperties, LenProperties
<1>8. encode_clientProtocol(d) = first \o key \o value
  BY DEF encode_clientProtocol
<1> QED
  BY <1>7, <1>8, EmptySeq

LEMMA Acknowledged == ASSUME NEW op PROVE Acknowledge(op) \in Seq(Nat)
<1>1. <<Header({"act", op})>> \in Seq(Nat) /\ htons(0) \in Seq(Nat) /\ htonl(0) \in Seq(Nat)
  <2>1. Header({"act", op}) \in Nat
    BY HeaderNat
  <2> QED
    BY <2>1, TwoBytes, FourBytes
<1>2. <<Header({"act", op})>> \o htons(0) \in Seq(Nat)
  BY <1>1, ConcatProperties
<1> QED
  BY <1>1, <1>2, ConcatProperties DEF Acknowledge

(* Whatever a peer takes for a request has lengths, and a key and a value  *)
(* of these lengths.                                                       *)
LEMMA Decoded ==
  ASSUME NEW msg \in Seq(Nat), NEW beyond \in byte8
  PROVE  LET d == decode_clientProtocol(msg, beyond)
         IN /\ d.key_length \in Nat /\ d.key \in [1 .. d.key_length -> Nat]
            /\ d.value_length \in Nat /\ d.value \in [1 .. d.value_length -> Nat]
<1> DEFINE At(i) == IF i <= Len(msg) THEN msg[i] ELSE beyond
<1>1. beyond \in Nat
  BY CodecAssumption DEF byte8
<1>2. \A i \in Nat \ {0} : At(i) \in Nat
  BY <1>1, ElementOfSeq, LenProperties
<1>3. At(2) \in Nat /\ At(3) \in Nat /\ At(4) \in Nat /\ At(5) \in Nat /\ At(6) \in Nat /\ At(7) \in Nat
  BY <1>2
<1> DEFINE key_length   == ntohs(At(2), At(3))
           value_length == ntohl(At(4), At(5), At(6), At(7))
<1>4. key_length \in Nat /\ value_length \in Nat
  <2> HIDE DEF At
  <2> QED
    BY <1>3, LengthsRead
<1>5. \A i \in 1 .. key_length : At(HeaderSize + i) \in Nat
  <2> HIDE DEF At, key_length
  <2> QED
    BY <1>2, <1>4 DEF HeaderSize
<1>6. \A i \in 1 .. value_length : At(HeaderSize + key_length + i) \in Nat
  <2> HIDE DEF At, key_length, value_length
  <2> QED
    BY <1>2, <1>4 DEF HeaderSize
<1> HIDE DEF At, key_length, value_length
<1>7. [i \in 1 .. key_length |-> At(HeaderSize + i)] \in [1 .. key_length -> Nat]
  BY <1>5
<1>8. [i \in 1 .. value_length |-> At(HeaderSize + key_length + i)] \in [1 .. value_length -> Nat]
  BY <1>6
<1>9. decode_clientProtocol(msg, beyond)
        = [bits |-> Bits(msg[1]), key_length |-> key_length, value_length |-> value_length,
           key |-> [i \in 1 .. key_length |-> At(HeaderSize + i)],
           value |-> [i \in 1 .. value_length |-> At(HeaderSize + key_length + i)]]
  BY DEF decode_clientProtocol, At, key_length, value_length
<1> QED
  BY <1>4, <1>7, <1>8, <1>9

LEMMA RequestBytes ==
  ASSUME NEW r \in Requests
  PROVE  encode_clientProtocol(RequestStruct(r)) \in Seq(Nat) \ {<<>>}
<1> DEFINE d == RequestStruct(r)
<1>1. byte8 \subseteq Nat
  BY CodecAssumption DEF byte8
<1>2. r.key \in Seq(Nat) /\ r.value \in Seq(Nat)
  BY <1>1, ExchangeAssumption, SeqMonotonic
<1>3. d.key = r.key /\ d.key_length = Len(r.key) % (Radix * Radix)
  BY DEF RequestStruct
<1>4. d.key_length \in 0 .. Len(r.key)
  <2> DEFINE square == Radix * Radix
  <2>1. square \in Nat \ {0} /\ Len(r.key) \in Nat
    BY <1>2, RadixSquared, LenProperties
  <2> HIDE DEF square
  <2>2. Len(r.key) % square \in 0 .. Len(r.key)
    BY <2>1, DivNat
  <2> QED
    BY <1>3, <2>2 DEF square
<1>5. \A i \in 1 .. d.key_length : d.key[i] \in Nat
  BY <1>2, <1>3, <1>4, ElementOfSeq, LenProperties
<1>6. d.value \in Seq(Nat) /\ d.value_length = Len(d.value)
  BY <1>2, EmptySeq DEF RequestStruct
<1>7. d.value_length \in Nat /\ \A i \in 1 .. d.value_length : d.value[i] \in Nat
  BY <1>6, ElementOfSeq, LenProperties
<1> HIDE DEF d
<1>8. encode_clientProtocol(d) \in Seq(Nat) /\ encode_clientProtocol(d) # <<>>
  BY <1>4, <1>5, <1>7, EncodedBytes
<1> QED
  BY <1>8 DEF d

-----------------------------------------------------------------------------
(* What a receiver does that has got a message to its end.                 *)

LEMMA ServedBytes ==
  ASSUME TypeOK, NEW p \in Peers, NEW msg \in Seq(Nat), NEW beyond \in byte8
  PROVE  Served(table[p], decode_clientProtocol(msg, beyond)) \in Seq(Nat)
<1> DEFINE d == decode_clientProtocol(msg, beyond)
           answer == FoundStruct(d, table[p][d.key])
<1>1. /\ d.key_length \in Nat /\ d.key \in [1 .. d.key_length -> Nat]
      /\ d.value_length \in Nat /\ d.value \in [1 .. d.value_length -> Nat]
  BY Decoded
<1>2. /\ answer.key = d.key /\ answer.key_length = d.key_length
      /\ answer.value = table[p][d.key] /\ answer.value_length = Len(table[p][d.key])
  BY DEF FoundStruct, decode_clientProtocol
<1> HIDE DEF d
<1>3. ASSUME d.key \in DOMAIN table[p]
      PROVE  encode_clientProtocol(answer) \in Seq(Nat)
  <2>1. table[p][d.key] \in Seq(Nat)
    BY <1>3 DEF TypeOK
  <2>2. \A i \in 1 .. answer.key_length : answer.key[i] \in Nat
    BY <1>1, <1>2
  <2>3. answer.value_length \in Nat /\ \A i \in 1 .. answer.value_length : answer.value[i] \in Nat
    BY <1>2, <2>1, ElementOfSeq, LenProperties
  <2> HIDE DEF answer
  <2> QED
    BY <1>1, <1>2, <2>2, <2>3, EncodedBytes
<1>4. Acknowledge("get") \in Seq(Nat) /\ Acknowledge("set") \in Seq(Nat)
      /\ Acknowledge("delete") \in Seq(Nat) /\ <<>> \in Seq(Nat)
  BY Acknowledged, EmptySeq
<1>5. Served(table[p], d) \in Seq(Nat)
  BY <1>3, <1>4 DEF Served
<1> QED
  BY <1>5 DEF d

LEMMA StoredBytes ==
  ASSUME TypeOK, NEW p \in Peers, NEW msg \in Seq(Nat), NEW beyond \in byte8,
         NEW kv, kv = Stored(table[p], decode_clientProtocol(msg, beyond))
  PROVE  \A k \in DOMAIN kv : kv[k] \in Seq(Nat)
<1> DEFINE d == decode_clientProtocol(msg, beyond)
<1>1. d.value_length \in Nat /\ d.value \in [1 .. d.value_length -> Nat]
  BY Decoded
<1> HIDE DEF d
<1>2. d.value \in Seq(Nat)
  BY <1>1, SeqDef
<1>3. \A k \in DOMAIN table[p] : table[p][k] \in Seq(Nat)
  BY DEF TypeOK
<1>4. kv = Stored(table[p], d)
  BY DEF d
<1>5. CASE "set" \in d.bits
  <2>1. kv = [k \in DOMAIN table[p] \union {d.key} |-> IF k = d.key THEN d.value ELSE table[p][k]]
    BY <1>4, <1>5 DEF Stored
  <2> QED
    BY <1>2, <1>3, <2>1
<1>6. CASE "set" \notin d.bits /\ "delete" \in d.bits
  <2>1. kv = [k \in DOMAIN table[p] \ {d.key} |-> table[p][k]]
    BY <1>4, <1>6 DEF Stored
  <2> QED
    BY <1>3, <2>1
<1>7. CASE "set" \notin d.bits /\ "delete" \notin d.bits
  BY <1>3, <1>4, <1>7 DEF Stored
<1> QED
  BY <1>5, <1>6, <1>7

(* The bytes s sends to another receiver, and those that wait from then   *)
(* on.                                                                     *)
Sends(s, data, to, bytes, waiting) ==
  \/ s \in Peers /\ to = Twin[s] /\ waiting = {}
  \/ s = "peer" /\ to = "next" /\ bytes = data /\ waiting = {"next", "redirect"}
  \/ s = "redirect" /\ to = "client" /\ waiting = {}
  \/ s = "client" /\ to = "client" /\ bytes = <<>> /\ waiting = {} /\ data # <<>>

(* It hands on what it has got, and its caller sends something ...         *)
HandsOn(s, data, rest) ==
  \E to \in Receivers, bytes \in Seq(Nat), waiting \in SUBSET Receivers :
    Pass(s, data, to, bytes, waiting, rest) /\ Sends(s, data, to, bytes, waiting)

(* ... or that was the last it did.                                        *)
Stops(s, data, rest) ==
  /\ \E end \in {"crashed", "reset", "strayed"} : state' = [state EXCEPT ![s] = end]
  /\ \E seen \in {given[s], <<>>, data} : given' = [given EXCEPT ![s] = seen]
  /\ stream' = [stream EXCEPT ![s] = rest]
  /\ UNCHANGED sent

OwnTable(s) ==
  /\ DOMAIN table' = Peers
  /\ \A p \in Peers : \A k \in DOMAIN table'[p] : table'[p][k] \in Seq(Nat)
  /\ \A p \in Peers : p # s => table'[p] = table[p]

LEMMA Responds ==
  ASSUME TypeOK, NEW s \in Peers, NEW data \in Seq(Nat), NEW rest \in Seq(Nat),
         NEW beyond \in byte8, Respond(s, data, decode_clientProtocol(data, beyond), rest)
  PROVE  (HandsOn(s, data, rest) \/ Stops(s, data, rest)) /\ OwnTable(s)
<1> DEFINE d == decode_clientProtocol(data, beyond)
<1>1. CASE Faults(table[s], d)
  <2>1. Stops(s, data, rest)
    BY <1>1 DEF Respond, Die, Stop, Stops
  <2>2. table' = table
    BY <1>1 DEF Respond, Die, Stop
  <2> QED
    BY <2>1, <2>2 DEF TypeOK, OwnTable
<1>2. CASE ~ Faults(table[s], d)
  <2>1. Pass(s, data, Twin[s], Served(table[s], d), {}, rest)
    BY <1>2 DEF Respond
  <2>2. Served(table[s], d) \in Seq(Nat) /\ Twin[s] \in Receivers
    <3>1. Served(table[s], d) \in Seq(Nat)
      BY ServedBytes
    <3>2. Twin[s] \in Receivers
      BY DEF Twin, Peers, Receivers
    <3> QED
      BY <3>1, <3>2
  <2>3. HandsOn(s, data, rest)
    <3> HIDE DEF d
    <3> QED
      BY <2>1, <2>2 DEF HandsOn, Sends
  <2>4. table' = [table EXCEPT ![s] = Stored(table[s], d)]
    BY <1>2 DEF Respond
  <2>5. \A k \in DOMAIN Stored(table[s], d) : Stored(table[s], d)[k] \in Seq(Nat)
    BY StoredBytes
  <2>6. OwnTable(s)
    <3> HIDE DEF d
    <3> QED
      BY <2>4, <2>5 DEF TypeOK, OwnTable
  <2> QED
    BY <2>3, <2>6
<1> QED
  BY <1>1, <1>2

(* What the caller finds has the length of what the buffers held, and its  *)
(* bytes where they are allocated.                                         *)
Reads(data, moves, got) ==
  /\ got \in Seq(Nat) /\ Len(got) = Len(data)
  /\ \A i \in 1 .. Len(got) : Intact(moves, i) => got[i] = data[i]

LEMMA FoundRead ==
  ASSUME NEW data \in Seq(Nat), NEW moves \in SUBSET Int, NEW left \in Nat, NEW junk \in Nat
  PROVE  Reads(data, moves, Found(data, moves, left, junk))
<1> DEFINE Right(i) == \A m \in moves : i <= (m - 1) * BUFFER_SIZE + left
           got == [i \in 1 .. Len(data) |-> IF Right(i) THEN data[i] ELSE junk]
<1>1. \A m \in moves : (m - 1) * BUFFER_SIZE \in Int
  BY ExchangeAssumption
<1>2. ASSUME NEW i \in 1 .. Len(data), Intact(moves, i) PROVE Right(i)
  BY <1>1, <1>2 DEF Intact
<1> HIDE DEF Right
<1>3. Len(data) \in Nat /\ \A i \in 1 .. Len(data) : data[i] \in Nat
  BY LenProperties, ElementOfSeq
<1>4. got \in Seq(Nat) /\ Len(got) = Len(data) /\ \A i \in 1 .. Len(data) : Right(i) => got[i] = data[i]
  BY <1>3
<1>5. Found(data, moves, left, junk) = got
  BY DEF Found, Right
<1> HIDE DEF got
<1> QED
  BY <1>2, <1>3, <1>4, <1>5 DEF Reads

(* Without a moved block that is everything.                               *)
LEMMA ReadsAll ==
  ASSUME NEW data \in Seq(Nat), NEW got, Reads(data, {}, got)
  PROVE  got = data
<1>1. got \in Seq(Nat) /\ Len(got) = Len(data) /\ \A i \in 1 .. Len(got) : got[i] = data[i]
  BY DEF Reads, Intact
<1> QED
  BY <1>1, SeqEqual

LEMMA GrowingCalls == ASSUME TypeOK, NEW s \in Receivers, NEW last PROVE Growing(s, last) \subseteq Int
<1>1. Len(held[s]) \in Nat
  BY LenProperties DEF TypeOK
<1>2. Depth(s) \in Nat
  BY <1>1, DivNat, ExchangeAssumption DEF Depth
<1> QED
  BY <1>2 DEF Growing

(* What an unwinding does, with what the caller finds.                     *)
Handled(s, got, junk, rest) ==
  \/ s \in Peers    /\ receive_handler(s, got, junk, rest)
  \/ s = "redirect" /\ Redirect(got, rest)
  \/ s = "client"   /\ ClientDone(got, junk, rest)

LEMMA Unwound ==
  ASSUME TypeOK, NEW s \in Receivers, NEW last \in Seq(Nat), NEW rest \in Seq(Nat),
         Unwind(s, last, rest)
  PROVE  \E moves \in SUBSET Growing(s, last), junk \in byte8 : \E got \in Seq(Nat) :
           /\ moves \in SUBSET Int
           /\ moved' = [moved EXCEPT ![s] = moves]
           /\ Reads(held[s] \o last, moves, got)
           /\ (moves # {} /\ Die(s, <<>>, rest)) \/ Handled(s, got, junk, rest)
<1> DEFINE data == held[s] \o last
<1>1. data \in Seq(Nat)
  BY ConcatProperties DEF TypeOK
<1> HIDE DEF data
<1>2. PICK moves \in SUBSET Growing(s, last), left \in {0, BUFFER_SIZE}, junk \in byte8 :
        /\ moved' = [moved EXCEPT ![s] = moves]
        /\ (moves # {} /\ Die(s, <<>>, rest)) \/ Handled(s, Found(data, moves, left, junk), junk, rest)
  BY DEF Unwind, Collected, data, Handled
<1> DEFINE got == Found(data, moves, left, junk)
<1>3. moves \in SUBSET Int
  BY GrowingCalls
<1>4. Reads(data, moves, got)
  <2>1. left \in Nat /\ junk \in Nat
    BY ExchangeAssumption, CodecAssumption DEF byte8
  <2> QED
    BY <1>1, <1>3, <2>1, FoundRead
<1>5. got \in Seq(Nat)
  BY <1>4 DEF Reads
<1> HIDE DEF got
<1> QED
  BY <1>2, <1>3, <1>4, <1>5 DEF data, got

LEMMA HandledSo ==
  ASSUME TypeOK, NEW s \in Receivers, NEW got \in Seq(Nat), NEW rest \in Seq(Nat),
         NEW junk \in byte8, Handled(s, got, junk, rest)
  PROVE  (HandsOn(s, got, rest) \/ Stops(s, got, rest)) /\ OwnTable(s)
<1>1. ASSUME UNCHANGED table PROVE OwnTable(s)
  BY <1>1 DEF TypeOK, OwnTable
<1>2. ASSUME NEW end \in {"crashed", "strayed"}, NEW seen \in {<<>>, got}, Stop(s, end, seen, rest)
      PROVE  Stops(s, got, rest) /\ OwnTable(s)
  BY <1>1, <1>2 DEF Stop, Stops
<1>3. CASE s \in Peers /\ receive_handler(s, got, junk, rest)
  <2> DEFINE d == decode_clientProtocol(got, junk)
  <2>1. CASE Respond(s, got, d, rest)
    BY <1>3, <2>1, Responds
  <2> HIDE DEF d
  <2>2. CASE s = "peer" /\ Relay(got, d, rest)
    <3>1. Pass("peer", got, "next", got, {"next", "redirect"}, rest) /\ UNCHANGED table
      BY <2>2 DEF Relay
    <3>2. "next" \in Receivers /\ {"next", "redirect"} \in SUBSET Receivers
      BY DEF Receivers, Peers
    <3>3. HandsOn(s, got, rest)
      BY <2>2, <3>1, <3>2 DEF HandsOn, Sends
    <3> QED
      BY <1>1, <3>1, <3>3
  <2>3. CASE Stray(s, got, d, rest)
    BY <1>2, <2>3 DEF Stray
  <2>4. CASE Die(s, got, rest) \/ Stop(s, "strayed", got, rest)
    BY <1>2, <2>4 DEF Die
  <2> QED
    BY <1>3, <2>1, <2>2, <2>3, <2>4 DEF receive_handler, d
<1>4. CASE s = "redirect" /\ Redirect(got, rest)
  <2>1. HandsOn(s, got, rest)
    BY <1>4 DEF Redirect, HandsOn, Sends, Receivers
  <2> QED
    BY <1>1, <1>4, <2>1 DEF Redirect
<1>5. CASE s = "client" /\ ClientDone(got, junk, rest)
  <2>1. CASE Die("client", got, rest)
    BY <1>2, <1>5, <2>1 DEF Die
  <2>2. CASE got # <<>> /\ Pass("client", got, "client", <<>>, {}, rest) /\ UNCHANGED table
    <3>1. HandsOn(s, got, rest)
      BY <1>5, <2>2, EmptySeq DEF HandsOn, Sends, Receivers
    <3> QED
      BY <1>1, <2>2, <3>1
  <2> QED
    BY <1>5, <2>1, <2>2 DEF ClientDone
<1> QED
  BY <1>3, <1>4, <1>5 DEF Handled

LEMMA Unwinds ==
  ASSUME TypeOK, NEW s \in Receivers, NEW last \in Seq(Nat), NEW rest \in Seq(Nat),
         Unwind(s, last, rest)
  PROVE  \E moves \in SUBSET Int, got \in Seq(Nat) :
           /\ moved' = [moved EXCEPT ![s] = moves]
           /\ Reads(held[s] \o last, moves, got)
           /\ HandsOn(s, got, rest) \/ Stops(s, got, rest)
           /\ OwnTable(s)
<1>1. PICK moves \in SUBSET Int, junk \in byte8 : \E got \in Seq(Nat) :
        /\ moved' = [moved EXCEPT ![s] = moves]
        /\ Reads(held[s] \o last, moves, got)
        /\ (moves # {} /\ Die(s, <<>>, rest)) \/ Handled(s, got, junk, rest)
  BY Unwound
<1>2. PICK got \in Seq(Nat) :
        /\ moved' = [moved EXCEPT ![s] = moves]
        /\ Reads(held[s] \o last, moves, got)
        /\ (moves # {} /\ Die(s, <<>>, rest)) \/ Handled(s, got, junk, rest)
  BY <1>1
<1>3. CASE Die(s, <<>>, rest)
  <2>1. Stops(s, got, rest) /\ UNCHANGED table
    BY <1>3 DEF Die, Stop, Stops
  <2> QED
    BY <1>2, <2>1 DEF TypeOK, OwnTable
<1>4. CASE Handled(s, got, junk, rest)
  BY <1>2, <1>4, HandledSo
<1> QED
  BY <1>2, <1>3, <1>4

-----------------------------------------------------------------------------
(* The invariant.                                                          *)

LEMMA Associative == \A a, b, c \in Seq(Nat) : (a \o b) \o c = a \o (b \o c)
  BY SMTT(30), ConcatAssociative

(* What a receiver is sent to go on with has not been handed on yet.       *)
LEMMA SentInTurn ==
  ASSUME InTurn, NEW s \in Receivers, state[s] = "recv", NEW data,
         NEW to \in Receivers, NEW bytes, NEW waiting \in SUBSET Receivers,
         Sends(s, data, to, bytes, waiting)
  PROVE  /\ s = to => s = "client" /\ bytes = <<>>
         /\ s # to => state[to] # "called" /\ (state[to] = "idle" => to \in waiting)
         /\ waiting # {} => s = "peer" /\ to = "next" /\ bytes = data
         /\ \A w \in waiting : w # s /\ w # "client" /\ state[w] = "idle"
<1>1. state["client"] # "idle"
  BY DEF InTurn
<1>2. CASE s = "peer" /\ to = "client" /\ waiting = {}
  BY <1>1, <1>2 DEF InTurn
<1>3. CASE s = "next" /\ to = "redirect" /\ waiting = {}
  BY <1>3 DEF InTurn
<1>4. CASE s = "peer" /\ to = "next" /\ bytes = data /\ waiting = {"next", "redirect"}
  BY <1>4 DEF InTurn
<1>5. CASE s = "redirect" /\ to = "client" /\ waiting = {}
  BY <1>1, <1>5 DEF InTurn
<1>6. CASE s = "client" /\ to = "client" /\ bytes = <<>> /\ waiting = {}
  BY <1>6
<1> QED
  BY <1>2, <1>3, <1>4, <1>5, <1>6 DEF Sends, Twin, Peers

(* What is given has the length of what was sent by then, or less.         *)
AsSent(g, q, moves) ==
  /\ Len(g) <= Len(q)
  /\ \A i \in 1 .. Len(g) : Intact(moves, i) => g[i] = q[i]

LEMMA StaysAsSent ==
  ASSUME NEW g \in Seq(Nat), NEW q \in Seq(Nat), NEW r \in Seq(Nat), NEW moves,
         AsSent(g, q, moves)
  PROVE  AsSent(g, q \o r, moves)
<1>1. /\ Len(g) \in Nat /\ Len(q) \in Nat /\ Len(r) \in Nat
      /\ Len(q \o r) = Len(q) + Len(r)
      /\ \A i \in 1 .. Len(q) + Len(r) : (q \o r)[i] = IF i <= Len(q) THEN q[i] ELSE r[i - Len(q)]
  BY LenProperties, ConcatProperties
<1>2. \A i \in 1 .. Len(g) : (q \o r)[i] = q[i]
  BY <1>1 DEF AsSent
<1>3. Len(g) <= Len(q \o r)
  BY <1>1 DEF AsSent
<1>4. ASSUME NEW i \in 1 .. Len(g), Intact(moves, i) PROVE g[i] = (q \o r)[i]
  <2>1. g[i] = q[i]
    BY <1>4 DEF AsSent
  <2> QED
    BY <1>2, <2>1
<1> QED
  BY <1>3, <1>4 DEF AsSent

LEMMA HandOnStep ==
  ASSUME ExchangeInv, NEW s \in Receivers, state[s] = "recv",
         NEW last \in Seq(Nat), NEW rest \in Seq(Nat), stream[s] = last \o rest,
         ~ split => rest = <<>>, s \in Peers => held[s] \o last # <<>>,
         s = "redirect" => state["next"] # "recv",
         NEW moves \in SUBSET Int, NEW data \in Seq(Nat), moved' = [moved EXCEPT ![s] = moves],
         Reads(held[s] \o last, moves, data),
         HandsOn(s, data, rest), OwnTable(s), UNCHANGED <<split, held>>
  PROVE  ExchangeInv'
<1>1. PICK to \in Receivers, bytes \in Seq(Nat), waiting \in SUBSET Receivers :
        Pass(s, data, to, bytes, waiting, rest) /\ Sends(s, data, to, bytes, waiting)
  BY DEF HandsOn
<1>2. /\ s = to => s = "client" /\ bytes = <<>>
      /\ s # to => state[to] # "called" /\ (state[to] = "idle" => to \in waiting)
      /\ waiting # {} => s = "peer" /\ to = "next" /\ bytes = data
      /\ \A w \in waiting : w # s /\ w # "client" /\ state[w] = "idle"
  <2>1. InTurn
    BY DEF ExchangeInv
  <2> QED
    BY <1>1, <2>1, SentInTurn
<1> DEFINE full == held[s] \o last
<1>3. /\ data \in Seq(Nat) /\ full \in Seq(Nat)
      /\ sent[s] = full \o rest
      /\ Len(data) = Len(full)
      /\ \A i \in 1 .. Len(data) : Intact(moves, i) => data[i] = full[i]
      /\ s \in Peers => data # <<>>
      /\ s = "client" => data # <<>>
  <2>1. held[s] \in Seq(Nat) /\ sent[s] = held[s] \o (last \o rest)
    BY DEF ExchangeInv, TypeOK, Waiting
  <2>2. full \in Seq(Nat) /\ (held[s] \o last) \o rest = held[s] \o (last \o rest)
    BY <2>1, ConcatProperties, Associative
  <2>3. s = "client" => data # <<>>
    BY <1>1 DEF Peers, Sends
  <2>4. sent[s] = full \o rest
    BY <2>1, <2>2
  <2>5. Len(data) = Len(full) /\ \A i \in 1 .. Len(data) : Intact(moves, i) => data[i] = full[i]
    BY DEF Reads
  <2>6. s \in Peers => data # <<>>
    <3>1. full # <<>> => Len(full) # 0
      BY <2>2, EmptySeq
    <3> HIDE DEF full
    <3> QED
      BY <2>5, <3>1, EmptySeq DEF full
  <2> QED
    BY <2>2, <2>3, <2>4, <2>5, <2>6
<1> HIDE DEF full
<1>4. /\ given'  = [given EXCEPT ![s] = data]
      /\ sent'   = [sent EXCEPT ![to] = sent[to] \o bytes]
      /\ state'  = [r \in Receivers |-> IF r \in waiting THEN "recv" ELSE IF r = s THEN "called" ELSE state[r]]
  BY <1>1 DEF Pass
<1>5. /\ s # to => stream' = [r \in Receivers |-> IF r = s THEN rest ELSE IF r = to THEN stream[to] \o bytes
                                                  ELSE stream[r]]
      /\ s = to => stream' = [r \in Receivers |-> IF r = s THEN rest ELSE stream[r]]
      /\ s = to => sent' = sent
  <2>1. stream' = [r \in Receivers |-> (IF r = s THEN rest ELSE stream[r])
                                        \o (IF r = to THEN bytes ELSE <<>>)]
    BY <1>1 DEF Pass
  <2>2. \A r \in Receivers : stream[r] \in Seq(Nat) /\ stream[r] \o <<>> = stream[r]
    BY ConcatEmptySeq DEF ExchangeInv, TypeOK
  <2>3. rest \o <<>> = rest /\ sent[to] \o <<>> = sent[to]
    BY ConcatEmptySeq DEF ExchangeInv, TypeOK
  <2>4. CASE s # to
    BY <2>1, <2>2, <2>3, <2>4
  <2>5. CASE s = to
    <3>1. sent' = [sent EXCEPT ![to] = sent[to]]
      BY <1>2, <1>4, <2>3, <2>5
    <3>2. sent \in [Receivers -> Seq(Nat)]
      BY DEF ExchangeInv, TypeOK
    <3> QED
      BY <1>2, <2>1, <2>2, <2>3, <2>5, <3>1, <3>2
  <2> QED
    BY <2>4, <2>5
<1>6. sent[to] \in Seq(Nat) /\ stream[to] \in Seq(Nat)
      /\ sent[to] \o bytes \in Seq(Nat) /\ stream[to] \o bytes \in Seq(Nat)
  BY ConcatProperties DEF ExchangeInv, TypeOK
<1>7. TypeOK'
  <2>1. state' \in [Receivers -> States] /\ sent' \in [Receivers -> Seq(Nat)] /\ given' \in [Receivers -> Seq(Nat)]
    BY <1>3, <1>4, <1>6 DEF ExchangeInv, TypeOK, States
  <2>2. stream' \in [Receivers -> Seq(Nat)]
    BY <1>5, <1>6 DEF ExchangeInv, TypeOK
  <2>3. moved' \in [Receivers -> SUBSET Int]
    BY DEF ExchangeInv, TypeOK
  <2> QED
    BY <2>1, <2>2, <2>3 DEF ExchangeInv, TypeOK, OwnTable
<1>8. ASSUME NEW r \in Receivers, state'[r] = "recv"
      PROVE  /\ sent'[r] = held'[r] \o stream'[r]
             /\ Len(held'[r]) % BUFFER_SIZE = 0
             /\ given'[r] = <<>>
             /\ r \in Peers => sent'[r] # <<>>
  <2>1. r # s /\ sent[r] \in Seq(Nat) /\ stream[r] \in Seq(Nat) /\ held[r] \in Seq(Nat)
    BY <1>2, <1>4, <1>8 DEF ExchangeInv, TypeOK
  <2>2. given'[r] = given[r] /\ held'[r] = held[r]
    BY <1>4, <2>1 DEF ExchangeInv, TypeOK
  <2>3. CASE r \in waiting
    <3>1. sent[r] = <<>> /\ stream[r] = <<>> /\ held[r] = <<>> /\ given[r] = <<>>
      BY <1>2, <2>3 DEF ExchangeInv, Untouched
    <3>2. Len(held[r]) % BUFFER_SIZE = 0
      BY <3>1, EmptySeq, ExchangeAssumption
    <3>3. CASE r = to
      <4>1. sent'[r] = sent[r] \o data /\ stream'[r] = stream[r] \o data
        BY <1>2, <1>4, <1>5, <2>1, <2>3, <3>3 DEF ExchangeInv, TypeOK
      <4>2. sent'[r] = data /\ stream'[r] = data /\ held[r] \o data = data
        BY <1>3, <3>1, <4>1, ConcatEmptySeq
      <4>3. data # <<>>
        BY <1>2, <1>3, <2>3 DEF Peers
      <4> QED
        BY <2>2, <3>1, <3>2, <4>2, <4>3
    <3>4. CASE r # to
      <4>1. sent'[r] = <<>> /\ stream'[r] = <<>>
        BY <1>4, <1>5, <2>1, <3>1, <3>4 DEF ExchangeInv, TypeOK
      <4>2. r \notin Peers
        BY <1>1, <1>2, <2>3, <3>4 DEF Peers, Sends
      <4> QED
        BY <2>1, <2>2, <3>1, <3>2, <4>1, <4>2, ConcatEmptySeq
    <3> QED
      BY <3>3, <3>4
  <2>4. CASE r \notin waiting
    <3>1. state[r] = "recv"
      BY <1>4, <1>8, <2>1, <2>4
    <3>2. /\ sent[r] = held[r] \o stream[r]
          /\ Len(held[r]) % BUFFER_SIZE = 0
          /\ given[r] = <<>>
          /\ r \in Peers => sent[r] # <<>>
      BY <3>1 DEF ExchangeInv, Waiting
    <3>3. CASE r = to
      <4>1. sent'[r] = sent[r] \o bytes /\ stream'[r] = stream[r] \o bytes
        BY <1>4, <1>5, <2>1, <3>3 DEF ExchangeInv, TypeOK
      <4>2. (held[r] \o stream[r]) \o bytes = held[r] \o (stream[r] \o bytes)
        BY ZenonT(60), <2>1, Associative
      <4>3. r \in Peers => sent'[r] # <<>>
        BY <2>1, <3>2, <4>1, ConcatEqualIffEmpty
      <4> QED
        BY <2>2, <3>2, <4>1, <4>2, <4>3
    <3>4. CASE r # to
      <4>1. sent'[r] = sent[r] /\ stream'[r] = stream[r]
        BY <1>4, <1>5, <2>1, <3>4 DEF ExchangeInv, TypeOK
      <4> QED
        BY <2>2, <3>2, <4>1
    <3> QED
      BY <3>3, <3>4
  <2> QED
    BY <2>3, <2>4
<1>9. ASSUME NEW r \in Receivers PROVE Untouched(r)'
  <2>1. SUFFICES ASSUME state'[r] = "idle"
                 PROVE  /\ sent'[r] = <<>> /\ stream'[r] = <<>> /\ held'[r] = <<>>
                        /\ moved'[r] = {} /\ given'[r] = <<>>
    BY DEF Untouched
  <2>2. r # s /\ r \notin waiting /\ state[r] = "idle"
    BY <1>4, <2>1
  <2>3. r # to
    BY <1>2, <2>2
  <2>4. /\ sent'[r] = sent[r] /\ stream'[r] = stream[r] /\ held'[r] = held[r]
        /\ moved'[r] = moved[r] /\ given'[r] = given[r]
    BY <1>4, <1>5, <2>2, <2>3 DEF ExchangeInv, TypeOK
  <2> QED
    BY <2>2, <2>4 DEF ExchangeInv, Untouched
<1>10. ASSUME NEW r \in Receivers, state'[r] # "reset"
       PROVE  /\ Len(given'[r]) <= Len(sent'[r])
              /\ ~ split' /\ state'[r] = "called" => Len(given'[r]) = Len(sent'[r])
              /\ \A i \in 1 .. Len(given'[r]) : Intact(moved'[r], i) => given'[r][i] = sent'[r][i]
  <2>1. CASE r = s
    <3>1. given'[r] = data /\ sent'[r] = full \o rest /\ moved'[r] = moves
      <4>1. s # to => sent'[s] = sent[s]
        BY <1>4 DEF ExchangeInv, TypeOK
      <4>2. given'[s] = data /\ moved'[s] = moves
        BY <1>4 DEF ExchangeInv, TypeOK
      <4> QED
        BY <1>3, <1>5, <2>1, <4>1, <4>2
    <3>2. Len(data) <= Len(full)
      BY <1>3, LenProperties
    <3>3. AsSent(data, full \o rest, moves)
      <4>1. AsSent(data, full, moves)
        BY <1>3, <3>2 DEF AsSent
      <4> QED
        BY <1>3, <4>1, StaysAsSent
    <3>4. ~ split => Len(data) = Len(full \o rest)
      BY <1>3, ConcatEmptySeq
    <3> QED
      BY <3>1, <3>3, <3>4 DEF AsSent
  <2>2. ASSUME r # s
        PROVE  /\ given'[r] = given[r] /\ moved'[r] = moved[r] /\ state[r] # "reset"
               /\ state'[r] = "called" => state[r] = "called"
               /\ given[r] \in Seq(Nat) /\ sent[r] \in Seq(Nat)
    BY <1>2, <1>4, <1>10, <2>2 DEF ExchangeInv, TypeOK
  <2>3. state[r] # "reset" =>
          /\ Len(given[r]) <= Len(sent[r])
          /\ ~ split /\ state[r] = "called" => Len(given[r]) = Len(sent[r])
          /\ \A i \in 1 .. Len(given[r]) : Intact(moved[r], i) => given[r][i] = sent[r][i]
    BY DEF ExchangeInv, GivenAsSent
  <2>4. CASE r # s /\ r = to
    <3>1. sent'[r] = sent[r] \o bytes
      BY <1>4, <2>4 DEF ExchangeInv, TypeOK
    <3>2. AsSent(given[r], sent[r] \o bytes, moved[r])
      <4>1. AsSent(given[r], sent[r], moved[r])
        BY <2>2, <2>3, <2>4 DEF AsSent
      <4> QED
        BY <2>2, <2>4, <4>1, StaysAsSent
    <3>3. state'[r] # "called"
      BY <1>2, <1>4, <2>4
    <3> QED
      BY <2>2, <2>4, <3>1, <3>2, <3>3 DEF AsSent
  <2>5. CASE r # s /\ r # to
    <3>1. sent'[r] = sent[r]
      BY <1>4, <2>5 DEF ExchangeInv, TypeOK
    <3> QED
      BY <2>2, <2>3, <2>5, <3>1
  <2> QED
    BY <2>1, <2>4, <2>5
<1>11. InTurn'
  <2>1. \A r \in Receivers : r # to => sent'[r] = sent[r]
    BY <1>4 DEF ExchangeInv, TypeOK
  <2>2. s = "client" => sent["client"] # <<>>
    <3>1. data # <<>> => full # <<>>
      <4>1. data # <<>> => Len(data) # 0
        BY EmptySeq
      <4>2. full = <<>> => Len(full) = 0
        BY EmptySeq
      <4> QED
        BY <1>3, <4>1, <4>2
    <3> QED
      BY <1>3, <3>1, ConcatEqualIffEmpty
  <2>3. InTurn
    BY DEF ExchangeInv
  <2>4. CASE s = "peer" /\ to = "client" /\ waiting = {}
    BY <1>4, <2>1, <2>3, <2>4 DEF InTurn, Receivers, Peers
  <2>5. CASE s = "next" /\ to = "redirect" /\ waiting = {}
    BY <1>4, <2>1, <2>3, <2>5 DEF InTurn, Receivers, Peers
  <2>6. CASE s = "peer" /\ to = "next" /\ waiting = {"next", "redirect"}
    <3>1. sent["redirect"] = <<>>
      BY <2>3, <2>6 DEF InTurn, ExchangeInv, Untouched, Receivers
    <3> QED
      BY <1>4, <2>1, <2>3, <2>6, <3>1 DEF InTurn, Receivers, Peers
  <2>7. CASE s = "redirect" /\ to = "client" /\ waiting = {}
    BY <1>4, <2>1, <2>3, <2>7 DEF InTurn, Receivers, Peers
  <2>8. CASE s = "client" /\ to = "client" /\ waiting = {}
    <3>1. sent' = sent
      BY <1>5, <2>8
    <3>2. state["peer"] \notin {"idle", "recv"} /\ state["redirect"] # "recv"
      BY <2>2, <2>3, <2>8 DEF InTurn
    <3> QED
      BY <1>4, <2>3, <2>8, <3>1, <3>2 DEF InTurn, Receivers, Peers
  <2> QED
    BY <1>1, <2>4, <2>5, <2>6, <2>7, <2>8 DEF Sends, Twin, Peers
<1> QED
  BY <1>7, <1>8, <1>9, <1>10, <1>11 DEF ExchangeInv, Waiting, GivenAsSent

LEMMA StopStep ==
  ASSUME ExchangeInv, NEW s \in Receivers, state[s] = "recv",
         NEW last \in Seq(Nat), NEW rest \in Seq(Nat), stream[s] = last \o rest,
         s = "redirect" => state["next"] # "recv",
         NEW moves \in SUBSET Int, NEW data \in Seq(Nat), moved' = [moved EXCEPT ![s] = moves],
         Reads(held[s] \o last, moves, data),
         Stops(s, data, rest), OwnTable(s), UNCHANGED <<split, held>>
  PROVE  ExchangeInv'
<1> DEFINE full == held[s] \o last
<1>1. PICK end \in {"crashed", "reset", "strayed"} : state' = [state EXCEPT ![s] = end]
  BY DEF Stops
<1>2. PICK seen \in {given[s], <<>>, data} : given' = [given EXCEPT ![s] = seen]
  BY DEF Stops
<1>3. sent' = sent /\ stream' = [stream EXCEPT ![s] = rest]
  BY DEF Stops
<1>4. held[s] \in Seq(Nat) /\ given[s] = <<>> /\ sent[s] = held[s] \o (last \o rest)
  BY DEF ExchangeInv, TypeOK, Waiting
<1>5. full \in Seq(Nat) /\ (held[s] \o last) \o rest = held[s] \o (last \o rest)
  BY <1>4, ConcatProperties, Associative
<1>6. sent[s] = full \o rest
  BY <1>4, <1>5
<1>7. seen \in Seq(Nat) /\ (seen = <<>> \/ seen = data)
  BY <1>4, EmptySeq
<1>8. /\ Len(seen) <= Len(sent[s])
      /\ \A i \in 1 .. Len(seen) : Intact(moves, i) => seen[i] = sent[s][i]
  <2>1. /\ Len(data) = Len(full)
        /\ \A i \in 1 .. Len(data) : Intact(moves, i) => data[i] = full[i]
    BY DEF Reads
  <2> HIDE DEF full
  <2>2. Len(full) \in Nat /\ Len(<<>>) = 0
    BY <1>5, LenProperties, EmptySeq
  <2>3. AsSent(seen, full, moves)
    <3>1. CASE seen = data
      BY <2>1, <2>2, <3>1 DEF AsSent
    <3>2. CASE seen = <<>>
      BY <2>2, <3>2 DEF AsSent
    <3> QED
      BY <1>7, <3>1, <3>2
  <2>4. seen \in Seq(Nat) /\ full \in Seq(Nat)
    BY <1>5, <1>7
  <2>5. AsSent(seen, full \o rest, moves)
    BY <2>3, <2>4, StaysAsSent
  <2> QED
    BY <1>6, <2>5 DEF AsSent
<1> HIDE DEF full
<1>9. TypeOK'
  BY <1>1, <1>2, <1>3, <1>7 DEF ExchangeInv, TypeOK, States, OwnTable
<1>10. \A r \in Receivers :
         r # s => /\ state'[r] = state[r] /\ given'[r] = given[r] /\ moved'[r] = moved[r]
                  /\ stream'[r] = stream[r] /\ held'[r] = held[r] /\ sent'[r] = sent[r]
  BY <1>1, <1>2, <1>3 DEF ExchangeInv, TypeOK
<1>11. /\ state'[s] \in {"crashed", "reset", "strayed"} /\ given'[s] = seen
       /\ sent'[s] = sent[s] /\ moved'[s] = moves
  BY <1>1, <1>2, <1>3 DEF ExchangeInv, TypeOK
<1>12. Waiting'
  BY <1>10, <1>11 DEF ExchangeInv, Waiting
<1>13. \A r \in Receivers : Untouched(r)'
  BY <1>10, <1>11 DEF ExchangeInv, Untouched
<1>14. GivenAsSent'
  <2> SUFFICES ASSUME NEW r \in Receivers, state'[r] # "reset"
               PROVE  /\ Len(given'[r]) <= Len(sent'[r])
                      /\ ~ split' /\ state'[r] = "called" => Len(given'[r]) = Len(sent'[r])
                      /\ \A i \in 1 .. Len(given'[r]) : Intact(moved'[r], i) => given'[r][i] = sent'[r][i]
    BY DEF GivenAsSent
  <2>1. CASE r = s
    BY <1>8, <1>11, <2>1
  <2>2. CASE r # s
    <3>1. /\ state[r] # "reset" /\ given'[r] = given[r] /\ sent'[r] = sent[r]
          /\ moved'[r] = moved[r] /\ state'[r] = state[r] /\ split' = split
      BY <1>10, <2>2
    <3> QED
      BY <3>1 DEF ExchangeInv, GivenAsSent
  <2> QED
    BY <2>1, <2>2
<1>15. InTurn'
  <2>1. InTurn
    BY DEF ExchangeInv
  <2>2. state["client"] # "idle"
    BY <2>1 DEF InTurn
  <2>3. CASE s = "peer"
    BY <1>3, <1>10, <1>11, <2>1, <2>2, <2>3 DEF InTurn, Receivers, Peers
  <2>4. CASE s = "next"
    BY <1>3, <1>10, <1>11, <2>1, <2>2, <2>4 DEF InTurn, Receivers, Peers
  <2>5. CASE s = "redirect"
    BY <1>3, <1>10, <1>11, <2>1, <2>2, <2>5 DEF InTurn, Receivers, Peers
  <2>6. CASE s = "client"
    BY <1>3, <1>10, <1>11, <2>1, <2>2, <2>6 DEF InTurn, Receivers, Peers
  <2> QED
    BY <2>3, <2>4, <2>5, <2>6 DEF Receivers, Peers
<1> QED
  BY <1>9, <1>12, <1>13, <1>14, <1>15 DEF ExchangeInv

LEMMA AnotherBuffer ==
  ASSUME NEW n \in Nat, NEW d \in Nat \ {0}, n % d = 0
  PROVE  (n + d) % d = 0
<1> DEFINE q == n \div d
           e == (n + d) \div d
           k == q + 1 - e
<1>1. q \in Nat /\ e \in Nat /\ k \in Int
  BY DivNat
<1>2. n = d * q /\ n + d = d * e + ((n + d) % d) /\ (n + d) % d \in 0 .. d - 1
  OBVIOUS
<1> HIDE DEF q, e
<1>3. d * (q + 1) = d * q + d /\ d * k = d * (q + 1) - d * e
  BY <1>1
<1>4. (n + d) % d = d * k
  BY <1>1, <1>2, <1>3
<1>5. k >= 1 => d * k >= d
  BY <1>1
<1>6. k <= -1 => d * k <= -d
  BY <1>1
<1>7. d * k \in 0 .. d - 1
  BY <1>2, <1>4
<1> HIDE DEF k
<1>8. k = 0
  BY <1>1, <1>5, <1>6, <1>7
<1> QED
  BY <1>4, <1>8

(* What one recv of a waiting receiver returns.                            *)
LEMMA Arrival ==
  ASSUME TypeOK, NEW s \in Receivers, stream[s] # <<>>, NEW n \in Arrivals(s),
         NEW bytes, bytes = SubSeq(stream[s], 1, n),
         NEW rest, rest = SubSeq(stream[s], n + 1, Len(stream[s]))
  PROVE  /\ n \in 1 .. BUFFER_SIZE
         /\ bytes \in Seq(Nat) /\ Len(bytes) = n /\ bytes # <<>>
         /\ rest \in Seq(Nat)
         /\ stream[s] = bytes \o rest
         /\ ~ split /\ n < BUFFER_SIZE => rest = <<>>
<1>1. stream[s] \in Seq(Nat) /\ Len(stream[s]) \in Nat \ {0}
  BY EmptySeq DEF TypeOK
<1>2. n \in 1 .. BUFFER_SIZE /\ n \in 1 .. Len(stream[s])
      /\ (~ split /\ n < BUFFER_SIZE => n = Len(stream[s]))
  BY <1>1, ExchangeAssumption DEF Arrivals
<1>3. \A i \in 1 .. Len(stream[s]) : stream[s][i] \in Nat
  BY <1>1, ElementOfSeq
<1>4. bytes \in Seq(Nat) /\ Len(bytes) = n
  BY <1>1, <1>2, <1>3, SubSeqProperties
<1>5. rest \in Seq(Nat)
  BY <1>1, <1>2, <1>3, SubSeqProperties
<1>6. ASSUME n = Len(stream[s]) PROVE rest = <<>>
  BY <1>1, <1>2, <1>6, SubSeqEmpty
<1>7. stream[s] = bytes \o rest
  <2>1. 1 \in 1 .. Len(stream[s]) + 1 /\ n \in 1 - 1 .. Len(stream[s]) /\ Len(stream[s]) \in n .. Len(stream[s])
    BY <1>1, <1>2
  <2>2. SubSeq(stream[s], 1, n) \o SubSeq(stream[s], n + 1, Len(stream[s])) = SubSeq(stream[s], 1, Len(stream[s]))
    BY <1>1, <2>1, ConcatAdjacentSubSeq
  <2>3. SubSeq(stream[s], 1, Len(stream[s])) = stream[s]
    BY <1>1, SubSeqFull
  <2> QED
    BY <2>2, <2>3
<1>8. bytes # <<>>
  <2>1. Len(<<>>) = 0
    BY EmptySeq
  <2>2. Len(bytes) # 0
    BY <1>2, <1>4
  <2> QED
    BY <2>1, <2>2, Zenon
<1> QED
  BY <1>2, <1>4, <1>5, <1>6, <1>7, <1>8

LEMMA UnwindStep ==
  ASSUME ExchangeInv, NEW s \in Receivers, state[s] = "recv",
         NEW last \in Seq(Nat), NEW rest \in Seq(Nat), stream[s] = last \o rest,
         ~ split => rest = <<>>, s \in Peers => held[s] \o last # <<>>,
         s = "redirect" => state["next"] # "recv",
         Unwind(s, last, rest), UNCHANGED <<split, held>>
  PROVE  ExchangeInv'
<1>1. TypeOK
  BY DEF ExchangeInv
<1>2. PICK moves \in SUBSET Int, data \in Seq(Nat) :
        /\ moved' = [moved EXCEPT ![s] = moves]
        /\ Reads(held[s] \o last, moves, data)
        /\ HandsOn(s, data, rest) \/ Stops(s, data, rest)
        /\ OwnTable(s)
  BY <1>1, Unwinds
<1>3. CASE HandsOn(s, data, rest)
  BY <1>2, <1>3, HandOnStep
<1>4. CASE Stops(s, data, rest)
  BY <1>2, <1>4, StopStep
<1> QED
  BY <1>2, <1>3, <1>4

(* Whoever the end of the stream is seen from, the process at the far end  *)
(* is dead.                                                                *)
LEMMA EndSeen ==
  ASSUME NEW s \in Receivers, Closed(s)
  PROVE  stream[s] = <<>> /\ (s = "redirect" => state["next"] # "recv")
<1>1. s = "redirect" => state["next"] \in {"crashed", "killed"}
  BY DEF Closed, Dead, Process, Twin, Receivers, Peers
<1> QED
  BY <1>1 DEF Closed

LEMMA HoldStep ==
  ASSUME ExchangeInv, NEW s \in Receivers, state[s] = "recv",
         NEW bytes \in Seq(Nat), Len(bytes) = BUFFER_SIZE, NEW rest \in Seq(Nat),
         stream[s] = bytes \o rest,
         held' = [held EXCEPT ![s] = held[s] \o bytes], stream' = [stream EXCEPT ![s] = rest],
         UNCHANGED <<split, state, sent, moved, given, table>>
  PROVE  ExchangeInv'
<1>1. held[s] \in Seq(Nat) /\ sent[s] = held[s] \o (bytes \o rest) /\ Len(held[s]) % BUFFER_SIZE = 0
  BY DEF ExchangeInv, TypeOK, Waiting
<1>2. held[s] \o bytes \in Seq(Nat) /\ Len(held[s] \o bytes) = Len(held[s]) + BUFFER_SIZE
      /\ (held[s] \o bytes) \o rest = held[s] \o (bytes \o rest)
  BY ZenonT(60), <1>1, ConcatProperties, Associative
<1>3. Len(held[s] \o bytes) % BUFFER_SIZE = 0
  <2>1. Len(held[s]) \in Nat
    BY <1>1, LenProperties
  <2> QED
    BY <1>1, <1>2, <2>1, AnotherBuffer, ExchangeAssumption
<1>4. TypeOK'
  BY <1>2 DEF ExchangeInv, TypeOK
<1>5. /\ held'[s] = held[s] \o bytes /\ stream'[s] = rest
      /\ \A r \in Receivers : r # s => held'[r] = held[r] /\ stream'[r] = stream[r]
  BY DEF ExchangeInv, TypeOK
<1>6. Waiting'
  BY <1>1, <1>2, <1>3, <1>5 DEF ExchangeInv, Waiting
<1>7. \A r \in Receivers : Untouched(r)'
  BY <1>5 DEF ExchangeInv, Untouched
<1>8. InTurn' /\ GivenAsSent'
  BY DEF ExchangeInv, InTurn, GivenAsSent
<1> QED
  BY <1>4, <1>6, <1>7, <1>8 DEF ExchangeInv

LEMMA ReceiveStep ==
  ASSUME ExchangeInv, NEW s \in Receivers, Receive(s)
  PROVE  ExchangeInv'
<1>1. state[s] = "recv" /\ stream[s] # <<>> /\ UNCHANGED <<split, request>>
  BY DEF Receive
<1>2. PICK n \in Arrivals(s) :
        LET bytes == SubSeq(stream[s], 1, n)
            rest  == SubSeq(stream[s], n + 1, Len(stream[s]))
        IN IF n < BUFFER_SIZE
           THEN Unwind(s, bytes, rest) /\ UNCHANGED held
           ELSE /\ held' = [held EXCEPT ![s] = @ \o bytes]
                /\ stream' = [stream EXCEPT ![s] = rest]
                /\ UNCHANGED <<state, sent, moved, given, table>>
  BY DEF Receive
<1> DEFINE bytes == SubSeq(stream[s], 1, n)
           rest  == SubSeq(stream[s], n + 1, Len(stream[s]))
<1>3. /\ n \in 1 .. BUFFER_SIZE
      /\ bytes \in Seq(Nat) /\ Len(bytes) = n /\ bytes # <<>>
      /\ rest \in Seq(Nat)
      /\ stream[s] = bytes \o rest
      /\ ~ split /\ n < BUFFER_SIZE => rest = <<>>
  <2>1. TypeOK
    BY DEF ExchangeInv
  <2> QED
    BY <1>1, <2>1, Arrival
<1>4. IF n < BUFFER_SIZE
      THEN Unwind(s, bytes, rest) /\ UNCHANGED held
      ELSE /\ held' = [held EXCEPT ![s] = held[s] \o bytes]
           /\ stream' = [stream EXCEPT ![s] = rest]
           /\ UNCHANGED <<state, sent, moved, given, table>>
  BY <1>2
<1> HIDE DEF bytes, rest
<1>5. held[s] \in Seq(Nat) /\ stream[s] \in Seq(Nat) /\ sent[s] = held[s] \o stream[s]
  BY <1>1 DEF ExchangeInv, TypeOK, Waiting
<1>6. held[s] \o bytes # <<>> /\ sent[s] # <<>>
  BY <1>1, <1>3, <1>5, ConcatEqualIffEmpty
<1>7. s = "redirect" => state["next"] # "recv"
  BY <1>6 DEF ExchangeInv, InTurn
<1>8. CASE n < BUFFER_SIZE
  BY <1>1, <1>3, <1>4, <1>6, <1>7, <1>8, UnwindStep
<1>9. CASE ~ n < BUFFER_SIZE
  <2>1. Len(bytes) = BUFFER_SIZE
    BY <1>3, <1>9, ExchangeAssumption
  <2> QED
    BY <1>1, <1>3, <1>4, <1>9, <2>1, HoldStep
<1> QED
  BY <1>8, <1>9

LEMMA ReceiveClosedStep ==
  ASSUME ExchangeInv, NEW s \in Receivers, ReceiveClosed(s)
  PROVE  ExchangeInv'
<1>1. state[s] = "recv" /\ Closed(s) /\ Unwind(s, <<>>, <<>>) /\ UNCHANGED <<split, held>>
  BY DEF ReceiveClosed
<1>2. <<>> \in Seq(Nat) /\ <<>> \o <<>> = <<>>
  BY EmptySeq, ConcatEmptySeq
<1>3. stream[s] = <<>> \o <<>> /\ (s = "redirect" => state["next"] # "recv")
  BY <1>1, <1>2, EndSeen
<1>4. s \in Peers => held[s] \o <<>> # <<>>
  BY <1>1, <1>2, <1>3 DEF ExchangeInv, Waiting
<1> QED
  BY <1>1, <1>2, <1>3, <1>4, UnwindStep

LEMMA ReceiveResetStep ==
  ASSUME ExchangeInv, NEW s \in Receivers, ReceiveReset(s)
  PROVE  ExchangeInv'
<1>1. state[s] = "recv" /\ Closed(s) /\ UNCHANGED <<split, sent, stream, held, moved, given, table>>
  BY DEF ReceiveReset
<1>2. <<>> \in Seq(Nat) /\ <<>> \o <<>> = <<>>
  BY EmptySeq, ConcatEmptySeq
<1>3. stream[s] = <<>> /\ stream[s] = <<>> \o <<>> /\ (s = "redirect" => state["next"] # "recv")
  BY <1>1, <1>2, EndSeen
<1> DEFINE data == held[s] \o <<>>
<1>4. Stops(s, data, <<>>)
  <2>1. \E end \in {"crashed", "reset", "strayed"} : state' = [state EXCEPT ![s] = end]
    BY DEF ReceiveReset
  <2>2. given' = [given EXCEPT ![s] = given[s]] /\ stream' = [stream EXCEPT ![s] = <<>>]
    BY <1>1, <1>3 DEF ExchangeInv, TypeOK
  <2> QED
    BY <1>1, <2>1, <2>2 DEF Stops
<1>5. OwnTable(s)
  BY <1>1 DEF ExchangeInv, TypeOK, OwnTable
<1>6. moved[s] \in SUBSET Int /\ moved' = [moved EXCEPT ![s] = moved[s]] /\ data \in Seq(Nat)
  <2>1. held[s] \in Seq(Nat)
    BY DEF ExchangeInv, TypeOK
  <2>2. data \in Seq(Nat)
    BY <1>2, <2>1, ConcatProperties
  <2> QED
    BY <1>1, <2>2 DEF ExchangeInv, TypeOK
<1>7. Reads(held[s] \o <<>>, moved[s], data)
  BY <1>6 DEF Reads
<1> HIDE DEF data
<1> QED
  BY <1>1, <1>2, <1>3, <1>4, <1>5, <1>6, <1>7, StopStep

LEMMA ClientSendStep ==
  ASSUME ExchangeInv, ClientSend
  PROVE  ExchangeInv'
<1>1. PICK r \in Requests :
        /\ sent'   = [sent EXCEPT !["peer"] = encode_clientProtocol(RequestStruct(r))]
        /\ stream' = [stream EXCEPT !["peer"] = encode_clientProtocol(RequestStruct(r))]
  BY DEF ClientSend
<1> DEFINE bytes == encode_clientProtocol(RequestStruct(r))
<1>2. bytes \in Seq(Nat) /\ bytes # <<>>
  BY RequestBytes
<1> HIDE DEF bytes
<1>3. /\ sent'   = [sent EXCEPT !["peer"] = bytes]
      /\ stream' = [stream EXCEPT !["peer"] = bytes]
      /\ state'  = [state EXCEPT !["client"] = "recv", !["peer"] = "recv"]
      /\ UNCHANGED <<split, held, moved, given, table>>
  BY <1>1 DEF ClientSend, bytes
<1>4. \A s \in Receivers : state[s] = "idle"
  BY DEF ClientSend, ExchangeInv, InTurn
<1>5. \A s \in Receivers :
        sent[s] = <<>> /\ stream[s] = <<>> /\ held[s] = <<>> /\ moved[s] = {} /\ given[s] = <<>>
  BY <1>4 DEF ExchangeInv, Untouched
<1>6. TypeOK'
  BY <1>2, <1>3 DEF ExchangeInv, TypeOK, States
<1>7. \A s \in Receivers :
        /\ state'[s] = IF s \in {"client", "peer"} THEN "recv" ELSE "idle"
        /\ sent'[s] = (IF s = "peer" THEN bytes ELSE <<>>) /\ stream'[s] = sent'[s]
        /\ held'[s] = <<>> /\ moved'[s] = {} /\ given'[s] = <<>>
  BY <1>3, <1>4, <1>5 DEF ExchangeInv, TypeOK
<1>8. Waiting'
  <2>1. Len(<<>>) % BUFFER_SIZE = 0
    BY EmptySeq, ExchangeAssumption
  <2>2. \A q \in Seq(Nat) : <<>> \o q = q
    BY ConcatEmptySeq
  <2>3. sent' \in [Receivers -> Seq(Nat)]
    BY <1>6 DEF TypeOK
  <2>4. \A s \in Receivers : sent'[s] = held'[s] \o stream'[s]
    BY ZenonT(60), <1>7, <2>2, <2>3
  <2>5. \A s \in Peers : state'[s] = "recv" => sent'[s] # <<>>
    BY <1>2, <1>7 DEF Peers, Receivers
  <2>6. \A s \in Receivers : Len(held'[s]) % BUFFER_SIZE = 0 /\ given'[s] = <<>>
    BY <1>7, <2>1
  <2> QED
    BY <2>4, <2>5, <2>6 DEF Waiting
<1>9. \A s \in Receivers : Untouched(s)'
  BY <1>7 DEF Untouched
<1>10. InTurn'
  BY <1>7 DEF InTurn, Receivers, Peers
<1>11. GivenAsSent'
  <2>1. \A s \in Receivers : Len(sent'[s]) \in Nat
    BY <1>6, LenProperties DEF TypeOK
  <2>2. Len(<<>>) = 0
    BY EmptySeq
  <2> QED
    BY <1>7, <2>1, <2>2 DEF GivenAsSent
<1> QED
  BY <1>6, <1>8, <1>9, <1>10, <1>11 DEF ExchangeInv

LEMMA ClientKilledStep ==
  ASSUME ExchangeInv, ClientKilled
  PROVE  ExchangeInv'
<1>1. /\ state' = [state EXCEPT !["client"] = "killed"]
      /\ UNCHANGED <<split, sent, stream, held, moved, given, table>>
      /\ state["client"] = "recv"
  BY DEF ClientKilled
<1>2. \A s \in Receivers : state'[s] = IF s = "client" THEN "killed" ELSE state[s]
  BY <1>1 DEF ExchangeInv, TypeOK
<1>3. TypeOK'
  BY <1>1 DEF ExchangeInv, TypeOK, States
<1>4. Waiting' /\ (\A s \in Receivers : Untouched(s)') /\ GivenAsSent'
  <2>1. Waiting'
    BY <1>1, <1>2 DEF ExchangeInv, Waiting
  <2>2. \A s \in Receivers : Untouched(s)'
    BY <1>1, <1>2 DEF ExchangeInv, Untouched
  <2>3. GivenAsSent'
    BY <1>1, <1>2 DEF ExchangeInv, GivenAsSent
  <2> QED
    BY <2>1, <2>2, <2>3
<1>5. InTurn'
  BY <1>1, <1>2 DEF ExchangeInv, InTurn, Receivers, Peers
<1> QED
  BY <1>3, <1>4, <1>5 DEF ExchangeInv

LEMMA ExchangeInvInit == Init => ExchangeInv
<1> SUFFICES ASSUME Init PROVE ExchangeInv
  OBVIOUS
<1>1. byte8 \subseteq Nat
  BY CodecAssumption DEF byte8
<1>2. <<>> \in Seq(Nat) /\ Len(<<>>) = 0
  BY EmptySeq
<1>3. \A p \in Peers : \A k \in DOMAIN Initial[p] : Initial[p][k] \in Seq(Nat)
  BY <1>1, ExchangeAssumption, SeqMonotonic
<1>4. TypeOK
  BY <1>2, <1>3, ExchangeAssumption DEF Init, TypeOK, States
<1>5. Waiting /\ (\A s \in Receivers : Untouched(s)) /\ InTurn
  BY DEF Init, Waiting, Untouched, InTurn, Receivers, Peers
<1>6. GivenAsSent
  BY <1>2 DEF Init, GivenAsSent
<1> QED
  BY <1>4, <1>5, <1>6 DEF ExchangeInv

LEMMA ExchangeInvStep == ExchangeInv /\ [Next]_vars => ExchangeInv'
<1> SUFFICES ASSUME ExchangeInv, [Next]_vars PROVE ExchangeInv'
  OBVIOUS
<1>1. CASE ClientSend
  BY <1>1, ClientSendStep
<1>2. CASE ClientKilled
  BY <1>2, ClientKilledStep
<1>3. ASSUME NEW s \in Receivers, direct_receive(s) PROVE ExchangeInv'
  BY <1>3, ReceiveStep, ReceiveClosedStep, ReceiveResetStep DEF direct_receive
<1>4. CASE UNCHANGED vars
  BY <1>4 DEF vars, ExchangeInv, TypeOK, Waiting, Untouched, InTurn, GivenAsSent
<1> QED
  BY <1>1, <1>2, <1>3, <1>4 DEF Next

LEMMA ExchangeInvariant == Spec => []ExchangeInv
  BY ExchangeInvInit, ExchangeInvStep, PTL DEF Spec

(* However recv cuts the stream and whichever nested calls move the block  *)
(* (network.c:180-200), a callback gets no more bytes than were sent, all  *)
(* of them when sends arrive whole, and before the first freed block each  *)
(* is the one sent at its place.                                           *)
THEOREM GivesAsSent == Spec => []GivenAsSent
<1>1. ExchangeInv => GivenAsSent
  BY DEF ExchangeInv
<1> QED
  BY <1>1, ExchangeInvariant, PTL

(* A receive that has got everything blocks only on full buffers           *)
(* (network.c:189-190).                                                    *)
THEOREM BlocksOnFullBuffers == Spec => []BlocksAtMultiple
<1>1. ASSUME ExchangeInv, NEW s \in Receivers, state[s] = "recv", stream[s] = <<>>
      PROVE  Len(sent[s]) % BUFFER_SIZE = 0
  <2>1. held[s] \in Seq(Nat) /\ sent[s] = held[s] \o <<>> /\ Len(held[s]) % BUFFER_SIZE = 0
    BY <1>1 DEF ExchangeInv, TypeOK, Waiting
  <2> QED
    BY <2>1, ConcatEmptySeq
<1>2. ExchangeInv => BlocksAtMultiple
  BY <1>1 DEF BlocksAtMultiple
<1> QED
  BY <1>2, ExchangeInvariant, PTL

-----------------------------------------------------------------------------
(* Lengths and fields, read back.                                          *)

LEMMA DivMod ==
  ASSUME NEW n \in Nat, NEW d \in Nat \ {0}
  PROVE  n \div d \in Nat /\ n % d \in 0 .. d - 1 /\ n = d * (n \div d) + (n % d)
OBVIOUS

(* Two bytes hold a number up to their range, and four do.                 *)
LEMMA TwoBytesRead ==
  ASSUME NEW n \in Nat
  PROVE  /\ Len(htons(n)) = 2 /\ htons(n)[1] \in Nat /\ htons(n)[2] \in Nat
         /\ ntohs(htons(n)[1], htons(n)[2]) = n % (Radix * Radix)
<1> DEFINE a == n \div Radix
           b == n % Radix
           c == a \div Radix
           d == a % Radix
           square == Radix * Radix
<1>1. Radix \in Nat \ {0} /\ square \in Nat \ {0}
  BY CodecAssumption, RadixSquared
<1>2. a \in Nat /\ b \in 0 .. Radix - 1 /\ n = Radix * a + b
  BY <1>1, DivMod
<1>3. c \in Nat /\ d \in 0 .. Radix - 1 /\ a = Radix * c + d
  <2> HIDE DEF a
  <2> QED
    BY <1>1, <1>2, DivMod
<1>4. htons(n) = <<d, b>>
  BY DEF htons
<1> HIDE DEF a, b, c, d
<1>5. ntohs(d, b) = d * Radix + b
  BY DEF ntohs
<1>6. n = square * c + (d * Radix + b)
  <2>1. Radix * (Radix * c + d) = Radix * (Radix * c) + Radix * d
    BY <1>1, <1>3
  <2>2. Radix * (Radix * c) = square * c /\ Radix * d = d * Radix
    BY <1>1, <1>3
  <2>3. square * c \in Int /\ d * Radix \in Int /\ b \in Int
    BY <1>1, <1>2, <1>3
  <2>4. n = Radix * (Radix * c + d) + b
    BY <1>2, <1>3
  <2> HIDE DEF square
  <2>5. n = (square * c + d * Radix) + b
    BY <2>1, <2>2, <2>4
  <2> QED
    BY <2>3, <2>5
<1>7. d * Radix + b \in 0 .. square - 1
  <2>1. d * Radix >= 0
    BY <1>1, <1>3
  <2>2. d * Radix <= (Radix - 1) * Radix
    BY <1>1, <1>3
  <2>3. (Radix - 1) * Radix = square - Radix /\ d * Radix \in Int
    BY <1>1, <1>3
  <2> HIDE DEF square
  <2> QED
    BY <1>1, <1>2, <2>1, <2>2, <2>3
<1>8. n % square = d * Radix + b
  <2> HIDE DEF square
  <2>1. \A x, y \in Int : \A z \in 0 .. square - 1 : x = square * y + z => x % square = z
    BY <1>1
  <2> QED
    BY <1>3, <1>6, <1>7, <2>1
<1> QED
  BY <1>2, <1>3, <1>4, <1>5, <1>8

LEMMA FourBytesRead ==
  ASSUME NEW n \in Nat, n < (Radix * Radix) * (Radix * Radix)
  PROVE  /\ Len(htonl(n)) = 4
         /\ ntohl(htonl(n)[1], htonl(n)[2], htonl(n)[3], htonl(n)[4]) = n
<1> DEFINE square == Radix * Radix
           high == n \div square
           low == n % square
<1>1. square \in Nat \ {0}
  BY RadixSquared
<1> HIDE DEF square
<1>2. high \in Nat /\ low \in 0 .. square - 1 /\ n = square * high + low
  BY <1>1, DivNat
<1>3. high < square
  <2> SUFFICES ASSUME high >= square
               PROVE  FALSE
    BY <1>1, <1>2
  <2> HIDE DEF high, low
  <2>1. square * high >= square * square
    BY <1>1, <1>2
  <2> QED
    BY <1>1, <1>2, <2>1 DEF square
<1>4. high % square = high
  <2> HIDE DEF high
  <2> QED
    BY <1>1, <1>2, <1>3
<1> DEFINE h == htons(high)
           l == htons(n)
<1>5. /\ Len(h) = 2 /\ ntohs(h[1], h[2]) = high
      /\ Len(l) = 2 /\ ntohs(l[1], l[2]) = low
  <2> HIDE DEF high
  <2> QED
    BY <1>2, <1>4, TwoBytesRead DEF square
<1>6. h \in Seq(Nat) /\ l \in Seq(Nat)
  <2> HIDE DEF high
  <2> QED
    BY <1>2, TwoBytes
<1>7. htonl(n) = h \o l
  BY DEF htonl, square
<1> HIDE DEF h, l
<1>8. /\ Len(h \o l) = 4
      /\ (h \o l)[1] = h[1] /\ (h \o l)[2] = h[2] /\ (h \o l)[3] = l[1] /\ (h \o l)[4] = l[2]
  <2>1. /\ Len(h \o l) = Len(h) + Len(l)
        /\ \A i \in 1 .. Len(h) + Len(l) : (h \o l)[i] = IF i <= Len(h) THEN h[i] ELSE l[i - Len(h)]
    BY <1>6, ConcatProperties
  <2> QED
    BY <1>5, <2>1
<1>9. ntohl(h[1], h[2], l[1], l[2]) = high * square + low
  BY <1>5 DEF ntohl, square
<1> QED
  BY <1>1, <1>2, <1>7, <1>8, <1>9

(* The header and the lengths.                                             *)
Start(h, key_length, value_length) == <<h>> \o htons(key_length) \o htonl(value_length)

LEMMA StartRead ==
  ASSUME NEW h \in Nat, NEW kl \in Nat, kl < Radix * Radix,
         NEW vl \in Nat, vl < (Radix * Radix) * (Radix * Radix)
  PROVE  LET start == Start(h, kl, vl)
         IN /\ start \in Seq(Nat) /\ Len(start) = 7
            /\ start[1] = h /\ ntohs(start[2], start[3]) = kl
            /\ ntohl(start[4], start[5], start[6], start[7]) = vl
<1> DEFINE k == htons(kl)
           v == htonl(vl)
           first == <<h>> \o k
           start == first \o v
<1>1. k \in Seq(Nat) /\ v \in Seq(Nat) /\ <<h>> \in Seq(Nat) /\ Len(<<h>>) = 1 /\ <<h>>[1] = h
  BY TwoBytes, FourBytes
<1>2. Len(k) = 2 /\ ntohs(k[1], k[2]) = kl
  <2> DEFINE square == Radix * Radix
  <2>1. kl % square = kl
    <3>1. square \in Nat \ {0} /\ kl < square
      BY RadixSquared
    <3> HIDE DEF square
    <3> QED
      BY <3>1
  <2> QED
    BY <2>1, TwoBytesRead
<1>3. Len(v) = 4 /\ ntohl(v[1], v[2], v[3], v[4]) = vl
  BY FourBytesRead
<1> HIDE DEF k, v
<1>4. first \in Seq(Nat) /\ Len(first) = 3 /\ first[1] = h /\ first[2] = k[1] /\ first[3] = k[2]
  <2>1. /\ first \in Seq(Nat) /\ Len(first) = Len(<<h>>) + Len(k)
        /\ \A i \in 1 .. Len(<<h>>) + Len(k) : first[i] = IF i <= Len(<<h>>) THEN <<h>>[i] ELSE k[i - Len(<<h>>)]
    BY <1>1, ConcatProperties
  <2> HIDE DEF first
  <2> QED
    BY <1>1, <1>2, <2>1
<1> HIDE DEF first
<1>5. /\ start \in Seq(Nat) /\ Len(start) = Len(first) + Len(v)
      /\ \A i \in 1 .. Len(first) + Len(v) : start[i] = IF i <= Len(first) THEN first[i] ELSE v[i - Len(first)]
  BY <1>1, <1>4, ConcatProperties
<1> HIDE DEF start
<1>6. /\ Len(start) = 7 /\ start[1] = first[1] /\ start[2] = first[2] /\ start[3] = first[3]
      /\ start[4] = v[1] /\ start[5] = v[2] /\ start[6] = v[3] /\ start[7] = v[4]
  BY <1>3, <1>4, <1>5
<1>7. ntohs(start[2], start[3]) = kl /\ ntohl(start[4], start[5], start[6], start[7]) = vl
  BY <1>2, <1>3, <1>4, <1>6
<1>8. start = Start(h, kl, vl)
  BY DEF Start, start, first, k, v
<1> QED
  BY <1>4, <1>5, <1>6, <1>7, <1>8

Message(h, key, value) == Start(h, Len(key), Len(value)) \o key \o value

ReadsAs(msg, beyond, bits, key, value) ==
  LET d == decode_clientProtocol(msg, beyond)
  IN /\ d.bits = bits /\ d.key_length = Len(key) /\ d.key = key
     /\ d.value_length = Len(value) /\ d.value = value

Encodable(key, value) ==
  /\ key \in Seq(Nat) /\ Len(key) < Radix * Radix
  /\ value \in Seq(Nat) /\ Len(value) < (Radix * Radix) * (Radix * Radix)

(* What was encoded is decoded, whatever lies behind the message.          *)
LEMMA ReadBack ==
  ASSUME NEW h \in Nat, NEW key, NEW value, Encodable(key, value), NEW beyond
  PROVE  /\ ReadsAs(Message(h, key, value), beyond, Bits(h), key, value)
         /\ Message(h, key, value)[1] = h
         /\ Len(Message(h, key, value)) = HeaderSize + Len(key) + Len(value)
<1> DEFINE start == Start(h, Len(key), Len(value))
           head == start \o key
           msg == head \o value
           At(i) == IF i <= Len(msg) THEN msg[i] ELSE beyond
           kl == Len(key)
           vl == Len(value)
<1>0. /\ key \in Seq(Nat) /\ kl < Radix * Radix
      /\ value \in Seq(Nat) /\ vl < (Radix * Radix) * (Radix * Radix)
  BY DEF Encodable
<1>1. kl \in Nat /\ vl \in Nat
  BY <1>0, LenProperties
<1>2. /\ start \in Seq(Nat) /\ Len(start) = 7
      /\ start[1] = h /\ ntohs(start[2], start[3]) = kl
      /\ ntohl(start[4], start[5], start[6], start[7]) = vl
  BY ZenonT(60), <1>0, <1>1, StartRead
<1> HIDE DEF start
<1>3. /\ head \in Seq(Nat) /\ Len(head) = 7 + kl
      /\ \A i \in 1 .. 7 + kl : head[i] = IF i <= 7 THEN start[i] ELSE key[i - 7]
  <2>1. /\ head \in Seq(Nat) /\ Len(head) = Len(start) + kl
        /\ \A i \in 1 .. Len(start) + kl : head[i] = IF i <= Len(start) THEN start[i] ELSE key[i - Len(start)]
    BY <1>0, <1>2, ConcatProperties
  <2> HIDE DEF head, kl
  <2> QED
    BY <1>2, <2>1
<1> HIDE DEF head
<1>4. /\ Len(msg) = 7 + kl + vl
      /\ \A i \in 1 .. 7 + kl + vl : msg[i] = IF i <= 7 + kl THEN head[i] ELSE value[i - (7 + kl)]
  <2>1. /\ Len(msg) = Len(head) + vl
        /\ \A i \in 1 .. Len(head) + vl : msg[i] = IF i <= Len(head) THEN head[i] ELSE value[i - Len(head)]
    BY <1>0, <1>3, ConcatProperties
  <2> HIDE DEF msg, kl, vl
  <2> QED
    BY <1>3, <2>1
<1> HIDE DEF msg
<1>5. \A i \in 1 .. 7 : At(i) = start[i] /\ msg[i] = start[i]
  <2> HIDE DEF kl, vl
  <2> QED
    BY SMTT(30), <1>1, <1>3, <1>4
<1>6. \A i \in 1 .. kl : At(7 + i) = key[i]
  <2> HIDE DEF kl, vl
  <2> QED
    BY SMTT(30), <1>1, <1>3, <1>4
<1>7. \A i \in 1 .. vl : At(7 + kl + i) = value[i]
  <2> HIDE DEF kl, vl
  <2> QED
    BY SMTT(30), <1>1, <1>4
<1> HIDE DEF At
<1>8. msg[1] = h /\ ntohs(At(2), At(3)) = kl /\ ntohl(At(4), At(5), At(6), At(7)) = vl
  BY <1>2, <1>5
<1>9. [i \in 1 .. kl |-> At(HeaderSize + i)] = key
  <2>1. key = [i \in 1 .. kl |-> key[i]]
    BY <1>0
  <2>2. \A i \in 1 .. kl : At(HeaderSize + i) = key[i]
    BY <1>6 DEF HeaderSize
  <2> QED
    BY <2>1, <2>2
<1>10. [i \in 1 .. vl |-> At(HeaderSize + kl + i)] = value
  <2>1. value = [i \in 1 .. vl |-> value[i]]
    BY <1>0
  <2>2. \A i \in 1 .. vl : At(HeaderSize + kl + i) = value[i]
    BY <1>1, <1>7 DEF HeaderSize
  <2> QED
    BY <2>1, <2>2
<1> DEFINE d == decode_clientProtocol(msg, beyond)
<1>11. d = [bits |-> Bits(msg[1]), key_length |-> ntohs(At(2), At(3)),
            value_length |-> ntohl(At(4), At(5), At(6), At(7)),
            key |-> [i \in 1 .. ntohs(At(2), At(3)) |-> At(HeaderSize + i)],
            value |-> [i \in 1 .. ntohl(At(4), At(5), At(6), At(7)) |->
                         At(HeaderSize + ntohs(At(2), At(3)) + i)]]
  BY DEF decode_clientProtocol, At
<1> HIDE DEF kl, vl
<1>12. d = [bits |-> Bits(h), key_length |-> kl, value_length |-> vl, key |-> key, value |-> value]
  BY <1>8, <1>9, <1>10, <1>11
<1>13. d.bits = Bits(h) /\ d.key_length = kl /\ d.key = key /\ d.value_length = vl /\ d.value = value
  BY <1>12
<1> QED
  BY <1>4, <1>8, <1>13 DEF ReadsAs, Message, HeaderSize, msg, head, start, kl, vl

LEMMA BitsRead ==
  ASSUME NEW bits \in SUBSET {"act", "get", "set", "delete"}
  PROVE  Bits(Header(bits)) = bits
<1> DEFINE a == IF "act" \in bits THEN 1 ELSE 0
           g == IF "get" \in bits THEN 1 ELSE 0
           s == IF "set" \in bits THEN 1 ELSE 0
           d == IF "delete" \in bits THEN 1 ELSE 0
           h == 16 * a + 32 * g + 64 * s + 128 * d
<1>1. Header(bits) = h
  BY DEF Header, Bit
<1>2. DOMAIN Bit = {"act", "get", "set", "delete"}
      /\ Bit["act"] = 16 /\ Bit["get"] = 32 /\ Bit["set"] = 64 /\ Bit["delete"] = 128
  BY DEF Bit
<1>3. a \in {0, 1} /\ g \in {0, 1} /\ s \in {0, 1} /\ d \in {0, 1}
  OBVIOUS
<1>4. (h \div 16) % 2 = a /\ (h \div 32) % 2 = g /\ (h \div 64) % 2 = s /\ (h \div 128) % 2 = d
  <2> HIDE DEF a, g, s, d
  <2> QED
    BY <1>3
<1> HIDE DEF h
<1>5. ASSUME NEW b \in {"act", "get", "set", "delete"}
      PROVE  (h \div Bit[b]) % 2 = 1 <=> b \in bits
  BY <1>2, <1>4
<1>6. ASSUME NEW b PROVE b \in Bits(h) <=> b \in bits
  <2>1. b \in Bits(h) <=> b \in DOMAIN Bit /\ (h \div Bit[b]) % 2 = 1
    BY DEF Bits
  <2>2. b \in bits => b \in {"act", "get", "set", "delete"}
    OBVIOUS
  <2>3. b \in {"act", "get", "set", "delete"} => ((h \div Bit[b]) % 2 = 1 <=> b \in bits)
    BY <1>5
  <2> QED
    BY <1>2, <2>1, <2>2, <2>3, Zenon
<1>7. Bits(h) = bits
  BY <1>6
<1> QED
  BY <1>1, <1>7

(* The request of a command line, at whichever peer it is read whole.      *)
RequestSent == encode_clientProtocol(RequestStruct(request))

BitsAsked  == {request.op} \intersect {"get", "set", "delete"}
ValueGiven == IF request.op = "set" THEN request.value ELSE <<>>

LEMMA RequestRead ==
  ASSUME request \in Requests, NEW beyond
  PROVE  /\ ReadsAs(RequestSent, beyond, BitsAsked, KeyAsked, ValueGiven)
         /\ Encodable(KeyAsked, ValueGiven)
         /\ RequestSent[1] = Header(BitsAsked) /\ Bits(Header(BitsAsked)) = BitsAsked
         /\ Len(RequestSent) = HeaderSize + Len(KeyAsked) + Len(ValueGiven)
<1> DEFINE r == RequestStruct(request)
           kl == Len(request.key) % (Radix * Radix)
<1>1. byte8 \subseteq Nat
  BY CodecAssumption DEF byte8
<1>2. request.key \in Seq(Nat) /\ request.value \in Seq(Nat)
  BY <1>1, ExchangeAssumption, SeqMonotonic
<1>3. kl \in 0 .. Len(request.key) /\ kl < Radix * Radix
  <2> DEFINE square == Radix * Radix
             len == Len(request.key)
  <2>1. square \in Nat \ {0} /\ len \in Nat
    BY <1>2, RadixSquared, LenProperties
  <2> HIDE DEF square, len
  <2>2. len % square \in 0 .. len /\ len % square < square
    BY <2>1, DivNat
  <2> QED
    BY <2>2 DEF square, len
<1>4. /\ r.bits = BitsAsked /\ r.key_length = kl /\ r.key = request.key
      /\ r.value_length = Len(ValueGiven) /\ r.value = ValueGiven
  <2>1. Len(<<>>) = 0
    OBVIOUS
  <2> QED
    BY <2>1 DEF RequestStruct, BitsAsked, ValueGiven
<1>5. KeyAsked = SubSeq(request.key, 1, kl) /\ KeyAsked \in Seq(Nat) /\ Len(KeyAsked) = kl
  <2>1. KeyAsked = SubSeq(request.key, 1, kl)
    BY DEF KeyAsked
  <2> HIDE DEF kl
  <2>2. \A i \in 1 .. kl : request.key[i] \in Nat
    BY <1>2, <1>3, ElementOfSeq, LenProperties
  <2>3. kl \in Int /\ (1 <= kl \/ kl = 0)
    BY <1>2, <1>3, LenProperties
  <2> QED
    BY <2>1, <2>2, <2>3, SubSeqProperties
<1>6. /\ ValueGiven \in Seq(Nat) /\ Len(ValueGiven) < (Radix * Radix) * (Radix * Radix)
      /\ SubSeq(ValueGiven, 1, Len(ValueGiven)) = ValueGiven
  <2>1. <<>> \in Seq(Nat) /\ Len(<<>>) = 0
    OBVIOUS
  <2>2. 0 < (Radix * Radix) * (Radix * Radix)
    <3>1. \A x \in Nat \ {0} : 0 < x * x
      OBVIOUS
    <3> QED
      BY <3>1, RadixSquared
  <2>3. Len(request.value) < (Radix * Radix) * (Radix * Radix)
    BY LengthAssumption
  <2>4. ValueGiven \in Seq(Nat) /\ Len(ValueGiven) < (Radix * Radix) * (Radix * Radix)
    BY <1>2, <2>1, <2>2, <2>3 DEF ValueGiven
  <2> QED
    BY <2>4, SubSeqFull
<1>7. Encodable(KeyAsked, ValueGiven)
  BY <1>3, <1>5, <1>6 DEF Encodable
<1>8. RequestSent = Message(Header(BitsAsked), KeyAsked, ValueGiven)
  <2>1. RequestSent = Start(Header(r.bits), r.key_length, r.value_length)
                        \o SubSeq(r.key, 1, r.key_length) \o SubSeq(r.value, 1, r.value_length)
    BY DEF RequestSent, encode_clientProtocol, Start
  <2> HIDE DEF r, kl
  <2> QED
    BY <1>4, <1>5, <1>6, <2>1 DEF Message
<1>9. Header(BitsAsked) \in Nat
  BY HeaderNat
<1>10. Bits(Header(BitsAsked)) = BitsAsked
  <2>1. BitsAsked \in SUBSET {"act", "get", "set", "delete"}
    BY DEF BitsAsked
  <2> QED
    BY <2>1, BitsRead
<1>11. /\ ReadsAs(Message(Header(BitsAsked), KeyAsked, ValueGiven), beyond, Bits(Header(BitsAsked)),
                  KeyAsked, ValueGiven)
       /\ Message(Header(BitsAsked), KeyAsked, ValueGiven)[1] = Header(BitsAsked)
       /\ Len(Message(Header(BitsAsked), KeyAsked, ValueGiven))
            = HeaderSize + Len(KeyAsked) + Len(ValueGiven)
  BY <1>7, <1>9, ReadBack
<1> QED
  BY <1>7, <1>8, <1>10, <1>11

(* No client's request is taken for a peer's, or for several.              *)
LEMMA OwnRequest == request \in Requests => ~ Foreign(RequestSent)
<1> SUFFICES ASSUME request \in Requests PROVE ~ Foreign(RequestSent)
  OBVIOUS
<1>1. RequestSent[1] = Header(BitsAsked) /\ Bits(Header(BitsAsked)) = BitsAsked
  BY RequestRead
<1>2. Header(BitsAsked) % 2 = 0
  BY DEF Header, Bit
<1>3. \A a, b \in BitsAsked : a = b
  BY DEF BitsAsked
<1> QED
  BY <1>1, <1>2, <1>3 DEF Foreign, isPeerProtocol

LEMMA Acknowledges ==
  ASSUME NEW op \in {"get", "set", "delete"}
  PROVE  \A beyond : ReadsAs(Acknowledge(op), beyond, {"act", op}, <<>>, <<>>) /\ Len(Acknowledge(op)) = HeaderSize
<1> DEFINE h == Header({"act", op})
<1>1. h \in Nat /\ Bits(h) = {"act", op}
  <2>1. {"act", op} \in SUBSET {"act", "get", "set", "delete"}
    OBVIOUS
  <2> QED
    BY <2>1, HeaderNat, BitsRead
<1>2. 0 < Radix * Radix /\ 0 < (Radix * Radix) * (Radix * Radix)
  <2>1. \A x \in Nat \ {0} : 0 < x * x
    OBVIOUS
  <2> QED
    BY <2>1, RadixSquared, CodecAssumption
<1>3. <<>> \in Seq(Nat) /\ Len(<<>>) = 0
  OBVIOUS
<1>4. Encodable(<<>>, <<>>)
  BY <1>2, <1>3 DEF Encodable
<1> HIDE DEF h
<1> DEFINE start == Start(h, 0, 0)
<1>5. start \in Seq(Nat)
  BY <1>1, <1>2, StartRead
<1>6. Acknowledge(op) = start
  BY DEF Acknowledge, Start, h
<1>7. Message(h, <<>>, <<>>) = start \o <<>> \o <<>>
  BY <1>3 DEF Message
<1> HIDE DEF start
<1>8. start \o <<>> = start
  BY <1>5, ConcatEmptySeq
<1>9. Acknowledge(op) = Message(h, <<>>, <<>>)
  BY <1>6, <1>7, <1>8
<1>10. ASSUME NEW beyond
       PROVE  /\ ReadsAs(Message(h, <<>>, <<>>), beyond, Bits(h), <<>>, <<>>)
              /\ Len(Message(h, <<>>, <<>>)) = HeaderSize + Len(<<>>) + Len(<<>>)
  BY <1>1, <1>4, ReadBack
<1>11. HeaderSize + 0 + 0 = HeaderSize
  BY DEF HeaderSize
<1> QED
  BY <1>1, <1>3, <1>9, <1>10, <1>11

LEMMA FoundAnswer ==
  ASSUME NEW msg, NEW beyond, NEW key, NEW given_value, NEW value,
         ReadsAs(msg, beyond, {"get"}, key, given_value), Encodable(key, value), NEW after
  PROVE  LET answer == encode_clientProtocol(FoundStruct(decode_clientProtocol(msg, beyond), value))
         IN /\ ReadsAs(answer, after, {"act", "get"}, key, value)
            /\ Len(answer) = HeaderSize + Len(key) + Len(value)
<1> DEFINE d == decode_clientProtocol(msg, beyond)
           found == FoundStruct(d, value)
           h == Header({"act", "get"})
<1>1. /\ found.bits = d.bits \union {"act"} /\ found.key_length = d.key_length /\ found.key = d.key
      /\ found.value_length = Len(value) /\ found.value = value
  BY DEF FoundStruct, decode_clientProtocol
<1>2. h \in Nat /\ Bits(h) = {"act", "get"}
  <2>1. {"act", "get"} \in SUBSET {"act", "get", "set", "delete"}
    OBVIOUS
  <2> QED
    BY <2>1, HeaderNat, BitsRead
<1>3. d.bits \union {"act"} = {"act", "get"} /\ d.key_length = Len(key) /\ d.key = key
  BY DEF ReadsAs
<1> HIDE DEF d
<1>4. SubSeq(key, 1, Len(key)) = key /\ SubSeq(value, 1, Len(value)) = value
  BY SubSeqFull DEF Encodable
<1>5. encode_clientProtocol(found)
        = Start(Header(found.bits), found.key_length, found.value_length)
            \o SubSeq(found.key, 1, found.key_length) \o SubSeq(found.value, 1, found.value_length)
  BY DEF encode_clientProtocol, Start
<1> HIDE DEF found
<1>6. encode_clientProtocol(found) = Message(h, key, value)
  BY <1>1, <1>3, <1>4, <1>5 DEF Message
<1> HIDE DEF h
<1>7. /\ ReadsAs(Message(h, key, value), after, Bits(h), key, value)
      /\ Len(Message(h, key, value)) = HeaderSize + Len(key) + Len(value)
  BY ZenonT(60), <1>2, ReadBack
<1> QED
  BY <1>2, <1>6, <1>7 DEF found, d

-----------------------------------------------------------------------------
(* What the client and the peers make of one another.                      *)

Responsible == Owner(KeyAsked)
TableWanted == TableAsked(Responsible)
ValueWanted == ValueAsked(Responsible)

(* An answer says what it answers, and a GET's holds the value.            *)
IsAnswer(bytes, op, value) ==
  LET answer == decode_clientProtocol(bytes, 0)
  IN bytes # <<>> => /\ answer.bits = {"act", op}
                     /\ op = "get" => answer.value = value

(* Every message handed on so far was given whole.                         *)
Whole == \A s \in Receivers : state[s] \in {"called", "strayed"} => given[s] = sent[s]

(* Then nobody has taken anything for something else.                      *)
AsMeant ==
  /\ \A q \in Peers : state[q] # "strayed"
  /\ state["next"] # "idle" => Responsible = "next"
  /\ sent["next"] \in {<<>>, RequestSent}
  /\ table = IF state[Responsible] = "called"
             THEN [Initial EXCEPT ![Responsible] = TableWanted] ELSE Initial
  /\ IsAnswer(sent["redirect"], request.op, ValueWanted)
  /\ IsAnswer(sent["client"], request.op, ValueWanted)

Meant ==
  /\ state["client"] = "idle" => table = Initial
  /\ state["client"] # "idle" => request \in Requests /\ sent["peer"] = RequestSent
  /\ state["client"] = "called" => given["client"] # <<>>
  /\ state["client"] # "strayed" /\ state["redirect"] # "strayed"
  /\ state["client"] # "idle" /\ Responsible \in Peers /\ Whole => AsMeant

LEMMA SameRequest ==
  ASSUME UNCHANGED request
  PROVE  /\ KeyAsked' = KeyAsked /\ Responsible' = Responsible /\ RequestSent' = RequestSent
         /\ TableWanted' = TableWanted /\ ValueWanted' = ValueWanted
<1>1. KeyAsked' = KeyAsked
  BY DEF KeyAsked
<1>2. Responsible' = Responsible
  BY <1>1 DEF Responsible
<1>3. RequestSent' = RequestSent
  BY DEF RequestSent
<1>4. TableWanted' = TableWanted
  BY <1>1, <1>2 DEF TableWanted, TableAsked
<1>5. ValueWanted' = ValueWanted
  BY <1>1, <1>2 DEF ValueWanted, ValueAsked
<1> QED
  BY <1>1, <1>2, <1>3, <1>4, <1>5

(* The responsible peer does what the command line says.                   *)
LEMMA Serves ==
  ASSUME request \in Requests, Responsible \in Peers, NEW beyond
  PROVE  LET d == decode_clientProtocol(RequestSent, beyond)
         IN /\ d.key = KeyAsked
            /\ IsAnswer(Served(Initial[Responsible], d), request.op, ValueWanted)
            /\ Stored(Initial[Responsible], d) = TableWanted
<1> DEFINE d == decode_clientProtocol(RequestSent, beyond)
           kv == Initial[Responsible]
<1>1. ReadsAs(RequestSent, beyond, BitsAsked, KeyAsked, ValueGiven) /\ Encodable(KeyAsked, ValueGiven)
  BY RequestRead
<1>2. d.bits = BitsAsked /\ d.key = KeyAsked /\ d.value = ValueGiven
  BY <1>1 DEF ReadsAs
<1>3. ASSUME NEW op \in {"get", "set", "delete"}, op = "get" => KeyAsked \notin DOMAIN kv
      PROVE  IsAnswer(Acknowledge(op), op, ValueWanted)
  <2>1. ReadsAs(Acknowledge(op), 0, {"act", op}, <<>>, <<>>)
    BY Acknowledges
  <2>2. op = "get" => ValueWanted = <<>>
    BY <1>3 DEF ValueWanted, ValueAsked
  <2> QED
    BY <2>1, <2>2 DEF IsAnswer, ReadsAs
<1>4. ASSUME request.op = "get", KeyAsked \in DOMAIN kv
      PROVE  IsAnswer(encode_clientProtocol(FoundStruct(d, kv[KeyAsked])), "get", ValueWanted)
  <2>1. Encodable(KeyAsked, kv[KeyAsked])
    <3>1. kv[KeyAsked] \in Seq(byte8) /\ Len(kv[KeyAsked]) < (Radix * Radix) * (Radix * Radix)
      BY <1>4, ExchangeAssumption, LengthAssumption
    <3>2. byte8 \subseteq Nat
      BY CodecAssumption DEF byte8
    <3>3. kv[KeyAsked] \in Seq(Nat)
      BY <3>1, <3>2, SeqMonotonic
    <3> HIDE DEF kv
    <3> QED
      BY <1>1, <3>1, <3>3 DEF Encodable
  <2>2. ReadsAs(RequestSent, beyond, {"get"}, KeyAsked, ValueGiven)
    <3>1. BitsAsked = {"get"}
      BY <1>4 DEF BitsAsked
    <3> QED
      BY <1>1, <3>1
  <2> HIDE DEF kv
  <2>3. ReadsAs(encode_clientProtocol(FoundStruct(d, kv[KeyAsked])), 0, {"act", "get"}, KeyAsked, kv[KeyAsked])
    BY <2>1, <2>2, FoundAnswer
  <2>4. ValueWanted = kv[KeyAsked]
    BY <1>4 DEF ValueWanted, ValueAsked, kv
  <2> QED
    BY <2>3, <2>4 DEF IsAnswer, ReadsAs
<1> HIDE DEF d
<1>5. IsAnswer(Served(kv, d), request.op, ValueWanted)
  <2> HIDE DEF kv
  <2>1. CASE request.op = "get"
    <3>1. d.bits = {"get"}
      BY <1>2, <2>1 DEF BitsAsked
    <3>2. Served(kv, d) = IF KeyAsked \in DOMAIN kv
                          THEN encode_clientProtocol(FoundStruct(d, kv[KeyAsked])) ELSE Acknowledge("get")
      BY <1>2, <3>1 DEF Served
    <3> QED
      BY <1>3, <1>4, <2>1, <3>2
  <2>2. CASE request.op \in {"set", "delete"}
    <3>1. d.bits = {request.op}
      BY <1>2, <2>2 DEF BitsAsked
    <3>2. Served(kv, d) = Acknowledge(request.op)
      BY <2>2, <3>1 DEF Served
    <3> QED
      BY <1>3, <2>2, <3>2
  <2>3. CASE request.op \notin {"get", "set", "delete"}
    <3>1. d.bits = {}
      BY <1>2, <2>3 DEF BitsAsked
    <3>2. Served(kv, d) = <<>>
      BY <3>1 DEF Served
    <3> QED
      BY <3>2 DEF IsAnswer
  <2> QED
    BY <2>1, <2>2, <2>3
<1>6. Stored(kv, d) = TableWanted
  <2>1. CASE request.op = "set"
    <3>1. d.bits = {"set"} /\ d.value = request.value
      BY <1>2, <2>1 DEF BitsAsked, ValueGiven
    <3>2. Stored(kv, d) = [k \in DOMAIN kv \union {KeyAsked} |-> IF k = KeyAsked THEN request.value ELSE kv[k]]
      BY <1>2, <3>1 DEF Stored
    <3> QED
      BY <2>1, <3>2 DEF TableWanted, TableAsked
  <2>2. CASE request.op = "delete"
    <3>1. d.bits = {"delete"}
      BY <1>2, <2>2 DEF BitsAsked
    <3>2. Stored(kv, d) = [k \in DOMAIN kv \ {KeyAsked} |-> kv[k]]
      BY <1>2, <3>1 DEF Stored
    <3> QED
      BY <2>2, <3>2 DEF TableWanted, TableAsked
  <2>3. CASE request.op \notin {"set", "delete"}
    <3>1. "set" \notin d.bits /\ "delete" \notin d.bits
      BY <1>2, <2>3 DEF BitsAsked
    <3>2. Stored(kv, d) = kv
      BY <3>1 DEF Stored
    <3> QED
      BY <2>3, <3>2 DEF TableWanted, TableAsked
  <2> QED
    BY <2>1, <2>2, <2>3
<1> QED
  BY <1>2, <1>5, <1>6 DEF d

(* Whoever hands on something is called, and who waits for it was idle;    *)
(* what is whole afterwards was whole before.                              *)
HandedOn(s, data, to, bytes, waiting) ==
  /\ \A r \in Receivers : state'[r] = IF r \in waiting THEN "recv"
                                      ELSE IF r = s THEN "called" ELSE state[r]
  /\ sent'[to] = sent[to] \o bytes /\ \A r \in Receivers : r # to => sent'[r] = sent[r]
  /\ state'["client"] # "idle" /\ sent'["peer"] = sent["peer"]
  /\ state'["client"] = "called" => given'["client"] # <<>>
  /\ state'["client"] # "strayed" /\ state'["redirect"] # "strayed"
  /\ Whole' => Whole /\ data = sent[s]

LEMMA PassEffect ==
  ASSUME ExchangeInv, Meant, NEW s \in Receivers, state[s] = "recv",
         NEW data \in Seq(Nat), NEW rest \in Seq(Nat),
         NEW to \in Receivers, NEW bytes \in Seq(Nat), NEW waiting \in SUBSET Receivers,
         Pass(s, data, to, bytes, waiting, rest), Sends(s, data, to, bytes, waiting)
  PROVE  HandedOn(s, data, to, bytes, waiting)
<1>1. TypeOK /\ InTurn
  BY DEF ExchangeInv
<1>2. /\ s = to => s = "client" /\ bytes = <<>>
      /\ s # to => state[to] # "called" /\ (state[to] = "idle" => to \in waiting)
      /\ \A w \in waiting : w # s /\ w # "client" /\ state[w] = "idle"
  BY <1>1, SentInTurn
<1>3. \A r \in Receivers : state'[r] = IF r \in waiting THEN "recv"
                                       ELSE IF r = s THEN "called" ELSE state[r]
  BY DEF Pass
<1>4. /\ sent'[to] = sent[to] \o bytes
      /\ \A r \in Receivers : r # to => sent'[r] = sent[r]
      /\ given'[s] = data /\ \A r \in Receivers : r # s => given'[r] = given[r]
  BY <1>1 DEF Pass, TypeOK
<1>5. to \in {"client", "redirect", "next"}
  BY DEF Sends, Twin, Peers
<1>6. "client" \in Receivers /\ "peer" \in Receivers /\ "redirect" \in Receivers
  BY DEF Receivers, Peers
<1>7. state["client"] # "idle"
  BY <1>1 DEF InTurn
<1>8. sent'[s] = sent[s]
  <2>1. sent[s] \o <<>> = sent[s]
    BY <1>1, ConcatEmptySeq DEF TypeOK
  <2> QED
    BY <1>2, <1>4, <2>1
<1>9. state'["client"] = "called" => given'["client"] # <<>>
  <2>1. s = "client" => data # <<>>
    BY DEF Sends, Peers
  <2> QED
    BY <1>2, <1>3, <1>4, <1>6, <2>1 DEF Meant
<1>10. ASSUME Whole' PROVE Whole /\ data = sent[s]
  <2>1. data = sent[s]
    <3>1. state'[s] = "called"
      BY <1>2, <1>3
    <3> QED
      BY <1>4, <1>8, <1>10, <3>1 DEF Whole
  <2>2. ASSUME NEW r \in Receivers, state[r] \in {"called", "strayed"} PROVE given[r] = sent[r]
    <3>1. r # s /\ r \notin waiting
      BY <1>2, <2>2
    <3>2. r # to
      BY <1>2, <1>5, <1>7, <2>2, <3>1 DEF Meant, InTurn, Sends, Twin, Peers
    <3> QED
      BY <1>3, <1>4, <1>10, <2>2, <3>1, <3>2 DEF Whole
  <2> QED
    BY <2>1, <2>2 DEF Whole
<1> QED
  BY <1>2, <1>3, <1>4, <1>5, <1>6, <1>7, <1>9, <1>10 DEF HandedOn, Meant

(* A message handed on whole to a peer is the request.                     *)
LEMMA RequestIntact ==
  ASSUME ExchangeInv, Meant, NEW p \in Peers, state[p] = "recv", Responsible \in Peers, Whole
  PROVE  request \in Requests /\ sent[p] = RequestSent /\ AsMeant
<1>1. state["client"] # "idle"
  BY DEF ExchangeInv, InTurn, Receivers
<1>2. request \in Requests /\ sent["peer"] = RequestSent /\ AsMeant
  BY <1>1 DEF Meant
<1>3. sent[p] # <<>>
  BY DEF ExchangeInv, Waiting, Receivers
<1> QED
  BY <1>2, <1>3 DEF AsMeant, Peers

LEMMA RespondMeant ==
  ASSUME ExchangeInv, Meant, NEW p \in Peers, state[p] = "recv",
         NEW data \in Seq(Nat), NEW rest \in Seq(Nat),
         NEW beyond \in byte8, Owner(decode_clientProtocol(data, beyond).key) = p,
         Pass(p, data, Twin[p], Served(table[p], decode_clientProtocol(data, beyond)), {}, rest),
         table' = [table EXCEPT ![p] = Stored(table[p], decode_clientProtocol(data, beyond))],
         UNCHANGED request
  PROVE  Meant'
<1> DEFINE d == decode_clientProtocol(data, beyond)
           bytes == Served(table[p], d)
<1>1. p \in Receivers /\ Twin[p] \in Receivers /\ {} \in SUBSET Receivers /\ bytes \in Seq(Nat)
  <2>1. bytes \in Seq(Nat)
    BY ServedBytes DEF ExchangeInv
  <2> QED
    BY <2>1 DEF Twin, Peers, Receivers
<1>2. Pass(p, data, Twin[p], bytes, {}, rest) /\ Sends(p, data, Twin[p], bytes, {})
  BY DEF Sends
<1> HIDE DEF d, bytes
<1>3. /\ \A r \in Receivers : state'[r] = IF r \in {} THEN "recv" ELSE IF r = p THEN "called" ELSE state[r]
      /\ sent'[Twin[p]] = sent[Twin[p]] \o bytes
      /\ \A r \in Receivers : r # Twin[p] => sent'[r] = sent[r]
      /\ state'["client"] # "idle" /\ sent'["peer"] = sent["peer"]
      /\ state'["client"] = "called" => given'["client"] # <<>>
      /\ state'["client"] # "strayed" /\ state'["redirect"] # "strayed"
      /\ Whole' => Whole /\ data = sent[p]
  <2>1. HandedOn(p, data, Twin[p], bytes, {})
    BY <1>1, <1>2, PassEffect
  <2> QED
    BY <2>1 DEF HandedOn
<1>4. state["client"] # "idle"
  BY <1>1 DEF ExchangeInv, InTurn
<1>5. /\ KeyAsked' = KeyAsked /\ Responsible' = Responsible /\ RequestSent' = RequestSent
      /\ TableWanted' = TableWanted /\ ValueWanted' = ValueWanted
  BY SameRequest
<1>6. ASSUME Responsible \in Peers, Whole' PROVE AsMeant'
  <2>1. request \in Requests /\ data = RequestSent /\ AsMeant
    BY <1>3, <1>6, RequestIntact
  <2>2. /\ d.key = KeyAsked
        /\ IsAnswer(Served(Initial[Responsible], d), request.op, ValueWanted)
        /\ Stored(Initial[Responsible], d) = TableWanted
    BY <1>6, <2>1, Serves DEF d
  <2>3. p = Responsible
    BY <2>2 DEF d, Responsible
  <2>4. table = Initial
    BY <2>1, <2>3 DEF AsMeant
  <2>5. table' = [Initial EXCEPT ![Responsible] = TableWanted]
    BY <2>2, <2>3, <2>4 DEF d
  <2>6. IsAnswer(bytes, request.op, ValueWanted)
    BY <2>2, <2>3, <2>4 DEF bytes
  <2>7. sent[Twin[p]] = <<>>
    <3>1. p = "peer" => sent["client"] = <<>>
      BY DEF ExchangeInv, InTurn
    <3>2. p = "next" => sent["redirect"] = <<>>
      BY DEF ExchangeInv, InTurn
    <3> QED
      BY <3>1, <3>2 DEF Twin, Peers
  <2>8. sent'[Twin[p]] = bytes
    BY <1>1, <1>3, <2>7, ConcatEmptySeq
  <2>9. sent'["next"] = sent["next"]
        /\ IsAnswer(sent'["redirect"], request.op, ValueWanted)
        /\ IsAnswer(sent'["client"], request.op, ValueWanted)
    BY <1>3, <2>1, <2>6, <2>8 DEF AsMeant, Twin, Peers, Receivers
  <2>10. (\A q \in Peers : state'[q] # "strayed") /\ (state'["next"] # "idle" => Responsible = "next")
         /\ state'[Responsible] = "called"
    BY <1>1, <1>3, <2>1, <2>3 DEF AsMeant, Peers, Receivers
  <2> QED
    BY <1>5, <2>1, <2>5, <2>9, <2>10 DEF AsMeant
<1> QED
  BY <1>3, <1>4, <1>5, <1>6 DEF Meant

LEMMA RelayMeant ==
  ASSUME ExchangeInv, Meant, state["peer"] = "recv",
         NEW data \in Seq(Nat), NEW rest \in Seq(Nat),
         NEW beyond \in byte8, Relay(data, decode_clientProtocol(data, beyond), rest),
         UNCHANGED request
  PROVE  Meant'
<1>1. {"peer", "next", "redirect", "client"} \subseteq Receivers /\ {"next", "redirect"} \in SUBSET Receivers
  BY DEF Peers, Receivers
<1>2. /\ Pass("peer", data, "next", data, {"next", "redirect"}, rest)
      /\ Sends("peer", data, "next", data, {"next", "redirect"})
  BY DEF Relay, Sends
<1>3. /\ \A r \in Receivers : state'[r] = IF r \in {"next", "redirect"} THEN "recv"
                                          ELSE IF r = "peer" THEN "called" ELSE state[r]
      /\ sent'["next"] = sent["next"] \o data
      /\ \A r \in Receivers : r # "next" => sent'[r] = sent[r]
      /\ state'["client"] # "idle" /\ sent'["peer"] = sent["peer"]
      /\ state'["client"] = "called" => given'["client"] # <<>>
      /\ state'["client"] # "strayed" /\ state'["redirect"] # "strayed"
      /\ Whole' => Whole /\ data = sent["peer"]
  <2>1. HandedOn("peer", data, "next", data, {"next", "redirect"})
    BY <1>1, <1>2, PassEffect
  <2> QED
    BY <2>1 DEF HandedOn
<1>4. state["client"] # "idle"
  BY <1>1 DEF ExchangeInv, InTurn
<1>5. /\ KeyAsked' = KeyAsked /\ Responsible' = Responsible /\ RequestSent' = RequestSent
      /\ TableWanted' = TableWanted /\ ValueWanted' = ValueWanted
  BY SameRequest
<1>6. ASSUME Responsible \in Peers, Whole' PROVE AsMeant'
  <2>1. request \in Requests /\ data = RequestSent /\ AsMeant
    BY <1>1, <1>3, <1>6, RequestIntact DEF Peers
  <2>2. Responsible = "next"
    <3>1. decode_clientProtocol(RequestSent, beyond).key = KeyAsked
      BY <1>6, <2>1, Serves
    <3> QED
      BY <2>1, <3>1 DEF Relay, Responsible
  <2>3. state["next"] = "idle" /\ sent["next"] = <<>>
    BY <1>1 DEF ExchangeInv, InTurn, Untouched
  <2>4. sent'["next"] = RequestSent
    BY <1>3, <2>1, <2>3, ConcatEmptySeq
  <2>5. table' = Initial
    BY <2>1, <2>2, <2>3 DEF AsMeant, Relay
  <2> QED
    BY <1>1, <1>3, <1>5, <2>1, <2>2, <2>4, <2>5 DEF AsMeant, Peers
<1> QED
  BY <1>3, <1>4, <1>5, <1>6 DEF Meant

(* A receiver that ends without handing on anything.                       *)
LEMMA EndMeant ==
  ASSUME ExchangeInv, Meant, NEW s \in Receivers, state[s] = "recv",
         NEW end \in {"crashed", "reset", "killed"}, state' = [state EXCEPT ![s] = end],
         \A r \in Receivers : r # s => given'[r] = given[r],
         UNCHANGED <<sent, table, request>>
  PROVE  Meant'
<1>1. \A r \in Receivers : state'[r] = IF r = s THEN end ELSE state[r]
  BY DEF ExchangeInv, TypeOK
<1>2. {"peer", "next", "redirect", "client"} \subseteq Receivers /\ Peers \subseteq Receivers
  BY DEF Peers, Receivers
<1>3. state["client"] # "idle" /\ state'["client"] # "idle"
  BY <1>1, <1>2 DEF ExchangeInv, InTurn
<1>4. /\ KeyAsked' = KeyAsked /\ Responsible' = Responsible /\ RequestSent' = RequestSent
      /\ TableWanted' = TableWanted /\ ValueWanted' = ValueWanted
  BY SameRequest
<1>5. Whole' => Whole
  BY <1>1 DEF Whole
<1>6. ASSUME Responsible \in Peers, Whole' PROVE AsMeant'
  <2>1. AsMeant
    BY <1>3, <1>5, <1>6 DEF Meant
  <2>2. \A q \in Peers : state'[q] # "strayed" /\ (state'[q] = "called" <=> state[q] = "called")
    BY <1>1, <1>2, <2>1 DEF AsMeant
  <2>3. state'["next"] # "idle" => state["next"] # "idle"
    BY <1>1, <1>2
  <2> QED
    BY <1>4, <1>6, <2>1, <2>2, <2>3 DEF AsMeant
<1> QED
  BY <1>1, <1>2, <1>3, <1>4, <1>6 DEF Meant

(* A death like that leaves everything else as it is.                      *)
LEMMA DieMeant ==
  ASSUME ExchangeInv, Meant, NEW s \in Receivers, state[s] = "recv",
         NEW seen, NEW rest, Die(s, seen, rest), UNCHANGED request
  PROVE  Meant'
<1>1. /\ state' = [state EXCEPT ![s] = "crashed"] /\ UNCHANGED <<sent, table, request>>
      /\ given' = [given EXCEPT ![s] = seen]
  BY DEF Die, Stop
<1>2. \A r \in Receivers : r # s => given'[r] = given[r]
  BY <1>1 DEF ExchangeInv, TypeOK
<1> QED
  BY <1>1, <1>2, EndMeant

(* A peer goes astray only with what is not the whole request.             *)
LEMMA StrayedMeant ==
  ASSUME ExchangeInv, Meant, NEW p \in Peers, state[p] = "recv",
         NEW data \in Seq(Nat), NEW rest \in Seq(Nat), Stop(p, "strayed", data, rest),
         ~ (Responsible \in Peers /\ request \in Requests /\ data = RequestSent /\ AsMeant),
         UNCHANGED request
  PROVE  Meant'
<1>1. p \in Receivers /\ {"peer", "next", "redirect", "client"} \subseteq Receivers
  BY DEF Peers, Receivers
<1>2. /\ given' = [given EXCEPT ![p] = data] /\ state' = [state EXCEPT ![p] = "strayed"]
      /\ UNCHANGED <<sent, table>>
  BY DEF Stop
<1>3. /\ given'[p] = data /\ state'[p] = "strayed"
      /\ \A r \in Receivers : r # p => given'[r] = given[r] /\ state'[r] = state[r]
  BY <1>1, <1>2 DEF ExchangeInv, TypeOK
<1>4. KeyAsked' = KeyAsked /\ Responsible' = Responsible /\ RequestSent' = RequestSent
  BY SameRequest
<1>5. ASSUME Responsible \in Peers, Whole' PROVE FALSE
  <2>1. Whole /\ data = sent[p]
    BY <1>1, <1>2, <1>3, <1>5 DEF Whole
  <2>2. request \in Requests /\ data = RequestSent /\ AsMeant
    BY <1>5, <2>1, RequestIntact
  <2> QED
    BY <1>5, <2>2
<1>6. state["client"] # "idle" /\ state'["client"] = state["client"]
      /\ state'["redirect"] = state["redirect"] /\ given'["client"] = given["client"]
  BY <1>1, <1>3 DEF Peers, ExchangeInv, InTurn
<1> QED
  BY <1>2, <1>4, <1>5, <1>6 DEF Meant

LEMMA StrayMeant ==
  ASSUME ExchangeInv, Meant, NEW p \in Peers, state[p] = "recv",
         NEW data \in Seq(Nat), NEW rest \in Seq(Nat),
         NEW beyond \in byte8, Stray(p, data, decode_clientProtocol(data, beyond), rest),
         UNCHANGED request
  PROVE  Meant'
<1> DEFINE d == decode_clientProtocol(data, beyond)
<1> HIDE DEF d
<1>1. p \in Receivers
  BY DEF Receivers
<1>2. CASE Overruns(d)
  <2>1. Die(p, data, rest)
    BY <1>2 DEF Stray, Die, d
  <2> QED
    BY <1>1, <2>1, DieMeant
<1>3. CASE ~ Overruns(d)
  <2>1. Stop(p, "strayed", data, rest)
    BY <1>3 DEF Stray, d
  <2>2. ASSUME Responsible \in Peers, request \in Requests, data = RequestSent, AsMeant PROVE FALSE
    <3>1. decode_clientProtocol(RequestSent, beyond).key = KeyAsked
      BY <2>2, Serves
    <3>2. Responsible \notin {p} \union (IF p = "peer" THEN {"next"} ELSE {})
      BY <2>2, <3>1 DEF Stray, Responsible
    <3>3. state["next"] # "idle" => Responsible = "next"
      BY <2>2 DEF AsMeant
    <3> QED
      BY <2>2, <3>2, <3>3 DEF Peers
  <2> QED
    BY <2>1, <2>2, StrayedMeant
<1> QED
  BY <1>2, <1>3

LEMMA ForeignMeant ==
  ASSUME ExchangeInv, Meant, NEW p \in Peers, state[p] = "recv",
         NEW data \in Seq(Nat), NEW rest \in Seq(Nat),
         Foreign(data), Stop(p, "strayed", data, rest), UNCHANGED request
  PROVE  Meant'
  BY OwnRequest, StrayedMeant

LEMMA RedirectMeant ==
  ASSUME ExchangeInv, Meant, state["redirect"] = "recv",
         NEW data \in Seq(Nat), NEW rest \in Seq(Nat),
         Redirect(data, rest), UNCHANGED request
  PROVE  Meant'
<1>1. {"peer", "next", "redirect", "client"} \subseteq Receivers /\ {} \in SUBSET Receivers
  BY DEF Peers, Receivers
<1>2. HandedOn("redirect", data, "client", data, {})
  <2>1. Pass("redirect", data, "client", data, {}, rest) /\ Sends("redirect", data, "client", data, {})
    BY DEF Redirect, Sends
  <2> QED
    BY <1>1, <2>1, PassEffect
<1>3. state["client"] # "idle" /\ sent["client"] = <<>>
  BY <1>1 DEF ExchangeInv, InTurn
<1>4. /\ KeyAsked' = KeyAsked /\ Responsible' = Responsible /\ RequestSent' = RequestSent
      /\ TableWanted' = TableWanted /\ ValueWanted' = ValueWanted
  BY SameRequest
<1>5. ASSUME Responsible \in Peers, Whole' PROVE AsMeant'
  <2>1. AsMeant /\ data = sent["redirect"]
    BY <1>2, <1>3, <1>5 DEF Meant, HandedOn
  <2>2. sent'["client"] = data
    BY <1>2, <1>3, ConcatEmptySeq DEF HandedOn
  <2>3. \A q \in Peers : state'[q] = state[q]
    BY <1>2 DEF HandedOn, Peers, Receivers
  <2>4. sent'["next"] = sent["next"] /\ sent'["redirect"] = sent["redirect"]
    BY <1>1, <1>2 DEF HandedOn
  <2>5. UNCHANGED table
    BY DEF Redirect
  <2> QED
    BY <1>4, <1>5, <2>1, <2>2, <2>3, <2>4, <2>5 DEF AsMeant, Peers
<1> QED
  BY <1>2, <1>3, <1>4, <1>5 DEF Meant, HandedOn

LEMMA ClientDoneMeant ==
  ASSUME ExchangeInv, Meant, state["client"] = "recv",
         NEW data \in Seq(Nat), NEW rest \in Seq(Nat),
         NEW beyond, ClientDone(data, beyond, rest), UNCHANGED request
  PROVE  Meant'
<1>1. {"peer", "next", "redirect", "client"} \subseteq Receivers /\ {} \in SUBSET Receivers
  BY DEF Peers, Receivers
<1>2. CASE Die("client", data, rest)
  BY <1>1, <1>2, DieMeant
<1>3. CASE data # <<>> /\ Pass("client", data, "client", <<>>, {}, rest) /\ UNCHANGED table
  <2>1. HandedOn("client", data, "client", <<>>, {})
    <3>1. Pass("client", data, "client", <<>>, {}, rest) /\ Sends("client", data, "client", <<>>, {})
      BY <1>3 DEF Sends
    <3> QED
      BY <1>1, <3>1, EmptySeq, PassEffect
  <2>2. /\ KeyAsked' = KeyAsked /\ Responsible' = Responsible /\ RequestSent' = RequestSent
        /\ TableWanted' = TableWanted /\ ValueWanted' = ValueWanted
    BY SameRequest
  <2>3. \A r \in Receivers : sent'[r] = sent[r]
    <3>1. sent["client"] \o <<>> = sent["client"]
      BY <1>1, ConcatEmptySeq DEF ExchangeInv, TypeOK
    <3> QED
      BY <2>1, <3>1 DEF HandedOn
  <2>4. ASSUME Responsible \in Peers, Whole' PROVE AsMeant'
    <3>1. AsMeant
      BY <2>1, <2>4 DEF Meant, HandedOn
    <3>2. \A q \in Peers : state'[q] = state[q]
      BY <2>1 DEF HandedOn, Peers, Receivers
    <3>3. UNCHANGED table
      BY <1>3
    <3> QED
      BY <1>1, <2>2, <2>3, <2>4, <3>1, <3>2, <3>3 DEF AsMeant, Peers
  <2> QED
    BY <2>1, <2>2, <2>4 DEF Meant, HandedOn
<1> QED
  BY <1>2, <1>3 DEF ClientDone

LEMMA UnwindMeant ==
  ASSUME ExchangeInv, Meant, NEW s \in Receivers, state[s] = "recv",
         NEW last \in Seq(Nat), NEW rest \in Seq(Nat),
         Unwind(s, last, rest), UNCHANGED request
  PROVE  Meant'
<1>1. PICK moves \in SUBSET Growing(s, last), junk \in byte8 : \E got \in Seq(Nat) :
        (moves # {} /\ Die(s, <<>>, rest)) \/ Handled(s, got, junk, rest)
  BY Unwound DEF ExchangeInv
<1>2. PICK got \in Seq(Nat) : Die(s, <<>>, rest) \/ Handled(s, got, junk, rest)
  BY <1>1
<1>3. CASE Die(s, <<>>, rest)
  BY <1>3, DieMeant
<1>4. CASE s \in Peers /\ receive_handler(s, got, junk, rest)
  <2> DEFINE d == decode_clientProtocol(got, junk)
  <2>1. CASE Foreign(got) /\ Stop(s, "strayed", got, rest)
    BY <1>4, <2>1, ForeignMeant
  <2>2. CASE Die(s, got, rest)
    BY <2>2, DieMeant
  <2>3. CASE Respond(s, got, d, rest)
    <3>1. CASE Faults(table[s], d)
      BY <2>3, <3>1, DieMeant DEF Respond
    <3>2. CASE ~ Faults(table[s], d)
      <4>1. /\ Owner(d.key) = s /\ Pass(s, got, Twin[s], Served(table[s], d), {}, rest)
            /\ table' = [table EXCEPT ![s] = Stored(table[s], d)]
        BY <2>3, <3>2 DEF Respond
      <4> QED
        BY <1>4, <4>1, RespondMeant
    <3> QED
      BY <3>1, <3>2
  <2>4. CASE s = "peer" /\ Relay(got, d, rest)
    BY <2>4, RelayMeant
  <2>5. CASE Stray(s, got, d, rest)
    BY <1>4, <2>5, StrayMeant
  <2> HIDE DEF d
  <2> QED
    BY <1>4, <2>1, <2>2, <2>3, <2>4, <2>5 DEF receive_handler, d
<1>5. CASE s = "redirect" /\ Redirect(got, rest)
  BY <1>5, RedirectMeant
<1>6. CASE s = "client" /\ ClientDone(got, junk, rest)
  BY <1>6, ClientDoneMeant
<1> QED
  BY <1>2, <1>3, <1>4, <1>5, <1>6 DEF Handled

LEMMA ReceiveMeant ==
  ASSUME ExchangeInv, Meant, NEW s \in Receivers, Receive(s)
  PROVE  Meant'
<1>1. state[s] = "recv" /\ stream[s] # <<>> /\ UNCHANGED <<split, request>>
  BY DEF Receive
<1>2. PICK n \in Arrivals(s) :
        LET bytes == SubSeq(stream[s], 1, n)
            rest  == SubSeq(stream[s], n + 1, Len(stream[s]))
        IN \/ Unwind(s, bytes, rest)
           \/ UNCHANGED <<state, sent, moved, given, table>>
  BY DEF Receive
<1> DEFINE bytes == SubSeq(stream[s], 1, n)
           rest  == SubSeq(stream[s], n + 1, Len(stream[s]))
<1>3. /\ n \in 1 .. BUFFER_SIZE
      /\ bytes \in Seq(Nat) /\ Len(bytes) = n /\ bytes # <<>>
      /\ rest \in Seq(Nat)
      /\ stream[s] = bytes \o rest
      /\ ~ split /\ n < BUFFER_SIZE => rest = <<>>
  <2>1. TypeOK
    BY DEF ExchangeInv
  <2> QED
    BY <1>1, <2>1, Arrival
<1>4. CASE Unwind(s, bytes, rest)
  <2> HIDE DEF bytes, rest
  <2> QED
    BY <1>1, <1>3, <1>4, UnwindMeant
<1>5. CASE UNCHANGED <<state, sent, moved, given, table>>
  <2>1. /\ KeyAsked' = KeyAsked /\ Responsible' = Responsible /\ RequestSent' = RequestSent
        /\ TableWanted' = TableWanted /\ ValueWanted' = ValueWanted
    BY <1>1, SameRequest
  <2> QED
    BY <1>1, <1>5, <2>1 DEF Meant, AsMeant, Whole
<1> QED
  BY <1>2, <1>4, <1>5

LEMMA ClientSendMeant ==
  ASSUME ExchangeInv, Meant, ClientSend
  PROVE  Meant'
<1>1. "peer" \in Receivers /\ "next" \in Receivers /\ "redirect" \in Receivers /\ "client" \in Receivers
  BY DEF Receivers, Peers
<1>2. PICK r \in Requests :
        /\ request' = r
        /\ sent' = [sent EXCEPT !["peer"] = encode_clientProtocol(RequestStruct(r))]
  BY DEF ClientSend
<1>3. request' \in Requests /\ sent'["peer"] = RequestSent'
  BY <1>1, <1>2 DEF ExchangeInv, TypeOK, RequestSent
<1>4. \A s \in Receivers : state[s] = "idle" /\ sent[s] = <<>>
  BY DEF ClientSend, ExchangeInv, InTurn, Untouched
<1>5. \A s \in Receivers : state'[s] = IF s \in {"client", "peer"} THEN "recv" ELSE "idle"
  BY <1>4 DEF ClientSend, ExchangeInv, TypeOK
<1>6. sent'["next"] = <<>> /\ sent'["redirect"] = <<>> /\ sent'["client"] = <<>>
  BY <1>1, <1>2, <1>4 DEF ExchangeInv, TypeOK
<1>7. table' = Initial
  BY <1>1, <1>4 DEF ClientSend, Meant
<1>8. ASSUME Responsible' \in Peers PROVE AsMeant'
  <2>1. \A q \in Peers : state'[q] \notin {"strayed", "called"}
    BY <1>5 DEF Receivers
  <2>2. IsAnswer(<<>>, request'.op, ValueWanted')
    BY DEF IsAnswer
  <2> QED
    BY <1>1, <1>5, <1>6, <1>7, <1>8, <2>1, <2>2 DEF AsMeant
<1> QED
  BY <1>1, <1>3, <1>5, <1>8 DEF Meant

LEMMA MeantStep == ExchangeInv /\ Meant /\ [Next]_vars => Meant'
<1> SUFFICES ASSUME ExchangeInv, Meant, [Next]_vars PROVE Meant'
  OBVIOUS
<1>1. CASE ClientSend
  BY <1>1, ClientSendMeant
<1>2. CASE ClientKilled
  <2>1. "client" \in Receivers
    BY DEF Receivers
  <2> QED
    BY <1>2, <2>1, EndMeant DEF ClientKilled
<1>3. ASSUME NEW s \in Receivers, ReceiveClosed(s) PROVE Meant'
  <2>1. state[s] = "recv" /\ Closed(s) /\ Unwind(s, <<>>, <<>>) /\ UNCHANGED request
    BY <1>3 DEF ReceiveClosed
  <2>2. <<>> \in Seq(Nat)
    BY EmptySeq
  <2> QED
    BY <2>1, <2>2, UnwindMeant
<1>4. ASSUME NEW s \in Receivers, ReceiveReset(s) PROVE Meant'
  <2>1. PICK end \in {"crashed", "reset", "killed"} : state' = [state EXCEPT ![s] = end]
    BY <1>4 DEF ReceiveReset
  <2> QED
    BY <1>4, <2>1, EndMeant DEF ReceiveReset
<1>5. ASSUME NEW s \in Receivers, direct_receive(s) PROVE Meant'
  BY <1>3, <1>4, <1>5, ReceiveMeant DEF direct_receive
<1>6. CASE UNCHANGED vars
  <2>1. /\ KeyAsked' = KeyAsked /\ Responsible' = Responsible /\ RequestSent' = RequestSent
        /\ TableWanted' = TableWanted /\ ValueWanted' = ValueWanted
    BY <1>6, SameRequest DEF vars
  <2> QED
    BY <1>6, <2>1 DEF vars, Meant, AsMeant, Whole
<1> QED
  BY <1>1, <1>2, <1>5, <1>6 DEF Next

(* What is given whole is understood (client.c:40-119, peer.c:133-255):    *)
(* the responsible peer's table changes as the command line says, whether  *)
(* or not the asked peer relays it (peer.c:222-240), the client reads the  *)
(* value that peer held, and no peer takes the request for another's.      *)
THEOREM RequestUnderstood == Spec => []Understood
<1>1. Init => Meant
  BY DEF Init, Meant, Receivers, Peers
<1>2. ASSUME ExchangeInv, Meant PROVE Understood
  <2>1. SUFFICES ASSUME Responsible \in Peers, Whole
                 PROVE  /\ \A q \in Peers : state[q] # "strayed"
                        /\ state[Responsible] = "called" => table = [Initial EXCEPT ![Responsible] = TableWanted]
                        /\ state["client"] = "called" =>
                             LET answer == decode_clientProtocol(given["client"], 0)
                             IN /\ answer.bits = {"act", request.op}
                                /\ request.op = "get" => answer.value = ValueWanted
    BY DEF Understood, Whole, Responsible, TableWanted, ValueWanted
  <2>2. Peers \subseteq Receivers /\ "client" \in Receivers
    BY DEF Receivers
  <2>3. CASE state["client"] = "idle"
    BY <1>2, <2>1, <2>2, <2>3 DEF ExchangeInv, InTurn
  <2>4. CASE state["client"] # "idle"
    <3>1. AsMeant
      BY <1>2, <2>1, <2>4 DEF Meant
    <3>2. ASSUME state["client"] = "called"
          PROVE  IsAnswer(given["client"], request.op, ValueWanted) /\ given["client"] # <<>>
      BY <1>2, <2>1, <2>2, <3>1, <3>2 DEF Meant, AsMeant, Whole
    <3>3. state["client"] = "called" =>
            LET answer == decode_clientProtocol(given["client"], 0)
            IN /\ answer.bits = {"act", request.op}
               /\ request.op = "get" => answer.value = ValueWanted
      BY <3>2 DEF IsAnswer
    <3> QED
      BY <3>1, <3>3 DEF AsMeant
  <2> QED
    BY <2>3, <2>4
<1> QED
  BY <1>1, <1>2, ExchangeInvariant, MeantStep, PTL DEF Spec

-----------------------------------------------------------------------------
(* Requests that kill nobody.                                              *)

SentHarmless == ~ split /\ state["client"] # "idle" /\ Harmless

(* A message that fits into one buffer and holds what it claims to.        *)
Fits(bytes) ==
  /\ Len(bytes) < BUFFER_SIZE
  /\ \A beyond \in byte8 :
       LET d == decode_clientProtocol(bytes, beyond)
       IN clientProtocolCalculateSize(d) <= Len(bytes) /\ HeaderSize + d.key_length <= Len(bytes)

(* Then one recv takes a message, no block is moved, and every answer fits *)
(* as well as the request.                                                 *)
Unhurt ==
  SentHarmless =>
    /\ \A s \in Receivers :
         /\ state[s] \notin {"crashed", "reset", "strayed"} /\ (state[s] = "killed" => s = "client")
         /\ held[s] = <<>> /\ moved[s] = {}
    /\ \A s \in {"redirect", "client"} : sent[s] = <<>> \/ Fits(sent[s])

LEMMA SameHarm ==
  ASSUME UNCHANGED request
  PROVE  Harmless' = Harmless
<1>1. KeyAsked' = KeyAsked
  BY SameRequest
<1> QED
  BY <1>1 DEF Harmless, ValueAsked

LEMMA KeyCounted ==
  ASSUME request \in Requests
  PROVE  /\ Len(KeyAsked) \in Nat /\ Len(ValueGiven) \in Nat /\ Responsible = Owner(KeyAsked)
         /\ KeyAsked \in DOMAIN Initial[Responsible] /\ Responsible \in Peers =>
              Len(Initial[Responsible][KeyAsked]) \in Nat
<1>1. Encodable(KeyAsked, ValueGiven)
  BY RequestRead
<1>2. Len(KeyAsked) \in Nat /\ Len(ValueGiven) \in Nat
  BY <1>1, LenProperties DEF Encodable
<1>3. ASSUME KeyAsked \in DOMAIN Initial[Responsible], Responsible \in Peers
      PROVE  Len(Initial[Responsible][KeyAsked]) \in Nat
  BY <1>3, ExchangeAssumption, LenProperties
<1> QED
  BY <1>2, <1>3 DEF Responsible

(* What is read as short lengths fits.                                     *)
LEMMA FitsSo ==
  ASSUME NEW bytes, NEW bits, NEW key, NEW value, Len(key) \in Nat, Len(value) \in Nat,
         \A beyond : ReadsAs(bytes, beyond, bits, key, value),
         Len(bytes) = HeaderSize + Len(key) + Len(value), Len(bytes) < BUFFER_SIZE
  PROVE  Fits(bytes)
<1>1. ASSUME NEW beyond \in byte8
      PROVE  LET d == decode_clientProtocol(bytes, beyond)
             IN clientProtocolCalculateSize(d) <= Len(bytes) /\ HeaderSize + d.key_length <= Len(bytes)
  <2> DEFINE d == decode_clientProtocol(bytes, beyond)
  <2>1. d.key_length = Len(key) /\ d.value_length = Len(value)
    BY DEF ReadsAs
  <2> HIDE DEF d
  <2>2. clientProtocolCalculateSize(d) <= Len(bytes) /\ HeaderSize + d.key_length <= Len(bytes)
    BY <2>1 DEF clientProtocolCalculateSize, HeaderSize
  <2> QED
    BY <2>2 DEF d
<1> QED
  BY <1>1 DEF Fits

LEMMA RequestFits ==
  ASSUME request \in Requests, Harmless
  PROVE  Fits(RequestSent)
<1>1. /\ \A beyond : ReadsAs(RequestSent, beyond, BitsAsked, KeyAsked, ValueGiven)
      /\ Len(RequestSent) = HeaderSize + Len(KeyAsked) + Len(ValueGiven)
  BY RequestRead
<1>2. Len(KeyAsked) \in Nat /\ Len(ValueGiven) \in Nat
  BY KeyCounted
<1>3. Len(RequestSent) < BUFFER_SIZE
  <2> DEFINE carried == CASE request.op = "set" -> Len(request.value)
                          [] request.op = "get" -> Len(ValueAsked(Owner(KeyAsked)))
                          [] OTHER -> 0
  <2>1. HeaderSize + Len(KeyAsked) + carried < BUFFER_SIZE
    BY DEF Harmless
  <2>2. CASE request.op = "set"
    BY <1>1, <2>1, <2>2 DEF ValueGiven
  <2>3. CASE request.op # "set"
    <3>1. Len(ValueGiven) = 0
      BY <2>3, EmptySeq DEF ValueGiven
    <3>2. carried \in Nat
      <4>1. Owner(KeyAsked) \in Peers
        BY DEF Harmless
      <4>2. Len(ValueAsked(Owner(KeyAsked))) \in Nat
        BY <4>1, KeyCounted, EmptySeq DEF ValueAsked, Responsible
      <4> QED
        BY <2>3, <4>2
    <3> HIDE DEF carried
    <3> QED
      BY <1>1, <1>2, <2>1, <3>1, <3>2, ExchangeAssumption DEF HeaderSize
  <2> QED
    BY <2>2, <2>3
<1> QED
  BY <1>1, <1>2, <1>3, FitsSo

(* So does the answer to a harmless request.                               *)
LEMMA AnswerFits ==
  ASSUME request \in Requests, Harmless, NEW beyond
  PROVE  LET answer == Served(Initial[Responsible], decode_clientProtocol(RequestSent, beyond))
         IN answer = <<>> \/ Fits(answer)
<1> DEFINE d == decode_clientProtocol(RequestSent, beyond)
           kv == Initial[Responsible]
<1>1. ReadsAs(RequestSent, beyond, BitsAsked, KeyAsked, ValueGiven) /\ Encodable(KeyAsked, ValueGiven)
  BY RequestRead
<1>2. d.bits = BitsAsked /\ d.key = KeyAsked
  BY <1>1 DEF ReadsAs
<1>3. Responsible \in Peers /\ Len(KeyAsked) \in Nat
  BY KeyCounted DEF Harmless, Responsible
<1>4. ASSUME NEW op \in {"get", "set", "delete"} PROVE Fits(Acknowledge(op))
  <2>1. /\ \A after : ReadsAs(Acknowledge(op), after, {"act", op}, <<>>, <<>>)
        /\ Len(Acknowledge(op)) = HeaderSize
    BY Acknowledges
  <2>2. Len(<<>>) = 0
    BY EmptySeq
  <2>3. HeaderSize < BUFFER_SIZE
    <3>1. Fits(RequestSent) /\ Len(RequestSent) = HeaderSize + Len(KeyAsked) + Len(ValueGiven)
      BY RequestFits, RequestRead
    <3>2. Len(ValueGiven) \in Nat
      BY KeyCounted
    <3> QED
      BY <1>3, <3>1, <3>2, ExchangeAssumption DEF Fits, HeaderSize
  <2>4. Len(<<>>) \in Nat /\ Len(Acknowledge(op)) = HeaderSize + Len(<<>>) + Len(<<>>)
        /\ Len(Acknowledge(op)) < BUFFER_SIZE
    BY <2>1, <2>2, <2>3 DEF HeaderSize
  <2> QED
    BY <2>1, <2>4, FitsSo
<1>5. ASSUME request.op = "get", KeyAsked \in DOMAIN kv
      PROVE  Fits(encode_clientProtocol(FoundStruct(d, kv[KeyAsked])))
  <2> DEFINE value == kv[KeyAsked]
             answer == encode_clientProtocol(FoundStruct(d, value))
  <2>1. Encodable(KeyAsked, value)
    <3>1. value \in Seq(byte8) /\ Len(value) < (Radix * Radix) * (Radix * Radix)
      BY <1>3, <1>5, ExchangeAssumption, LengthAssumption
    <3>2. byte8 \subseteq Nat
      BY CodecAssumption DEF byte8
    <3>3. value \in Seq(Nat)
      BY <3>1, <3>2, SeqMonotonic
    <3> HIDE DEF value
    <3> QED
      BY <1>1, <3>1, <3>3 DEF Encodable
  <2>2. ReadsAs(RequestSent, beyond, {"get"}, KeyAsked, ValueGiven)
    <3>1. BitsAsked = {"get"}
      BY <1>5 DEF BitsAsked
    <3> QED
      BY <1>1, <3>1
  <2>3. Len(value) \in Nat
    BY <1>3, <1>5, KeyCounted
  <2>4. HeaderSize + Len(KeyAsked) + Len(value) < BUFFER_SIZE
    <3>1. ValueAsked(Owner(KeyAsked)) = value
      BY <1>5 DEF ValueAsked, Responsible
    <3> QED
      BY <1>5, <3>1 DEF Harmless
  <2> HIDE DEF value
  <2>5. ASSUME NEW after
        PROVE  /\ ReadsAs(answer, after, {"act", "get"}, KeyAsked, value)
               /\ Len(answer) = HeaderSize + Len(KeyAsked) + Len(value)
    BY <2>1, <2>2, FoundAnswer
  <2> HIDE DEF answer
  <2>6. Fits(answer)
    BY <1>3, <2>3, <2>4, <2>5, FitsSo
  <2> QED
    BY <2>6 DEF answer, value
<1> HIDE DEF d, kv
<1>6. Served(kv, d) = <<>> \/ Fits(Served(kv, d))
  <2>1. CASE request.op = "get"
    <3>1. d.bits = {"get"}
      BY <1>2, <2>1 DEF BitsAsked
    <3> QED
      BY <1>2, <1>4, <1>5, <2>1, <3>1 DEF Served
  <2>2. CASE request.op \in {"set", "delete"}
    <3>1. d.bits = {request.op}
      BY <1>2, <2>2 DEF BitsAsked
    <3> QED
      BY <1>4, <2>2, <3>1 DEF Served
  <2>3. CASE request.op \notin {"get", "set", "delete"}
    <3>1. d.bits = {}
      BY <1>2, <2>3 DEF BitsAsked
    <3> QED
      BY <3>1 DEF Served
  <2> QED
    BY <2>1, <2>2, <2>3
<1> QED
  BY <1>6 DEF d, kv

(* A harmless request has gone wherever it went as it was meant.           *)
LEMMA HarmlessMeant ==
  ASSUME ExchangeInv, Meant, Unhurt, SentHarmless
  PROVE  Responsible \in Peers /\ request \in Requests /\ Whole /\ AsMeant
<1>1. ASSUME NEW s \in Receivers, state[s] \in {"called", "strayed"} PROVE given[s] = sent[s]
  <2>1. state[s] = "called" /\ moved[s] = {} /\ ~ split
    BY <1>1 DEF Unhurt, SentHarmless
  <2>2. /\ Len(given[s]) = Len(sent[s])
        /\ \A i \in 1 .. Len(given[s]) : Intact(moved[s], i) => given[s][i] = sent[s][i]
    BY <2>1 DEF ExchangeInv, GivenAsSent
  <2>3. \A i : Intact(moved[s], i)
    BY <2>1 DEF Intact
  <2>4. given[s] \in Seq(Nat) /\ sent[s] \in Seq(Nat)
    BY DEF ExchangeInv, TypeOK
  <2> QED
    BY <2>2, <2>3, <2>4, SeqEqual
<1>2. Whole
  BY <1>1 DEF Whole
<1>3. Responsible \in Peers
  BY DEF SentHarmless, Harmless, Responsible
<1> QED
  BY <1>2, <1>3 DEF Meant, SentHarmless

(* Each of its messages is read, and by one recv.                          *)
LEMMA HarmlessFits ==
  ASSUME ExchangeInv, Meant, Unhurt, SentHarmless, NEW s \in Receivers
  PROVE  sent[s] = <<>> \/ Fits(sent[s])
<1>1. request \in Requests /\ AsMeant /\ sent["peer"] = RequestSent
  BY HarmlessMeant DEF Meant, SentHarmless
<1>2. Fits(RequestSent)
  BY <1>1, RequestFits DEF SentHarmless
<1> QED
  BY <1>1, <1>2 DEF AsMeant, Unhurt, Receivers, Peers

LEMMA HarmlessReceive ==
  ASSUME ExchangeInv, Meant, Unhurt, SentHarmless, NEW s \in Receivers, Receive(s)
  PROVE  /\ state[s] = "recv" /\ sent[s] # <<>> /\ Fits(sent[s])
         /\ moved' = [moved EXCEPT ![s] = {}] /\ UNCHANGED <<split, request, held>>
         /\ \E junk \in byte8 : Handled(s, sent[s], junk, <<>>)
<1>1. state[s] = "recv" /\ stream[s] # <<>> /\ UNCHANGED <<split, request>>
  BY DEF Receive
<1>2. PICK n \in Arrivals(s) :
        LET bytes == SubSeq(stream[s], 1, n)
            rest  == SubSeq(stream[s], n + 1, Len(stream[s]))
        IN n < BUFFER_SIZE => Unwind(s, bytes, rest) /\ UNCHANGED held
  BY DEF Receive
<1> DEFINE bytes == SubSeq(stream[s], 1, n)
           rest  == SubSeq(stream[s], n + 1, Len(stream[s]))
<1>3. TypeOK /\ held[s] = <<>> /\ held[s] \in Seq(Nat) /\ stream[s] \in Seq(Nat)
  BY DEF ExchangeInv, TypeOK, Unhurt
<1>4. /\ n \in 1 .. BUFFER_SIZE
      /\ bytes \in Seq(Nat) /\ Len(bytes) = n
      /\ rest \in Seq(Nat)
      /\ stream[s] = bytes \o rest
      /\ ~ split /\ n < BUFFER_SIZE => rest = <<>>
  BY ZenonT(30), <1>1, <1>3, Arrival
<1>5. n < BUFFER_SIZE => Unwind(s, bytes, rest) /\ UNCHANGED held
  BY <1>2
<1> HIDE DEF bytes, rest
<1>6. sent[s] = stream[s]
  BY <1>1, <1>3, ConcatEmptySeq DEF ExchangeInv, Waiting
<1>7. Fits(sent[s])
  BY <1>1, <1>6, HarmlessFits
<1>8. n < BUFFER_SIZE
  <2>1. Len(stream[s]) = Len(bytes) + Len(rest) /\ Len(rest) \in Nat
    BY <1>4, ConcatProperties, LenProperties
  <2> QED
    BY <1>4, <1>6, <1>7, <2>1, ExchangeAssumption DEF Fits
<1>9. rest = <<>> /\ bytes = sent[s]
  BY <1>4, <1>6, <1>8, ConcatEmptySeq DEF SentHarmless
<1>10. Growing(s, bytes) = {}
  <2>1. Len(held[s]) = 0
    BY <1>3, EmptySeq
  <2>2. Depth(s) = 0
    BY <2>1, ExchangeAssumption DEF Depth
  <2> QED
    BY <2>2 DEF Growing
<1>11. PICK moves \in SUBSET Growing(s, bytes), junk \in byte8 : \E got \in Seq(Nat) :
         /\ moves \in SUBSET Int
         /\ moved' = [moved EXCEPT ![s] = moves]
         /\ Reads(held[s] \o bytes, moves, got)
         /\ (moves # {} /\ Die(s, <<>>, rest)) \/ Handled(s, got, junk, rest)
  BY <1>3, <1>4, <1>5, <1>8, Unwound
<1>12. moves = {}
  BY <1>10
<1>13. PICK got \in Seq(Nat) : Reads(held[s] \o bytes, {}, got) /\ Handled(s, got, junk, rest)
  BY <1>11, <1>12
<1>14. got = sent[s]
  BY <1>3, <1>4, <1>9, <1>13, ConcatEmptySeq, ReadsAll
<1> QED
  BY <1>1, <1>5, <1>6, <1>7, <1>8, <1>9, <1>11, <1>12, <1>13, <1>14

(* Whoever is sent something has been sent nothing before.                 *)
LEMMA SentFirst ==
  ASSUME ExchangeInv, NEW s \in Receivers, state[s] = "recv", NEW data, data # <<>> \/ s # "client",
         NEW to \in Receivers, NEW bytes, NEW waiting,
         Sends(s, data, to, bytes, waiting), s # to, s = "redirect" => state["next"] # "recv"
  PROVE  sent[to] = <<>>
<1>1. CASE s = "peer" /\ to = "client"
  BY <1>1 DEF ExchangeInv, InTurn
<1>2. CASE s = "next" /\ to = "redirect"
  BY <1>2 DEF ExchangeInv, InTurn
<1>3. CASE s = "peer" /\ to = "next"
  BY <1>3 DEF ExchangeInv, InTurn, Untouched
<1>4. CASE s = "redirect" /\ to = "client"
  BY <1>4 DEF ExchangeInv, InTurn
<1> QED
  BY <1>1, <1>2, <1>3, <1>4 DEF Sends, Twin, Peers

(* Whoever has got such a message hands it on, and what it sends fits.     *)
HandsOnFitting(s) ==
  \E to \in Receivers, bytes \in Seq(Nat), waiting \in SUBSET Receivers :
    /\ Pass(s, sent[s], to, bytes, waiting, <<>>)
    /\ Sends(s, sent[s], to, bytes, waiting)
    /\ to \in {"redirect", "client"} => bytes = <<>> \/ Fits(bytes)

AnswerShort(answer) == answer = <<>> \/ Fits(answer)

LEMMA HarmlessRequest ==
  ASSUME ExchangeInv, Meant, Unhurt, SentHarmless, NEW p \in Peers, state[p] = "recv",
         NEW junk \in byte8, receive_handler(p, sent[p], junk, <<>>)
  PROVE  HandsOnFitting(p)
<1> DEFINE d == decode_clientProtocol(RequestSent, junk)
           kv == Initial[Responsible]
<1>1. Responsible \in Peers /\ request \in Requests /\ Whole /\ AsMeant
  BY HarmlessMeant
<1>2. sent[p] = RequestSent /\ RequestSent \in Seq(Nat)
  <2>1. sent[p] = RequestSent
    BY <1>1, RequestIntact
  <2> QED
    BY <2>1 DEF ExchangeInv, TypeOK, Receivers
<1>3. ~ Foreign(RequestSent) /\ Fits(RequestSent)
  BY <1>1, OwnRequest, RequestFits DEF SentHarmless
<1>4. d.key = KeyAsked /\ d.bits = BitsAsked
  <2>1. ReadsAs(RequestSent, junk, BitsAsked, KeyAsked, ValueGiven)
    BY <1>1, RequestRead
  <2> QED
    BY <2>1 DEF ReadsAs
<1>5. clientProtocolCalculateSize(d) <= Len(RequestSent) /\ HeaderSize + d.key_length <= Len(RequestSent)
  BY <1>3 DEF Fits
<1>6. \/ Respond(p, RequestSent, d, <<>>)
      \/ p = "peer" /\ Relay(RequestSent, d, <<>>)
      \/ Stray(p, RequestSent, d, <<>>)
      \/ OverReads(p, RequestSent, d)
  BY <1>2, <1>3 DEF receive_handler
<1>7. AnswerShort(Served(kv, d))
  BY <1>1, AnswerFits DEF SentHarmless, AnswerShort
<1>8. d.key_length \in Nat /\ d.value_length \in Nat /\ Len(RequestSent) \in Nat
  BY <1>2, Decoded, LenProperties
<1> HIDE DEF d
<1>9. CASE Respond(p, RequestSent, d, <<>>)
  <2>1. Owner(d.key) = p /\ p = Responsible
    BY <1>4, <1>9 DEF Respond, Responsible
  <2>2. table[p] = kv
    BY <2>1, <1>1 DEF AsMeant
  <2>3. ~ Faults(table[p], d)
    <3>1. "delete" \in BitsAsked => request.op = "delete"
      BY DEF BitsAsked
    <3>2. request.op = "delete" => KeyAsked \in DOMAIN kv
      BY DEF SentHarmless, Harmless, Responsible
    <3> QED
      BY <1>4, <2>2, <3>1, <3>2 DEF Faults
  <2>4. Pass(p, RequestSent, Twin[p], Served(kv, d), {}, <<>>)
    BY <1>9, <2>2, <2>3 DEF Respond
  <2>5. Served(kv, d) \in Seq(Nat)
    <3>1. Served(table[p], d) \in Seq(Nat)
      BY <1>2, ServedBytes DEF ExchangeInv, d
    <3> QED
      BY <2>2, <3>1
  <2>6. Twin[p] \in Receivers /\ {} \in SUBSET Receivers
    BY DEF Twin, Peers, Receivers
  <2> HIDE DEF kv
  <2> QED
    BY <1>2, <1>7, <2>4, <2>5, <2>6 DEF HandsOnFitting, Sends, AnswerShort
<1>10. CASE p = "peer" /\ Relay(RequestSent, d, <<>>)
  <2>1. /\ Pass("peer", RequestSent, "next", RequestSent, {"next", "redirect"}, <<>>)
        /\ "next" \in Receivers /\ {"next", "redirect"} \in SUBSET Receivers
    BY <1>10 DEF Relay, Receivers, Peers
  <2> QED
    BY <1>2, <1>10, <2>1 DEF HandsOnFitting, Sends
<1>11. CASE Stray(p, RequestSent, d, <<>>)
  <2>1. Responsible \notin {p} \union (IF p = "peer" THEN {"next"} ELSE {})
    BY <1>4, <1>11 DEF Stray, Responsible
  <2>2. state["next"] # "idle" => Responsible = "next"
    BY <1>1 DEF AsMeant
  <2> QED
    BY <1>1, <2>1, <2>2 DEF Peers
<1>12. CASE OverReads(p, RequestSent, d)
  BY <1>5, <1>8, <1>12 DEF OverReads, clientProtocolCalculateSize, HeaderSize
<1> QED
  BY <1>6, <1>9, <1>10, <1>11, <1>12

LEMMA HarmlessHandled ==
  ASSUME ExchangeInv, Meant, Unhurt, SentHarmless, NEW s \in Receivers, state[s] = "recv",
         sent[s] # <<>>, Fits(sent[s]), NEW junk \in byte8, Handled(s, sent[s], junk, <<>>)
  PROVE  HandsOnFitting(s)
<1>1. sent[s] \in Seq(Nat) /\ {} \in SUBSET Receivers /\ "client" \in Receivers
  BY DEF ExchangeInv, TypeOK, Receivers
<1>2. CASE s \in Peers /\ receive_handler(s, sent[s], junk, <<>>)
  BY <1>2, HarmlessRequest
<1>3. CASE s = "redirect" /\ Redirect(sent[s], <<>>)
  <2>1. Pass("redirect", sent[s], "client", sent[s], {}, <<>>)
    BY <1>3 DEF Redirect
  <2> QED
    BY <1>1, <1>3, <2>1 DEF HandsOnFitting, Sends
<1>4. CASE s = "client" /\ ClientDone(sent[s], junk, <<>>)
  <2>1. ~ ClientFaults(sent[s], junk)
    <3> DEFINE d == decode_clientProtocol(sent[s], junk)
    <3>1. clientProtocolCalculateSize(d) <= Len(sent[s])
      BY DEF Fits
    <3>2. d.key_length \in Nat /\ d.value_length \in Nat /\ Len(sent[s]) \in Nat
      BY <1>1, Decoded, LenProperties
    <3> HIDE DEF d
    <3>3. ~ clientProtocolCalculateSize(d) > Len(sent[s])
      BY <3>1, <3>2 DEF clientProtocolCalculateSize, HeaderSize
    <3> QED
      BY <3>3 DEF ClientFaults, d
  <2>2. Pass("client", sent[s], "client", <<>>, {}, <<>>)
    BY <1>4, <2>1 DEF ClientDone
  <2>3. <<>> \in Seq(Nat)
    BY EmptySeq
  <2> QED
    BY <1>1, <1>4, <2>2, <2>3 DEF HandsOnFitting, Sends
<1> QED
  BY <1>2, <1>3, <1>4 DEF Handled

LEMMA ReceiveUnhurt ==
  ASSUME ExchangeInv, Meant, Unhurt, NEW s \in Receivers, Receive(s)
  PROVE  Unhurt'
<1>1. state[s] = "recv" /\ UNCHANGED <<split, request>> /\ state["client"] # "idle"
  BY DEF Receive, ExchangeInv, InTurn
<1>2. CASE ~ SentHarmless
  BY <1>1, <1>2, SameHarm DEF SentHarmless, Unhurt
<1>3. CASE SentHarmless
  <2>1. /\ sent[s] # <<>> /\ Fits(sent[s])
        /\ moved' = [moved EXCEPT ![s] = {}] /\ UNCHANGED held
        /\ HandsOnFitting(s)
    BY <1>3, HarmlessReceive, HarmlessHandled
  <2>2. PICK to \in Receivers, bytes \in Seq(Nat), waiting \in SUBSET Receivers :
          /\ Pass(s, sent[s], to, bytes, waiting, <<>>)
          /\ Sends(s, sent[s], to, bytes, waiting)
          /\ to \in {"redirect", "client"} => bytes = <<>> \/ Fits(bytes)
    BY <2>1 DEF HandsOnFitting
  <2>3. /\ \A r \in Receivers : state'[r] \in {"recv", "called", state[r]}
        /\ sent' = [sent EXCEPT ![to] = sent[to] \o bytes]
    BY <2>2 DEF Pass
  <2>4. \A r \in Receivers :
          /\ state'[r] \notin {"crashed", "reset", "strayed"} /\ (state'[r] = "killed" => r = "client")
          /\ held'[r] = <<>> /\ moved'[r] = {}
    BY <1>3, <2>1, <2>3 DEF Unhurt, ExchangeInv, TypeOK
  <2>5. ASSUME NEW r \in {"redirect", "client"} PROVE sent'[r] = <<>> \/ Fits(sent'[r])
    <3>1. sent \in [Receivers -> Seq(Nat)] /\ r \in Receivers /\ (sent[r] = <<>> \/ Fits(sent[r]))
      BY <1>3 DEF ExchangeInv, TypeOK, Unhurt, Receivers
    <3>2. CASE r # to
      BY <2>3, <3>1, <3>2
    <3>3. CASE r = to /\ s = to
      <4>1. bytes = <<>>
        BY <2>2, <3>3 DEF Sends, Twin, Peers
      <4>2. sent'[r] = sent[r]
        BY <2>3, <3>1, <3>3, <4>1, ConcatEmptySeq
      <4> QED
        BY <3>1, <4>2
    <3>4. CASE r = to /\ s # to
      <4>1. s = "redirect" => state["next"] # "recv"
        BY <2>1 DEF ExchangeInv, InTurn
      <4>2. sent[to] = <<>>
        BY <1>1, <2>1, <2>2, <3>4, <4>1, SentFirst
      <4>3. sent'[r] = bytes
        BY <2>3, <3>1, <3>4, <4>2, ConcatEmptySeq
      <4> QED
        BY <2>2, <3>4, <4>3
    <3> QED
      BY <3>2, <3>3, <3>4
  <2> QED
    BY <2>4, <2>5 DEF Unhurt
<1> QED
  BY <1>2, <1>3

(* The stream of such a request ends only after it has been received.      *)
LEMMA NothingClosed ==
  ASSUME ExchangeInv, Meant, Unhurt, SentHarmless, NEW s \in Receivers, state[s] = "recv"
  PROVE  ~ Closed(s)
<1> SUFFICES ASSUME Closed(s) PROVE FALSE
  OBVIOUS
<1>1. PICK r \in Receivers : Process(r) = Process(Twin[s]) /\ state[r] \in {"crashed", "killed"}
  BY DEF Closed, Dead
<1>2. state[r] = "killed" /\ r = "client"
  BY <1>1 DEF Unhurt
<1>3. s = "peer"
  BY <1>1, <1>2 DEF Process, Twin, Receivers, Peers
<1>4. sent[s] = held[s] \o stream[s] /\ sent[s] # <<>> /\ held[s] = <<>> /\ stream[s] = <<>>
  BY <1>3 DEF ExchangeInv, Waiting, Peers, Unhurt, Closed
<1> QED
  BY <1>4

LEMMA UnhurtStep == ExchangeInv /\ Meant /\ Unhurt /\ [Next]_vars => Unhurt'
<1> SUFFICES ASSUME ExchangeInv, Meant, Unhurt, [Next]_vars PROVE Unhurt'
  OBVIOUS
<1>1. CASE ClientSend
  <2>1. /\ state' = [state EXCEPT !["client"] = "recv", !["peer"] = "recv"]
        /\ \E bytes : sent' = [sent EXCEPT !["peer"] = bytes]
        /\ UNCHANGED <<held, moved>>
    BY <1>1 DEF ClientSend
  <2>2. \A s \in Receivers : state[s] = "idle" /\ sent[s] = <<>> /\ held[s] = <<>> /\ moved[s] = {}
    BY <1>1 DEF ClientSend, ExchangeInv, InTurn, Untouched
  <2>3. \A s \in Receivers : state'[s] \in {"idle", "recv"} /\ held'[s] = <<>> /\ moved'[s] = {}
    BY <2>1, <2>2 DEF ExchangeInv, TypeOK
  <2>4. \A s \in {"redirect", "client"} : sent'[s] = <<>>
    BY <2>1, <2>2 DEF ExchangeInv, TypeOK, Receivers, Peers
  <2> QED
    BY <2>3, <2>4 DEF Unhurt
<1>2. CASE ClientKilled
  <2>1. /\ state' = [state EXCEPT !["client"] = "killed"] /\ state["client"] # "idle"
        /\ UNCHANGED <<split, request, sent, held, moved>>
    BY <1>2 DEF ClientKilled
  <2>2. \A s \in Receivers : state'[s] = IF s = "client" THEN "killed" ELSE state[s]
    BY <2>1 DEF ExchangeInv, TypeOK
  <2>3. SentHarmless' => SentHarmless
    BY <2>1, SameHarm DEF SentHarmless
  <2> QED
    BY <2>1, <2>2, <2>3 DEF Unhurt
<1>3. ASSUME NEW s \in Receivers, ReceiveClosed(s) \/ ReceiveReset(s) PROVE Unhurt'
  <2>1. state[s] = "recv" /\ Closed(s) /\ UNCHANGED <<split, request>>
    BY <1>3 DEF ReceiveClosed, ReceiveReset
  <2>2. ~ SentHarmless
    BY <2>1, NothingClosed
  <2>3. state["client"] # "idle"
    BY <2>1 DEF ExchangeInv, InTurn
  <2> QED
    BY <2>1, <2>2, <2>3, SameHarm DEF SentHarmless, Unhurt
<1>4. ASSUME NEW s \in Receivers, direct_receive(s) PROVE Unhurt'
  BY <1>3, <1>4, ReceiveUnhurt DEF direct_receive
<1>5. CASE UNCHANGED vars
  <2>1. UNCHANGED <<split, request, state, sent, held, moved>>
    BY <1>5 DEF vars
  <2>2. SentHarmless' => SentHarmless
    BY <2>1, SameHarm DEF SentHarmless
  <2> QED
    BY <2>1, <2>2 DEF Unhurt
<1> QED
  BY <1>1, <1>2, <1>4, <1>5 DEF Next

(* When sends arrive whole, a request that fits into one buffer with its   *)
(* answer, of a key that some peer of the exchange is responsible for, and *)
(* that deletes nothing absent, kills nobody, whatever its op, its lengths *)
(* and the tables are, and whether or not the client gives up meanwhile:   *)
(* every length that is believed (data_helper.c:74-86, hash_helper.c:22,   *)
(* client.c:13-17) is that of what is there.                               *)
THEOREM HarmlessRequestsSurvive == Spec => []HarmlessSurvives
<1>1. Init => Meant /\ Unhurt
  BY DEF Init, Meant, Unhurt, SentHarmless, Receivers, Peers
<1>2. ExchangeInv /\ Meant /\ Unhurt => HarmlessSurvives
  BY DEF Unhurt, SentHarmless, HarmlessSurvives
<1> QED
  BY <1>1, <1>2, ExchangeInvariant, MeantStep, UnhurtStep, PTL DEF Spec

==============================================================================
