------------------------------- MODULE Exchange -------------------------------
(***************************************************************************)
(* One request of a client, byte by byte: to the peer it asks, from there  *)
(* perhaps to the next peer, and the answer back.                          *)
(*                                                                         *)
(* Every hop ends in direct_receive (network.c), which reads a byte stream *)
(* without looking at the lengths in it: a recv that fills the buffer is   *)
(* followed by a nested call, a shorter one ends the message.  The nested  *)
(* calls then put the buffers together with realloc, whose result is not   *)
(* assigned (network.c:191): when realloc moves the block, the caller gets *)
(* the freed one, and finds in it whatever is there by then.               *)
(*                                                                         *)
(* A receiver stands for one such call: the asked peer's and the next      *)
(* peer's receive, the asked peer's redirect, and the client's receive.    *)
(***************************************************************************)
EXTENDS ClientCodec, SequencesExt

CONSTANTS
  BUFFER_SIZE,  \* what one recv can return: 65535
  Splits,       \* whether recv may return less than has arrived: a set of BOOLEANs
  Requests,     \* the command lines of client processes: [op, key, value]
  Owner(_),     \* the peer responsible for a key: "peer", "next", "elsewhere"
  Initial,      \* the tables the two peers start from
  StackAbove    \* the bytes of the stack from the Response in receive on

Peers == {"peer", "next"}
Receivers == Peers \union {"redirect", "client"}

ASSUME ExchangeAssumption ==
  /\ BUFFER_SIZE \in Nat \ {0}
  /\ Splits \subseteq BOOLEAN
  /\ \A r \in Requests : {r.key, r.value} \subseteq Seq(byte8)
  /\ DOMAIN Initial = Peers
  /\ \A p \in Peers : \A k \in DOMAIN Initial[p] : Initial[p][k] \in Seq(byte8)
  /\ StackAbove \in Nat

(* What a command line or a stored value holds can be counted in the four  *)
(* bytes of a value length: the one is no longer than the system lets an   *)
(* argument be, the other came with such a length.                         *)
ASSUME LengthAssumption ==
  LET MaxLength == (Radix * Radix) * (Radix * Radix)
  IN /\ \A r \in Requests : Len(r.value) < MaxLength
     /\ \A p \in Peers : \A k \in DOMAIN Initial[p] : Len(Initial[p][k]) < MaxLength

VARIABLES
  split,    \* whether recv may, in this behaviour
  request,  \* the client's command line
  state,    \* of each receiver
  sent,     \* all the bytes sent to each receiver
  stream,   \* those it has not received yet
  held,     \* the bytes in the full buffers of its nested calls
  moved,    \* the calls, outermost first, whose block realloc has moved
  given,    \* the bytes its caller found
  table     \* the peers' hash tables: a function from keys to values

vars == <<split, request, state, sent, stream, held, moved, given, table>>

NoRequest == [op |-> "none", key |-> <<>>, value |-> <<>>]

Init ==
  /\ split   \in Splits
  /\ request = NoRequest
  /\ state   = [s \in Receivers |-> "idle"]
  /\ sent    = [s \in Receivers |-> <<>>]
  /\ stream  = [s \in Receivers |-> <<>>]
  /\ held    = [s \in Receivers |-> <<>>]
  /\ moved   = [s \in Receivers |-> {}]
  /\ given   = [s \in Receivers |-> <<>>]
  /\ table   = Initial

-----------------------------------------------------------------------------
(* Connections.                                                            *)

(* The receiver that reads the other direction of a receiver's connection. *)
Twin == [peer |-> "client", client |-> "peer", next |-> "redirect", redirect |-> "next"]

Process(s) == IF s = "redirect" THEN "peer" ELSE s

(* A process that dies closes its sockets; none closes one of these else.  *)
Dead(process) ==
  \E s \in Receivers : Process(s) = process /\ state[s] \in {"crashed", "killed"}

Closed(s) == Dead(Process(Twin[s])) /\ stream[s] = <<>>

(* s stops: it dies, in direct_receive or (handed data) in its caller, or  *)
(* nothing of what it does from then on is followed.                       *)
Stop(s, end, data, rest) ==
  /\ state'  = [state EXCEPT ![s] = end]
  /\ given'  = [given EXCEPT ![s] = data]
  /\ stream' = [stream EXCEPT ![s] = rest]
  /\ UNCHANGED <<sent, table>>

Die(s, data, rest) == Stop(s, "crashed", data, rest)

(* s gives data to its caller, which sends bytes and keeps the connection. *)
Pass(s, data, to, bytes, waiting, rest) ==
  /\ given'  = [given EXCEPT ![s] = data]
  /\ sent'   = [sent EXCEPT ![to] = @ \o bytes]
  /\ stream' = [r \in Receivers |-> (IF r = s THEN rest ELSE stream[r])
                                     \o (IF r = to THEN bytes ELSE <<>>)]
  /\ state'  = [r \in Receivers |-> IF r \in waiting THEN "recv"
                                    ELSE IF r = s THEN "called" ELSE state[r]]

-----------------------------------------------------------------------------
(* What the callers of direct_receive do with a message.                   *)

(* respond_as_responsible_peer, for the one bit a client sets.  An unknown *)
(* method has none, and no answer.                                         *)
Served_silent_set(kv, d) ==
  IF "get" \in d.bits
  THEN IF d.key \in DOMAIN kv
       THEN encode_clientProtocol(FoundStruct(d, kv[d.key])) ELSE Acknowledge("get")
  ELSE IF "delete" \in d.bits THEN Acknowledge("delete") ELSE <<>>

Served(kv, d) ==
  IF "get" \in d.bits
  THEN IF d.key \in DOMAIN kv
       THEN encode_clientProtocol(FoundStruct(d, kv[d.key])) ELSE Acknowledge("get")
  ELSE IF "set" \in d.bits THEN Acknowledge("set")
  ELSE IF "delete" \in d.bits THEN Acknowledge("delete") ELSE <<>>

Stored(kv, d) ==
  IF "set" \in d.bits
  THEN [k \in DOMAIN kv \union {d.key} |-> IF k = d.key THEN d.value ELSE kv[k]]
  ELSE IF "delete" \in d.bits THEN [k \in DOMAIN kv \ {d.key} |-> kv[k]] ELSE kv

Faults(kv, d) == "delete" \in d.bits /\ d.key \notin DOMAIN kv

Respond(p, data, d, rest) ==
  /\ Owner(d.key) = p
  /\ IF Faults(table[p], d)
     THEN Die(p, data, rest)
     ELSE /\ Pass(p, data, Twin[p], Served(table[p], d), {}, rest)
          /\ table' = [table EXCEPT ![p] = Stored(@, d)]

(* The request goes on as it came, and redirect waits for the answer.      *)
Relay(data, d, rest) ==
  /\ Owner(d.key) = "next"
  /\ Pass("peer", data, "next", data, {"next", "redirect"}, rest)
  /\ UNCHANGED table

(* The length the request claims to have.                                  *)
clientProtocolCalculateSize(d) == HeaderSize + d.key_length + d.value_length

(* A request of a peer not known is copied (peer.c:245-247) from where the *)
(* Response is, not its data: from the stack, which may end before the     *)
(* copy does.                                                              *)
Overruns(d) == Owner(d.key) = "elsewhere" /\ clientProtocolCalculateSize(d) > StackAbove

(* It is forgotten (peer.c:241-255), or passed on by the peer after the    *)
(* asked one: nothing comes back, and what becomes of it is not followed.  *)
Stray(p, data, d, rest) ==
  /\ Owner(d.key) \notin {p} \union (IF p = "peer" THEN {"next"} ELSE {})
  /\ Stop(p, IF Overruns(d) THEN "crashed" ELSE "strayed", data, rest)

(* The lengths of a cut message or of freed bytes are believed: the key is *)
(* hashed over key_length bytes, set copies value_length bytes, and either *)
(* may reach beyond the memory there is.                                   *)
OverReads(p, data, d) ==
  \/ d.key_length > 0 /\ HeaderSize + d.key_length > Len(data)
  \/ /\ "set" \in d.bits /\ Owner(d.key) = p
     /\ d.value_length > 0 /\ clientProtocolCalculateSize(d) > Len(data)

isPeerProtocol(data) == data[1] % 2 = 1

(* What has the control bit is read as a message of a peer, and what has   *)
(* the bits of several operations gets several answers: no client sends    *)
(* either, and what comes of it is not followed.                           *)
Foreign(data) == isPeerProtocol(data) \/ \E a, b \in Bits(data[1]) : a # b

(* beyond is what the memory after a message holds.                        *)
receive_handler(p, data, beyond, rest) ==
  \/ Foreign(data) /\ Stop(p, "strayed", data, rest)
  \/ /\ ~ Foreign(data)
     /\ LET d == decode_clientProtocol(data, beyond)
        IN \/ Respond(p, data, d, rest)
           \/ p = "peer" /\ Relay(data, d, rest)
           \/ Stray(p, data, d, rest)
           \/ OverReads(p, data, d) /\ Die(p, data, rest)

Redirect(data, rest) ==
  /\ Pass("redirect", data, "client", data, {}, rest)
  /\ UNCHANGED table

(* realloc to no bytes returns NULL, which is decoded; and the client      *)
(* writes value_length bytes from behind the key, wherever they are.       *)
ClientFaults(data, beyond) ==
  data # <<>> =>
    LET d == decode_clientProtocol(data, beyond)
    IN "get" \in d.bits /\ d.value_length > 0 /\ clientProtocolCalculateSize(d) > Len(data)

(* The client prints what it decodes and exits.                            *)
ClientDone(data, beyond, rest) ==
  \/ ClientFaults(data, beyond) /\ Die("client", data, rest)
  \/ data # <<>> /\ Pass("client", data, "client", <<>>, {}, rest) /\ UNCHANGED table

-----------------------------------------------------------------------------
(* direct_receive.                                                         *)

Collected_nested_first(full, last) == last \o full

Collected(full, last) == full \o last

(* The calls that have filled their buffers.                               *)
Depth(s) == Len(held[s]) \div BUFFER_SIZE

(* The nested calls, outermost first, whose realloc may move the block:    *)
(* those that grow it.                                                     *)
Growing(s, last) == 1 .. Depth(s) - (IF last = <<>> THEN 1 ELSE 0)

(* The bytes of data that lie in blocks still allocated when the calls     *)
(* moves have moved theirs.                                                *)
Intact(moves, i) == \A m \in moves : i <= (m - 1) * BUFFER_SIZE

(* What the caller finds: the first freed block, of which the first left   *)
(* bytes are what they were, and what follows it in memory.                *)
Found(data, moves, left, junk) ==
  [i \in 1 .. Len(data) |->
     IF \A m \in moves : i <= (m - 1) * BUFFER_SIZE + left THEN data[i] ELSE junk]

(* The call around one that moved its block copies from beyond the freed   *)
(* block and, unless it is the outermost, frees it again; the caller of    *)
(* the outermost reads it.  A process may die of all that.                 *)
Unwind(s, last, rest) ==
  \E moves \in SUBSET Growing(s, last), left \in {0, BUFFER_SIZE}, junk \in byte8 :
    LET got == Found(Collected(held[s], last), moves, left, junk)
    IN /\ moved' = [moved EXCEPT ![s] = moves]
       /\ \/ moves # {}     /\ Die(s, <<>>, rest)
          \/ s \in Peers    /\ receive_handler(s, got, junk, rest)
          \/ s = "redirect" /\ Redirect(got, rest)
          \/ s = "client"   /\ ClientDone(got, junk, rest)

(* The bytes one recv may return.                                          *)
Arrivals(s) ==
  LET most == IF Len(stream[s]) < BUFFER_SIZE THEN Len(stream[s]) ELSE BUFFER_SIZE
  IN IF split THEN 1 .. most ELSE {most}

Receive_until_buffer_empty(s) ==
  /\ state[s] = "recv"
  /\ stream[s] # <<>>
  /\ \E n \in Arrivals(s) :
       LET bytes == SubSeq(stream[s], 1, n)
           rest  == SubSeq(stream[s], n + 1, Len(stream[s]))
       IN /\ held' = [held EXCEPT ![s] = @ \o bytes]
          /\ stream' = [stream EXCEPT ![s] = rest]
          /\ UNCHANGED <<state, sent, moved, given, table>>
  /\ UNCHANGED <<split, request>>

Receive(s) ==
  /\ state[s] = "recv"
  /\ stream[s] # <<>>
  /\ \E n \in Arrivals(s) :
       LET bytes == SubSeq(stream[s], 1, n)
           rest  == SubSeq(stream[s], n + 1, Len(stream[s]))
       IN IF n < BUFFER_SIZE
          THEN Unwind(s, bytes, rest) /\ UNCHANGED held
          ELSE /\ held' = [held EXCEPT ![s] = @ \o bytes]
               /\ stream' = [stream EXCEPT ![s] = rest]
               /\ UNCHANGED <<state, sent, moved, given, table>>
  /\ UNCHANGED <<split, request>>

(* Deviation: only the outermost call takes a closed connection for the    *)
(* end of the message.                                                     *)
ReceiveClosed_at_start(s) ==
  /\ state[s] = "recv"
  /\ Closed(s)
  /\ stream[Twin[s]] = <<>>
  /\ held[s] = <<>>
  /\ Unwind(s, <<>>, <<>>)
  /\ UNCHANGED <<split, request, held>>

(* recv returns 0, and the nested call no data.                            *)
ReceiveClosed(s) ==
  /\ state[s] = "recv"
  /\ Closed(s)
  /\ stream[Twin[s]] = <<>>
  /\ Unwind(s, <<>>, <<>>)
  /\ UNCHANGED <<split, request, held>>

(* recv returns -1, as size_t the largest length there is: the far end     *)
(* died without reading all it was sent.  The buffer, which holds nothing  *)
(* of the stream, is freed; a calling frame copies that length, and the    *)
(* caller of the outermost gets buffer and length: what it makes of them   *)
(* is not followed.                                                        *)
ReceiveReset(s) ==
  /\ state[s] = "recv"
  /\ Closed(s)
  /\ stream[Twin[s]] # <<>>
  /\ state' = [state EXCEPT ![s] = IF held[s] = <<>> THEN "reset" ELSE "crashed"]
  /\ UNCHANGED <<split, request, sent, stream, held, moved, given, table>>

-----------------------------------------------------------------------------
(* The client.                                                             *)

ClientSend ==
  /\ state["client"] = "idle"
  /\ \E r \in Requests :
       LET bytes == encode_clientProtocol(RequestStruct(r))
       IN /\ request' = r
          /\ sent'    = [sent EXCEPT !["peer"] = bytes]
          /\ stream'  = [stream EXCEPT !["peer"] = bytes]
  /\ state' = [state EXCEPT !["client"] = "recv", !["peer"] = "recv"]
  /\ UNCHANGED <<split, held, moved, given, table>>

ClientKilled ==
  /\ state["client"] = "recv"
  /\ state' = [state EXCEPT !["client"] = "killed"]
  /\ UNCHANGED <<split, request, sent, stream, held, moved, given, table>>

direct_receive(s) == Receive(s) \/ ReceiveClosed(s) \/ ReceiveReset(s)

Next ==
  \/ ClientSend
  \/ ClientKilled
  \/ \E s \in Receivers : direct_receive(s)

(* recv returns when there is something to return.                         *)
Fairness == \A s \in Receivers : WF_vars(direct_receive(s))

Spec == Init /\ [][Next]_vars /\ Fairness
-----------------------------------------------------------------------------
(* Properties.                                                             *)

(* However recv cuts the stream and however many calls are nested          *)
(* (network.c:192-194): the length a caller gets is never more than was    *)
(* sent, and without cuts just that; and every byte it finds in a block    *)
(* that is still allocated is the one that was sent at that place.  A      *)
(* caller whose recv failed ("reset") is left out: its length is wrong.    *)
GivenAsSent ==
  \A s \in Receivers :
    state[s] # "reset" =>
      /\ Len(given[s]) <= Len(sent[s])
      /\ ~ split /\ state[s] = "called" => Len(given[s]) = Len(sent[s])
      /\ \A i \in 1 .. Len(given[s]) : Intact(moved[s], i) => given[s][i] = sent[s][i]

(* A receive that has got all there is still waits only when that fills    *)
(* its buffers exactly (network.c:189-190): every other message ends it.   *)
BlocksAtMultiple ==
  \A s \in Receivers :
    state[s] = "recv" /\ stream[s] = <<>> => Len(sent[s]) % BUFFER_SIZE = 0

(* The key the client asks for: the rest is lost in key_length.            *)
KeyAsked == SubSeq(request.key, 1, Len(request.key) % (Radix * Radix))

TableAsked(p) ==
  CASE request.op = "set"    -> [k \in DOMAIN Initial[p] \union {KeyAsked} |->
                                   IF k = KeyAsked THEN request.value ELSE Initial[p][k]]
    [] request.op = "delete" -> [k \in DOMAIN Initial[p] \ {KeyAsked} |-> Initial[p][k]]
    [] OTHER                 -> Initial[p]

ValueAsked(p) == IF KeyAsked \in DOMAIN Initial[p] THEN Initial[p][KeyAsked] ELSE <<>>

(* While every message on the way was given whole, and whether or not the  *)
(* asked peer relays them: the responsible peer's table is changed as the  *)
(* command line says, the client reads the value that peer held, and no    *)
(* peer takes the request for another's.                                   *)
Understood ==
  Owner(KeyAsked) \in Peers
  /\ (\A s \in Receivers : state[s] \in {"called", "strayed"} => given[s] = sent[s]) =>
    LET p == Owner(KeyAsked)
    IN /\ \A q \in Peers : state[q] # "strayed"
       /\ state[p] = "called" => table = [Initial EXCEPT ![p] = TableAsked(p)]
       /\ state["client"] = "called" =>
            LET answer == decode_clientProtocol(given["client"], 0)
            IN /\ answer.bits = {"act", request.op}
               /\ request.op = "get" => answer.value = ValueAsked(p)

(* No byte of request or answer is lost to key_length, and both fit into   *)
(* one buffer with room to spare; the key is a peer's of the exchange; and *)
(* what is to be deleted is there.                                         *)
Harmless ==
  LET p == Owner(KeyAsked)
      carried == CASE request.op = "set" -> Len(request.value)
                   [] request.op = "get" -> Len(ValueAsked(p))
                   [] OTHER -> 0
  IN /\ p \in Peers
     /\ HeaderSize + Len(KeyAsked) + carried < BUFFER_SIZE
     /\ request.op = "delete" => KeyAsked \in DOMAIN Initial[p]

(* When sends arrive whole, such a request kills nobody, the peer that     *)
(* relays it, the one that serves it and the client included, whether or   *)
(* not the key is there to get, the value is empty, or the client gives up *)
(* on the way: every length that is believed (data_helper.c:74-86,         *)
(* hash_helper.c:22) is the length of what is there.                       *)
HarmlessSurvives ==
  ~ split /\ state["client"] # "idle" /\ Harmless =>
    \A s \in Receivers : state[s] \notin {"crashed", "reset"}

(* "the function that is being called upon full data retreival"            *)
(* (network.h:70): what a callback finds is what was sent, all of it.      *)
FullRetrieval == \A s \in Receivers : state[s] = "called" => given[s] = sent[s]

(* Some message fills its receiver's buffers exactly.                      *)
Multiple == \E s \in Receivers : sent[s] # <<>> /\ Len(sent[s]) % BUFFER_SIZE = 0

(* A process of the exchange has died or was given freed bytes, or the key *)
(* is neither peer's.                                                      *)
Disturbed ==
  \E s \in Receivers : moved[s] # {} \/ state[s] \in {"crashed", "reset", "killed", "strayed"}

(* When sends arrive whole, no message fills its buffers exactly and no    *)
(* realloc moves a block, the client of a known method gets its answer.    *)
ExchangeEnds ==
  (~ split /\ state["client"] = "recv" /\ request.op \in {"get", "set", "delete"})
    ~> (state["client"] = "called" \/ Multiple \/ Disturbed)

(* The next peer never answers, and does not close its connection either:  *)
(* it waits for more of a request that fills its buffers exactly, or has   *)
(* found in what it was given no method or another peer's key.  (An answer *)
(* that fills the buffers of redirect has the same effect.)                *)
NextSilent ==
  \/ state["next"] = "strayed"
  \/ moved["peer"] # {} \/ moved["next"] # {}
  \/ \E s \in {"next", "redirect"} : sent[s] # <<>> /\ Len(sent[s]) % BUFFER_SIZE = 0

(* A client that gives up does not keep the only thread of the peer it     *)
(* asked: direct_receive ends with the client's stream, in whatever call   *)
(* of however many it is, and redirect (network.c:222) with the answer of  *)
(* the next peer, which comes, or with its death.                          *)
PeerFreed ==
  state["client"] = "killed" /\ request.op \in {"get", "set", "delete"}
    ~> (state["peer"] # "recv" /\ state["redirect"] # "recv") \/ NextSilent

==============================================================================
