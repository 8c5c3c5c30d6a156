----------------------------- MODULE PeerProofs -----------------------------
(***************************************************************************)
(* Type correctness and safety theorems about Peer, for every value of its *)
(* constants.                                                              *)
(***************************************************************************)
EXTENDS Peer, SequenceTheorems, IdRangeProofs, WellFoundedInduction

-----------------------------------------------------------------------------
(* Types.                                                                  *)

(* Exactly a thread in recv or in redirect has a connection; the one it    *)
(* relays for carries a request.                                           *)
ServingOK ==
  \A p \in Peers :
    /\ proc[p] \in {"recv", "relay"} => serving[p] \in Connection
    /\ proc[p] = "relay" => serving[p] \in RequestConnection
    /\ proc[p] \notin {"recv", "relay"} => serving[p] = NULL

TypeInv == TypeOK /\ ServingOK

(* Connecting keeps the types of the backlogs.                             *)
LEMMA SetupType ==
  ASSUME TypeOK, NEW q \in Peers, NEW connection \in Connection, setup_as_client(q, connection)
  PROVE  backlog' \in [Peers -> Seq(Connection)]
BY DEF TypeOK, setup_as_client

(* ... and so does sending a message.                                      *)
LEMMA SendType ==
  ASSUME TypeOK, NEW q \in Peers, NEW m \in PeerMessage, direct_send(q, m)
  PROVE  backlog' \in [Peers -> Seq(Connection)]
<1>1. Message(m) \in Connection
  BY DEF Message, Connection, MessageConnection
<1> QED
  BY <1>1, SetupType DEF direct_send

(* The messages a peer makes up itself are messages.                       *)
LEMMA OwnMessageType ==
  ASSUME NEW p \in Peers
  PROVE  /\ join(p) \subseteq PeerMessage
         /\ notify(p) \subseteq PeerMessage
         /\ stabilize(p) \subseteq PeerMessage
<1>1. ASSUME NEW flag \in Flags
      PROVE  Unassigned(flag, p) \subseteq PeerMessage
  <2> SUFFICES ASSUME NEW m \in Unassigned(flag, p)
               PROVE  m \in PeerMessage
    OBVIOUS
  <2>1. PICK left \in StackFlags, h \in StackIds :
           m = [flags |-> {flag} \union left, hashId |-> h, node |-> p]
    BY DEF Unassigned
  <2>2. {flag} \union left \in SUBSET Flags /\ h \in byte16
    BY ProtocolAssumption
  <2> QED
    BY <2>1, <2>2 DEF PeerMessage
<1> QED
  BY <1>1 DEF join, notify, stabilize, Flags

(* So is the reply to a lookup.                                            *)
LEMMA FoundLookupType ==
  ASSUME NEW m \in PeerMessage, NEW q \in Peers
  PROVE  found_lookup(m, q) \in PeerMessage
BY DEF found_lookup, PeerMessage, Flags

(* What a handler of a message reads from its connection.                  *)
LEMMA HandledMessage ==
  ASSUME TypeInv, NEW p \in Peers, proc[p] = "recv", serving[p].kind = "message"
  PROVE  serving[p].msg \in PeerMessage
BY DEF TypeInv, ServingOK, Connection, MessageConnection, RequestConnection

(* What a handler of a request reads.                                      *)
LEMMA HandledRequest ==
  ASSUME TypeInv, NEW p \in Peers, HandlesRequest(p)
  PROVE  /\ serving[p] \in RequestConnection
         /\ ClientOf(p) \in Requesters
         /\ RequestAt(p) \in Request
         /\ RequestHash(p) \in byte16
<1>1. serving[p] \in RequestConnection
  BY DEF TypeInv, ServingOK, Connection, MessageConnection, RequestConnection, HandlesRequest
<1>2. ClientOf(p) \in Requesters
  BY <1>1 DEF ClientOf, RequestConnection
<1>3. RequestAt(p) \in Request
  BY <1>2 DEF RequestAt, TypeInv, TypeOK, HandlesRequest
<1>4. RequestHash(p) \in byte16
  BY <1>3, PeerAssumption DEF RequestHash, Request
<1> QED
  BY <1>1, <1>2, <1>3, <1>4

(* A peer that gets past the NULL dereferences with a request nobody here  *)
(* covers has a next peer.                                                 *)
LEMMA NextKnown ==
  ASSUME TypeInv, NEW p \in Peers, NextResponsible(p)
  PROVE  next[p] \in Peers
BY DEF NextResponsible, RequestFaults, TypeInv, TypeOK

(* The answers to a request, and what it leaves of the table.              *)
LEMMA AnswersType ==
  ASSUME NEW table \in Table, NEW r \in Request
  PROVE  Answers(table, r) \in Seq(Answer)
<1>1. ASSUME NEW op \in Operations, NEW value \in Values \union {NULL}
      PROVE  Says(r, op, value) \in Seq(Answer)
  <2>1. [op |-> op, value |-> value] \in Answer
    BY DEF Answer
  <2>2. <<[op |-> op, value |-> value]>> \in Seq(Answer)
    BY <2>1
  <2>3. << >> \in Seq(Answer)
    OBVIOUS
  <2> QED
    BY <2>2, <2>3 DEF Says
<1>2. get(table, r.key) \in Values \union {NULL}
  BY DEF get, Table, Request
<1>3. /\ Says(r, "get", get(table, r.key)) \in Seq(Answer)
      /\ Says(r, "set", NULL) \in Seq(Answer)
      /\ Says(r, "delete", NULL) \in Seq(Answer)
  BY <1>1, <1>2 DEF Operations
<1> QED
  BY <1>3 DEF Answers

LEMMA AfterType ==
  ASSUME NEW table \in Table, NEW r \in Request
  PROVE  After(table, r) \in Table
<1>1. AfterSet(table, r) \in Table
  BY DEF AfterSet, set, get, Table, Request
<1> QED
  BY <1>1 DEF After, delete_element, Table, Request

(* The handler goes back to accept, or the process dies.                   *)
LEMMA FinishType ==
  ASSUME TypeInv, NEW p \in Peers, Finish(p)
  PROVE  /\ proc' \in [Peers -> {"down", "starting", "accept", "recv", "relay", "crashed"}]
         /\ listening' \in [Peers -> BOOLEAN]
         /\ serving' \in [Peers -> Connection \union {NULL}]
         /\ \A q \in Peers : q # p => proc'[q] = proc[q] /\ serving'[q] = serving[q]
         /\ proc'[p] = "accept" /\ serving'[p] = NULL
BY DEF TypeInv, TypeOK, Finish

LEMMA CrashType ==
  ASSUME TypeInv, NEW p \in Peers, Crash(p)
  PROVE  /\ proc' \in [Peers -> {"down", "starting", "accept", "recv", "relay", "crashed"}]
         /\ listening' \in [Peers -> BOOLEAN]
         /\ backlog' \in [Peers -> Seq(Connection)]
         /\ serving' \in [Peers -> Connection \union {NULL}]
         /\ reset' \in [Requesters -> BOOLEAN]
         /\ \A q \in Peers : q # p => proc'[q] = proc[q] /\ serving'[q] = serving[q]
         /\ proc'[p] = "crashed" /\ serving'[p] = NULL
<1>1. /\ proc' \in [Peers -> {"down", "starting", "accept", "recv", "relay", "crashed"}]
      /\ listening' \in [Peers -> BOOLEAN]
      /\ serving' \in [Peers -> Connection \union {NULL}]
      /\ \A q \in Peers : q # p => proc'[q] = proc[q] /\ serving'[q] = serving[q]
      /\ proc'[p] = "crashed" /\ serving'[p] = NULL
  BY DEF TypeInv, TypeOK, Crash
<1>2. << >> \in Seq(Connection)
  OBVIOUS
<1>3. backlog' \in [Peers -> Seq(Connection)]
  BY <1>2 DEF TypeInv, TypeOK, Crash
<1>4. reset' \in [Requesters -> BOOLEAN]
  BY Zenon DEF TypeInv, TypeOK, Crash, Disconnect
<1> QED
  BY <1>1, <1>3, <1>4

(* Initially.                                                              *)
LEMMA InitTypeInv == Init => TypeInv
<1> SUFFICES ASSUME Init PROVE TypeInv
  OBVIOUS
<1>1. << >> \in Seq(Connection) /\ << >> \in Seq(Answer)
  OBVIOUS
<1>2. EmptyTable \in Table
  BY DEF EmptyTable, Table
<1>3. TypeOK
  BY <1>1, <1>2, PeerAssumption DEF Init, TypeOK
<1>4. ServingOK
  BY DEF Init, ServingOK
<1> QED
  BY <1>3, <1>4 DEF TypeInv

(* The steps of main keep the types.                                       *)
LEMMA MainTypeInv ==
  ASSUME TypeInv, NEW p \in Peers, Listen(p) \/ Enter(p) \/ get_new_connection(p) \/ Inject(p)
  PROVE  TypeInv'
<1> USE DEF TypeInv
<1>1. CASE Listen(p)
  <2>1. << >> \in Seq(Answer) /\ EmptyTable \in Table
    BY DEF EmptyTable, Table
  <2>2. TypeOK'
    BY <1>1, <2>1 DEF Listen, TypeOK, Requesters
  <2>3. ServingOK'
    BY <1>1 DEF Listen, TypeOK, ServingOK
  <2> QED
    BY <2>2, <2>3
<1>2. CASE Enter(p)
  <2>1. backlog' \in [Peers -> Seq(Connection)]
    <3>1. CASE JoinAt[p] = NULL
      BY <1>2, <3>1 DEF Enter, TypeOK
    <3>2. CASE JoinAt[p] # NULL
      <4>1. JoinAt[p] \in Peers
        BY <3>2, PeerAssumption
      <4>2. PICK m \in join(p) : direct_send(JoinAt[p], m)
        BY <1>2, <3>2 DEF Enter
      <4> QED
        BY <4>1, <4>2, OwnMessageType, SendType
    <3> QED
      BY <3>1, <3>2
  <2>2. TypeOK'
    BY <1>2, <2>1 DEF Enter, TypeOK, ring, requesters
  <2>3. ServingOK'
    BY <1>2 DEF Enter, TypeOK, ServingOK
  <2> QED
    BY <2>2, <2>3
<1>3. CASE get_new_connection(p)
  <2>1. /\ Head(backlog[p]) \in Connection
        /\ Tail(backlog[p]) \in Seq(Connection)
        /\ << >> \in Seq(Connection)
    BY <1>3 DEF get_new_connection, TypeOK
  <2>2. backlog' \in [Peers -> Seq(Connection)] /\ listening' \in [Peers -> BOOLEAN]
    BY <1>3, <2>1 DEF get_new_connection, TypeOK
  <2>3. reset' \in [Requesters -> BOOLEAN]
    BY <1>3, Zenon DEF get_new_connection, TypeOK, Disconnect
  <2>4. TypeOK'
    BY <1>3, <2>1, <2>2, <2>3 DEF get_new_connection, TypeOK, ring
  <2>5. ServingOK'
    BY <1>3, <2>1 DEF get_new_connection, TypeOK, ServingOK
  <2> QED
    BY <2>4, <2>5
<1>4. CASE Inject(p)
  <2>1. backlog' \in [Peers -> Seq(Connection)]
    BY <1>4, PeerAssumption, SendType DEF Inject
  <2>2. injected' \in 0 .. MaxInject
    BY <1>4, PeerAssumption DEF Inject, TypeOK
  <2>3. TypeOK'
    BY <1>4, <2>1, <2>2 DEF Inject, TypeOK, ring, requesters
  <2>4. ServingOK'
    BY <1>4 DEF Inject, ServingOK
  <2> QED
    BY <2>3, <2>4
<1> QED
  BY <1>1, <1>2, <1>3, <1>4

(* Every handler of a message keeps the types.                             *)
LEMMA MessageTypeInv ==
  ASSUME TypeInv, NEW p \in Peers,
         \/ HandleMessageFault(p)
         \/ HandleIgnored(p)
         \/ HandleFirstJoin(p)
         \/ HandleJoin(p)
         \/ HandleNotify(p)
         \/ HandleStabilize(p)
         \/ HandleLookup(p)
  PROVE  TypeInv'
<1> DEFINE m == serving[p].msg
<1> USE DEF TypeInv
<1>1. CASE HandleMessageFault(p)
  <2>1. TypeOK'
    BY <1>1, CrashType DEF HandleMessageFault, TypeOK, ring
  <2>2. ServingOK'
    BY <1>1, CrashType DEF HandleMessageFault, ServingOK
  <2> QED
    BY <2>1, <2>2
<1>2. ASSUME Finish(p), HandleIgnored(p) \/ (Handles(p, "join") \/ Handles(p, "notify") \/ Handles(p, "stabilize") \/ Handles(p, "lookup"))
      PROVE  ServingOK' /\ m \in PeerMessage /\ m.node \in Peers
  <2>1. ServingOK'
    BY <1>2, FinishType DEF ServingOK
  <2>2. proc[p] = "recv" /\ serving[p].kind = "message"
    BY <1>2 DEF HandleIgnored, Handles
  <2>3. m \in PeerMessage
    BY <2>2, HandledMessage
  <2> QED
    BY <2>1, <2>3 DEF PeerMessage
<1>3. CASE HandleIgnored(p)
  <2>1. Finish(p)
    BY <1>3 DEF HandleIgnored
  <2>2. TypeOK'
    BY <1>3, <2>1, FinishType DEF HandleIgnored, TypeOK, ring, requesters
  <2> QED
    BY <1>2, <1>3, <2>1, <2>2
<1>4. CASE HandleFirstJoin(p)
  <2>1. Finish(p) /\ Handles(p, "join")
    BY <1>4 DEF HandleFirstJoin
  <2>2. m \in PeerMessage /\ m.node \in Peers
    BY <1>2, <2>1
  <2>3. backlog' \in [Peers -> Seq(Connection)]
    BY <1>4, <2>2, OwnMessageType, SendType DEF HandleFirstJoin
  <2>4. TypeOK'
    BY <1>4, <2>1, <2>2, <2>3, FinishType DEF HandleFirstJoin, TypeOK, requesters
  <2> QED
    BY <1>2, <2>1, <2>4
<1>5. CASE HandleJoin(p)
  <2>1. Finish(p) /\ Handles(p, "join") /\ next[p] \in Peers
    BY <1>5 DEF HandleJoin, TypeOK
  <2>2. m \in PeerMessage /\ m.node \in Peers
    BY <1>2, <2>1
  <2>3. /\ backlog' \in [Peers -> Seq(Connection)]
        /\ prev' \in [Peers -> Peers \union {NULL}]
    <3>1. CASE id_is_between(m.hashId, p, prev[p])
      <4>1. PICK n \in notify(p) : direct_send(m.node, n)
        BY <1>5, <3>1 DEF HandleJoin
      <4>2. backlog' \in [Peers -> Seq(Connection)]
        BY <2>2, <4>1, OwnMessageType, SendType
      <4> QED
        BY <1>5, <2>2, <3>1, <4>2 DEF HandleJoin, TypeOK
    <3>2. CASE ~ id_is_between(m.hashId, p, prev[p])
      <4>1. direct_send(next[p], m)
        BY <1>5, <3>2 DEF HandleJoin
      <4> QED
        BY <1>5, <2>1, <2>2, <3>2, <4>1, SendType DEF HandleJoin, TypeOK
    <3> QED
      BY <3>1, <3>2
  <2>4. TypeOK'
    BY <1>5, <2>1, <2>3, FinishType DEF HandleJoin, TypeOK, requesters
  <2> QED
    BY <1>2, <2>1, <2>4
<1>6. CASE HandleNotify(p)
  <2>1. Finish(p) /\ Handles(p, "notify")
    BY <1>6 DEF HandleNotify
  <2>2. m.node \in Peers
    BY <1>2, <2>1
  <2>3. TypeOK'
    BY <1>6, <2>1, <2>2, FinishType DEF HandleNotify, TypeOK, requesters
  <2> QED
    BY <1>2, <2>1, <2>3
<1>7. CASE HandleStabilize(p)
  <2>1. Finish(p) /\ Handles(p, "stabilize")
    BY <1>7 DEF HandleStabilize
  <2>2. m.node \in Peers
    BY <1>2, <2>1
  <2>3. /\ backlog' \in [Peers -> Seq(Connection)]
        /\ prev' \in [Peers -> Peers \union {NULL}]
    <3>1. CASE prev[p] = NULL
      BY <1>7, <2>2, <3>1 DEF HandleStabilize, TypeOK
    <3>2. CASE prev[p] # NULL /\ Id[m.node] = Id[prev[p]]
      <4>1. next[p] \in Peers
        BY <1>7, <2>1, <3>2 DEF HandleStabilize, MessageFaults, Handles, TypeOK
      <4>2. UNCHANGED prev /\ \E n \in stabilize(p) : direct_send(next[p], n)
        BY <1>7, <3>2 DEF HandleStabilize
      <4> QED
        BY <4>1, <4>2, OwnMessageType, SendType DEF TypeOK
    <3>3. CASE prev[p] # NULL /\ Id[m.node] # Id[prev[p]]
      <4>1. prev[p] \in Peers
        BY <3>3 DEF TypeOK
      <4>2. UNCHANGED prev /\ \E n \in notify(prev[p]) : direct_send(m.node, n)
        BY <1>7, <3>3 DEF HandleStabilize
      <4> QED
        BY <2>2, <4>1, <4>2, OwnMessageType, SendType DEF TypeOK
    <3> QED
      BY <3>1, <3>2, <3>3
  <2>4. TypeOK'
    BY <1>7, <2>1, <2>3, FinishType DEF HandleStabilize, TypeOK, requesters
  <2> QED
    BY <1>2, <2>1, <2>4
<1>8. CASE HandleLookup(p)
  <2>1. Finish(p) /\ Handles(p, "lookup")
    BY <1>8 DEF HandleLookup
  <2>2. m \in PeerMessage
    BY <1>2, <2>1
  <2>3. next[p] \in Peers
    BY <1>8, <2>1 DEF HandleLookup, MessageFaults, Handles, TypeOK
  <2>4. PICK n \in PeerMessage : direct_send(next[p], n)
    BY <1>8, <2>2, <2>3, FoundLookupType DEF HandleLookup
  <2>5. backlog' \in [Peers -> Seq(Connection)]
    BY <2>3, <2>4, SendType
  <2>6. TypeOK'
    BY <1>8, <2>1, <2>5, FinishType DEF HandleLookup, TypeOK, ring, requesters
  <2> QED
    BY <1>2, <2>1, <2>6
<1> QED
  BY <1>1, <1>3, <1>4, <1>5, <1>6, <1>7, <1>8

(* Every handler of a request, and redirect, keeps the types.              *)
LEMMA RequestTypeInv ==
  ASSUME TypeInv, NEW p \in Peers,
         \/ HandleRequestFault(p)
         \/ respond_as_responsible_peer(p)
         \/ HandleBrokenPipe(p)
         \/ ReceiveEOF(p)
         \/ RelayRequest(p)
         \/ RelayUnreachable(p)
         \/ HandleUnknownResponsible(p)
         \/ redirect(p)
  PROVE  TypeInv'
<1> DEFINE c == ClientOf(p)
           r == RequestAt(p)
<1> USE DEF TypeInv
<1>1. CASE HandleRequestFault(p)
  <2>1. TypeOK'
    BY <1>1, CrashType DEF HandleRequestFault, TypeOK, ring
  <2>2. ServingOK'
    BY <1>1, CrashType DEF HandleRequestFault, ServingOK
  <2> QED
    BY <2>1, <2>2
<1>2. CASE ReceiveEOF(p)
  <2>1. TypeOK'
    BY <1>2, CrashType DEF ReceiveEOF, TypeOK, ring
  <2>2. ServingOK'
    BY <1>2, CrashType DEF ReceiveEOF, ServingOK
  <2> QED
    BY <2>1, <2>2
<1>3. ASSUME Responsible(p)
      PROVE  /\ c \in Requesters
             /\ r \in Request
             /\ Answers(store[p], r) \in Seq(Answer)
             /\ After(store[p], r) \in Table
  <2>1. HandlesRequest(p) /\ store[p] \in Table
    BY <1>3 DEF Responsible, TypeOK
  <2> QED
    BY <2>1, HandledRequest, AnswersType, AfterType
<1>4. CASE respond_as_responsible_peer(p)
  <2>1. Responsible(p) /\ Finish(p)
    BY <1>4 DEF respond_as_responsible_peer
  <2>2. inbound' \in [Requesters -> Seq(Answer)]
    BY <1>3, <1>4, <2>1 DEF respond_as_responsible_peer, TypeOK
  <2>3. store' \in [Peers -> Table]
    BY <1>3, <1>4, <2>1 DEF respond_as_responsible_peer, TypeOK
  <2>4. TypeOK'
    BY <1>4, <2>1, <2>2, <2>3, FinishType DEF respond_as_responsible_peer, TypeOK, ring
  <2>5. ServingOK'
    BY <2>1, FinishType DEF ServingOK
  <2> QED
    BY <2>4, <2>5
<1>5. CASE HandleBrokenPipe(p)
  <2>1. Responsible(p) /\ Crash(p)
    BY <1>5 DEF HandleBrokenPipe
  <2>2. Head(Answers(store[p], r)) \in Answer
    BY <1>3, <1>5, <2>1 DEF HandleBrokenPipe
  <2>3. inbound' \in [Requesters -> Seq(Answer)]
    BY <1>3, <1>5, <2>1, <2>2 DEF HandleBrokenPipe, TypeOK
  <2>4. TypeOK'
    BY <1>5, <2>1, <2>3, CrashType DEF HandleBrokenPipe, TypeOK, ring
  <2>5. ServingOK'
    BY <2>1, CrashType DEF ServingOK
  <2> QED
    BY <2>4, <2>5
<1>6. CASE RelayRequest(p)
  <2>1. NextResponsible(p) /\ HandlesRequest(p)
    BY <1>6 DEF RelayRequest, NextResponsible
  <2>2. next[p] \in Peers /\ RequestOf(p) \in Connection /\ r \in Request /\ serving[p] \in RequestConnection
    BY <2>1, NextKnown, HandledRequest DEF RequestOf, Connection, RequestConnection, Requesters
  <2>3. backlog' \in [Peers -> Seq(Connection)]
    BY <1>6, <2>2, SetupType DEF RelayRequest
  <2>4. TypeOK'
    BY <1>6, <2>2, <2>3 DEF RelayRequest, TypeOK, ring, Requesters
  <2>5. ServingOK'
    BY <1>6, <2>2 DEF RelayRequest, TypeOK, ServingOK, Connection
  <2> QED
    BY <2>4, <2>5
<1>7. CASE RelayUnreachable(p)
  <2>1. Finish(p) /\ HandlesRequest(p)
    BY <1>7 DEF RelayUnreachable, NextResponsible
  <2>2. c \in Requesters /\ GarbageAnswer \in Answer
    BY <2>1, HandledRequest DEF Answer
  <2>3. inbound' \in [Requesters -> Seq(Answer)]
    BY <1>7, <2>2 DEF RelayUnreachable, TypeOK
  <2>4. TypeOK'
    BY <1>7, <2>1, <2>3, FinishType DEF RelayUnreachable, TypeOK, ring
  <2>5. ServingOK'
    BY <2>1, FinishType DEF ServingOK
  <2> QED
    BY <2>4, <2>5
<1>8. CASE HandleUnknownResponsible(p)
  <2>1. Finish(p)
    BY <1>8 DEF HandleUnknownResponsible
  <2>2. TypeOK'
    BY <1>8, <2>1, FinishType DEF HandleUnknownResponsible, TypeOK, ring, requesters
  <2>3. ServingOK'
    BY <2>1, FinishType DEF ServingOK
  <2> QED
    BY <2>2, <2>3
<1>9. CASE redirect(p)
  <2>1. Finish(p) /\ proc[p] = "relay" /\ c \in Requesters
    BY <1>9 DEF redirect, RelayAnswer, RelayReset, ServingOK, ClientOf, RequestConnection
  <2>2. inbound' \in [Requesters -> Seq(Answer)]
    <3>1. CASE RelayAnswer(p)
      <4>1. PICK n \in 1 .. Len(inbound[p]) :
              inbound' = [inbound EXCEPT ![c] = @ \o SubSeq(inbound[p], 1, n), ![p] = <<>>]
        BY <3>1 DEF RelayAnswer
      <4>2. inbound[p] \in Seq(Answer) /\ p \in Requesters
        BY DEF TypeOK, Requesters
      <4>3. SubSeq(inbound[p], 1, n) \in Seq(Answer)
        BY <4>1, <4>2
      <4>4. << >> \in Seq(Answer)
        OBVIOUS
      <4>5. inbound[c] \o SubSeq(inbound[p], 1, n) \in Seq(Answer)
        BY <2>1, <4>3 DEF TypeOK
      <4> QED
        BY <4>1, <4>4, <4>5 DEF TypeOK
    <3>2. CASE RelayReset(p)
      <4>1. GarbageAnswer \in Answer
        BY DEF Answer
      <4>2. Append(inbound[c], GarbageAnswer) \in Seq(Answer)
        BY <2>1, <4>1 DEF TypeOK
      <4>3. CASE inbound' = [inbound EXCEPT ![c] = Append(@, GarbageAnswer)]
        BY <4>2, <4>3 DEF TypeOK
      <4>4. CASE UNCHANGED inbound
        BY <4>4 DEF TypeOK
      <4> QED
        BY <3>2, <4>3, <4>4 DEF RelayReset
    <3> QED
      BY <1>9, <3>1, <3>2 DEF redirect
  <2>3. /\ asked' \in [Requesters -> Request \union {NULL}]
        /\ reset' \in [Requesters -> BOOLEAN]
        /\ UNCHANGED <<backlog, next, prev, store, cstate, injected>>
    BY <1>9 DEF redirect, RelayAnswer, RelayReset, TypeOK, ring
  <2>4. TypeOK'
    BY <2>1, <2>2, <2>3, FinishType DEF TypeOK
  <2>5. ServingOK'
    BY <2>1, FinishType DEF ServingOK
  <2> QED
    BY <2>4, <2>5
<1> QED
  BY <1>1, <1>2, <1>4, <1>5, <1>6, <1>7, <1>8, <1>9

(* So do the clients.                                                      *)
LEMMA ClientTypeInv ==
  ASSUME TypeInv, NEW c \in Clients,
         ClientSend(c) \/ ClientAbort(c) \/ \E p \in Peers : ClientConnect(c, p)
  PROVE  TypeInv'
<1> USE DEF TypeInv
<1>1. CASE ClientSend(c)
  <2>1. PICK r \in Requests : asked' = [asked EXCEPT ![c] = r]
    BY <1>1 DEF ClientSend
  <2>2. r \in Request
    BY PeerAssumption
  <2>3. TypeOK'
    BY <1>1, <2>1, <2>2 DEF ClientSend, TypeOK, ring
  <2>4. ServingOK'
    BY <1>1 DEF ClientSend, ServingOK
  <2> QED
    BY <2>3, <2>4
<1>2. CASE ClientAbort(c)
  BY <1>2 DEF ClientAbort, TypeOK, ServingOK, ring, requesters
<1>3. CASE \E p \in Peers : ClientConnect(c, p)
  <2>1. PICK p \in Peers : ClientConnect(c, p)
    BY <1>3
  <2>2. RequestOf(c) \in Connection
    BY DEF RequestOf, Connection, RequestConnection, Requesters
  <2>3. backlog' \in [Peers -> Seq(Connection)]
    BY <2>1, <2>2, SetupType DEF ClientConnect
  <2>4. TypeOK'
    BY <2>1, <2>3 DEF ClientConnect, TypeOK, ring, requesters
  <2>5. ServingOK'
    BY <2>1 DEF ClientConnect, ServingOK
  <2> QED
    BY <2>4, <2>5
<1> QED
  BY <1>1, <1>2, <1>3

(* Every step keeps the types.                                             *)
LEMMA NextTypeInv == TypeInv /\ [Next]_vars => TypeInv'
<1> SUFFICES ASSUME TypeInv, [Next]_vars PROVE TypeInv'
  OBVIOUS
<1>1. CASE Next
  <2>1. CASE \E p \in Peers : Listen(p) \/ PeerStep(p) \/ Inject(p)
    BY <2>1, MainTypeInv, MessageTypeInv, RequestTypeInv DEF PeerStep, receive_handler
  <2>2. CASE \E c \in Clients : ClientSend(c) \/ ClientAbort(c) \/ \E p \in Peers : ClientConnect(c, p)
    BY <2>2, ClientTypeInv
  <2> QED
    BY <1>1, <2>1, <2>2 DEF Next
<1>2. CASE UNCHANGED vars
  BY <1>2 DEF vars, ring, requesters, TypeInv, TypeOK, ServingOK
<1> QED
  BY <1>1, <1>2

LEMMA TypeInvariant == Spec => []TypeInv
BY InitTypeInv, NextTypeInv, PTL DEF Spec

(* Type correctness.                                                       *)
THEOREM TypeCorrect == Spec => []TypeOK
<1>1. TypeInv => TypeOK
  BY DEF TypeInv
<1> QED
  BY <1>1, TypeInvariant, PTL

-----------------------------------------------------------------------------
(* How a step changes a peer's neighbours.                                 *)

(* A fresh process has none, a first join sets both, a later join or a     *)
(* stabilize sets the previous one, a notify replaces a next one.          *)
Keeps(p)   == next'[p] = next[p] /\ prev'[p] = prev[p]
Forgets(p) == next'[p] = NULL /\ prev'[p] = NULL

NeighbourStep(p) ==
  \/ Keeps(p)
  \/ Forgets(p)
  \/ next'[p] \in Peers /\ prev'[p] = next'[p]
  \/ next'[p] = next[p] /\ prev'[p] \in Peers
  \/ next[p] # NULL /\ next'[p] \in Peers /\ prev'[p] = prev[p]

(* The message a peer handles names a peer.                                *)
LEMMA NodeOfMessage ==
  ASSUME TypeInv, NEW p \in Peers, NEW flag, Handles(p, flag)
  PROVE  serving[p].msg.node \in Peers
BY HandledMessage DEF Handles, PeerMessage

(* Only a thread in recv, or a new process, changes neighbours, and only   *)
(* its own.                                                                *)
LEMMA NeighboursChange ==
  ASSUME TypeInv, [Next]_vars, NEW p \in Peers
  PROVE  /\ NeighbourStep(p)
         /\ proc[p] \in {"starting", "accept", "relay"} => Keeps(p)
         /\ proc[p] # "recv" => Keeps(p) \/ Forgets(p)
<1> USE DEF NeighbourStep, Keeps, Forgets
<1>1. CASE UNCHANGED ring
  BY <1>1 DEF ring
<1>2. ASSUME NEW q \in Peers, Listen(q)
      PROVE  /\ NeighbourStep(p)
             /\ proc[p] \in {"starting", "accept", "relay"} => Keeps(p)
             /\ proc[p] # "recv" => Keeps(p) \/ Forgets(p)
  BY <1>2 DEF Listen, TypeInv, TypeOK
<1>3. ASSUME NEW q \in Peers, HandleFirstJoin(q)
      PROVE  /\ NeighbourStep(p)
             /\ proc[p] \in {"starting", "accept", "relay"} => Keeps(p)
             /\ proc[p] # "recv" => Keeps(p) \/ Forgets(p)
  <2>1. serving[q].msg.node \in Peers /\ proc[q] = "recv"
    BY <1>3, NodeOfMessage DEF HandleFirstJoin, Handles
  <2> QED
    BY <1>3, <2>1 DEF HandleFirstJoin, TypeInv, TypeOK
<1>4. ASSUME NEW q \in Peers, HandleJoin(q)
      PROVE  /\ NeighbourStep(p)
             /\ proc[p] \in {"starting", "accept", "relay"} => Keeps(p)
             /\ proc[p] # "recv" => Keeps(p) \/ Forgets(p)
  <2>1. serving[q].msg.node \in Peers /\ proc[q] = "recv"
    BY <1>4, NodeOfMessage DEF HandleJoin, Handles
  <2>2. UNCHANGED next /\ (UNCHANGED prev \/ prev' = [prev EXCEPT ![q] = serving[q].msg.node])
    BY <1>4 DEF HandleJoin
  <2> QED
    BY <2>1, <2>2 DEF TypeInv, TypeOK
<1>5. ASSUME NEW q \in Peers, HandleNotify(q)
      PROVE  /\ NeighbourStep(p)
             /\ proc[p] \in {"starting", "accept", "relay"} => Keeps(p)
             /\ proc[p] # "recv" => Keeps(p) \/ Forgets(p)
  <2>1. serving[q].msg.node \in Peers /\ proc[q] = "recv"
    BY <1>5, NodeOfMessage DEF HandleNotify, Handles
  <2>2. next[q] # NULL
    BY <1>5 DEF HandleNotify, MessageFaults, Handles
  <2> QED
    BY <1>5, <2>1, <2>2 DEF HandleNotify, TypeInv, TypeOK
<1>6. ASSUME NEW q \in Peers, HandleStabilize(q)
      PROVE  /\ NeighbourStep(p)
             /\ proc[p] \in {"starting", "accept", "relay"} => Keeps(p)
             /\ proc[p] # "recv" => Keeps(p) \/ Forgets(p)
  <2>1. serving[q].msg.node \in Peers /\ proc[q] = "recv"
    BY <1>6, NodeOfMessage DEF HandleStabilize, Handles
  <2>2. UNCHANGED next /\ (UNCHANGED prev \/ prev' = [prev EXCEPT ![q] = serving[q].msg.node])
    BY <1>6 DEF HandleStabilize
  <2> QED
    BY <2>1, <2>2 DEF TypeInv, TypeOK
<1>7. ASSUME NEW q \in Peers,
             \/ Enter(q) \/ get_new_connection(q) \/ Inject(q) \/ ReceiveEOF(q)
             \/ HandleMessageFault(q) \/ HandleIgnored(q) \/ HandleLookup(q)
             \/ HandleRequestFault(q) \/ respond_as_responsible_peer(q) \/ HandleBrokenPipe(q)
             \/ RelayRequest(q) \/ RelayUnreachable(q) \/ HandleUnknownResponsible(q) \/ redirect(q)
      PROVE  UNCHANGED ring
  BY <1>7 DEF Enter, get_new_connection, Inject, ReceiveEOF, HandleMessageFault, HandleIgnored,
              HandleLookup, HandleRequestFault, respond_as_responsible_peer, HandleBrokenPipe,
              RelayRequest, RelayUnreachable, HandleUnknownResponsible, redirect, RelayAnswer, RelayReset
<1>8. ASSUME NEW c \in Clients,
             ClientSend(c) \/ ClientAbort(c) \/ \E q \in Peers : ClientConnect(c, q)
      PROVE  UNCHANGED ring
  BY <1>8 DEF ClientSend, ClientAbort, ClientConnect
<1>9. CASE UNCHANGED vars
  BY <1>1, <1>9 DEF vars
<1>10. CASE Next
  BY <1>1, <1>2, <1>3, <1>4, <1>5, <1>6, <1>7, <1>8, <1>10 DEF Next, PeerStep, receive_handler
<1> QED
  BY <1>9, <1>10

-----------------------------------------------------------------------------
(* A linked peer has both neighbours.                                      *)

NextImpliesPrev == \A p \in Peers : next[p] # NULL => prev[p] # NULL

(* What the two neighbours rule out in the handler.                        *)
LEMMA LinkedIsSafe ==
  ASSUME TypeInv, NextImpliesPrev
  PROVE  LinkedPeerSurvives
<1> SUFFICES ASSUME NEW p \in Peers, next[p] # NULL
             PROVE  /\ prev[p] # NULL
                    /\ \A flag \in Flags \ {"reply"} : Handles(p, flag) => ~ MessageFaults(p, serving[p].msg)
                    /\ HandlesRequest(p) => ~ RequestFaults(p, RequestHash(p))
  BY DEF LinkedPeerSurvives
<1>1. prev[p] # NULL
  BY DEF NextImpliesPrev
<1>2. ASSUME NEW flag \in Flags \ {"reply"}, Handles(p, flag), MessageFaults(p, serving[p].msg)
      PROVE  FALSE
  <2> DEFINE m == serving[p].msg
  <2>1. Dispatches(m, "reply")
    BY <1>1, <1>2 DEF MessageFaults
  <2>2. Dispatches(m, flag)
    BY <1>2 DEF Handles
  <2>3. flag = "reply"
    <3> HIDE DEF m
    <3>1. PICK i \in DOMAIN Precedence :
            Precedence[i] = flag /\ flag \in m.flags /\ \A j \in 1 .. i - 1 : Precedence[j] \notin m.flags
      BY <2>2 DEF Dispatches
    <3>2. PICK k \in DOMAIN Precedence :
            Precedence[k] = "reply" /\ "reply" \in m.flags /\ \A j \in 1 .. k - 1 : Precedence[j] \notin m.flags
      BY <2>1 DEF Dispatches
    <3>3. i \in 1 .. 7 /\ k \in 1 .. 7
      BY DEF Precedence
    <3>4. ~ (i < k) /\ ~ (k < i)
      BY <3>1, <3>2, <3>3
    <3> QED
      BY <3>1, <3>2, <3>3, <3>4
  <2> QED
    BY <2>3
<1>3. ~ RequestFaults(p, RequestHash(p))
  BY <1>1 DEF RequestFaults
<1> QED
  BY <1>1, <1>2, <1>3

(* Whatever the order of joins, notifies, stabilizes and restarts, a peer  *)
(* with a next peer dereferences no missing neighbour.                     *)
THEOREM LinkedPeersSurvive == Spec => []LinkedPeerSurvives
<1>1. Init => NextImpliesPrev
  BY DEF Init, NextImpliesPrev
<1>2. TypeInv /\ NextImpliesPrev /\ [Next]_vars => NextImpliesPrev'
  <2> SUFFICES ASSUME TypeInv, NextImpliesPrev, [Next]_vars, NEW p \in Peers, next'[p] # NULL
               PROVE  prev'[p] # NULL
    BY DEF NextImpliesPrev
  <2>1. NeighbourStep(p)
    BY NeighboursChange
  <2> QED
    BY <2>1, PeerAssumption DEF NeighbourStep, Keeps, Forgets, NextImpliesPrev
<1>3. TypeInv /\ NextImpliesPrev => LinkedPeerSurvives
  BY LinkedIsSafe
<1> QED
  BY <1>1, <1>2, <1>3, TypeInvariant, PTL DEF Spec

-----------------------------------------------------------------------------
(* Relaying.                                                               *)

(* A thread that waits in redirect was already there, for the same client, *)
(* or has just relayed the request.                                        *)
LEMMA IntoRelay ==
  ASSUME TypeInv, [Next]_vars, NEW p \in Peers, proc'[p] = "relay"
  PROVE  \/ proc[p] = "relay" /\ serving'[p] = serving[p]
         \/ RelayRequest(p)
<1>1. CASE UNCHANGED vars
  BY <1>1 DEF vars
<1>2. ASSUME NEW q \in Peers,
             \/ Listen(q) \/ Enter(q) \/ get_new_connection(q)
      PROVE  proc[p] = "relay" /\ serving'[p] = serving[p]
  BY <1>2 DEF Listen, Enter, get_new_connection, TypeInv, TypeOK
<1>3. ASSUME NEW q \in Peers, Crash(q) \/ Finish(q)
      PROVE  proc[p] = "relay" /\ serving'[p] = serving[p]
  BY <1>3 DEF Crash, Finish, TypeInv, TypeOK
<1>4. ASSUME NEW q \in Peers, ReceiveEOF(q) \/ receive_handler(q) \/ redirect(q), ~ RelayRequest(q)
      PROVE  Crash(q) \/ Finish(q)
  BY <1>4 DEF ReceiveEOF, receive_handler, redirect, RelayAnswer, RelayReset,
              HandleMessageFault, HandleIgnored, HandleFirstJoin, HandleJoin, HandleNotify,
              HandleStabilize, HandleLookup, HandleRequestFault, respond_as_responsible_peer,
              HandleBrokenPipe, RelayUnreachable, HandleUnknownResponsible
<1>5. ASSUME NEW q \in Peers, RelayRequest(q), q # p
      PROVE  proc[p] = "relay" /\ serving'[p] = serving[p]
  BY <1>5 DEF RelayRequest, TypeInv, TypeOK
<1>6. ASSUME NEW q \in Peers, Inject(q)
      PROVE  proc[p] = "relay" /\ serving'[p] = serving[p]
  BY <1>6 DEF Inject
<1>7. ASSUME NEW c \in Clients, ClientSend(c) \/ ClientAbort(c) \/ \E q \in Peers : ClientConnect(c, q)
      PROVE  proc[p] = "relay" /\ serving'[p] = serving[p]
  BY <1>7 DEF ClientSend, ClientAbort, ClientConnect
<1>8. CASE Next
  <2>1. CASE \E q \in Peers : Listen(q) \/ PeerStep(q) \/ Inject(q)
    <3>1. PICK q \in Peers : Listen(q) \/ PeerStep(q) \/ Inject(q)
      BY <2>1
    <3>2. CASE PeerStep(q) /\ ~ RelayRequest(q)
      BY <1>2, <1>3, <1>4, <3>2 DEF PeerStep
    <3>3. CASE RelayRequest(q)
      BY <1>5, <3>3
    <3> QED
      BY <1>2, <1>6, <3>1, <3>2, <3>3
  <2> QED
    BY <1>7, <1>8, <2>1 DEF Next
<1> QED
  BY <1>1, <1>8

(* A peer relays only upwards: to a next peer with a larger id.            *)
RelayAscends ==
  \A p \in Peers : proc[p] = "relay" => next[p] \in Peers /\ Id[p] < Id[next[p]]

LEMMA RelayAscendsStep ==
  ASSUME TypeInv, RelayAscends, [Next]_vars
  PROVE  RelayAscends'
<1> SUFFICES ASSUME NEW p \in Peers, proc'[p] = "relay"
             PROVE  next'[p] \in Peers /\ Id[p] < Id[next'[p]]
  BY DEF RelayAscends
<1>1. CASE proc[p] = "relay"
  BY <1>1, NeighboursChange DEF Keeps, RelayAscends
<1>2. CASE RelayRequest(p)
  <2>1. NextResponsible(p) /\ next' = next
    BY <1>2 DEF RelayRequest, ring
  <2>2. next[p] \in Peers
    BY <2>1, NextKnown
  <2>3. RequestHash(p) \in byte16
    BY <2>1, HandledRequest DEF NextResponsible
  <2>4. Id[next[p]] > RequestHash(p) /\ Id[p] < RequestHash(p)
    BY <2>1 DEF NextResponsible, id_is_between, in_range
  <2>5. Id[p] \in Int /\ Id[next[p]] \in Int /\ RequestHash(p) \in Int
    BY <2>2, <2>3, ProtocolAssumption, Byte16IsInt
  <2>6. Id[p] < Id[next[p]]
    BY <2>4, <2>5
  <2> QED
    BY <2>1, <2>2, <2>6
<1> QED
  BY <1>1, <1>2, IntoRelay

LEMMA RelayAscendsInvariant == Spec => []RelayAscends
<1>1. Init => RelayAscends
  BY DEF Init, RelayAscends
<1> QED
  BY <1>1, RelayAscendsStep, TypeInvariant, PTL DEF Spec

(* The order on the natural numbers, as a set of pairs.                    *)
Below == {pair \in Nat \X Nat : pair[1] < pair[2]}

LEMMA BelowIsWellFounded == IsWellFoundedOn(Below, Nat)
<1>1. Below = OpToRel(<, Nat)
  BY Zenon DEF Below, OpToRel
<1> QED
  BY <1>1, NatLessThanWellFounded, Zenon

(* Every set of peers, even an infinite one, has one with the largest id.  *)
LEMMA HighestId ==
  ASSUME NEW S \in SUBSET Peers, S # {}
  PROVE  \E p \in S : \A q \in S : Id[q] <= Id[p]
<1> DEFINE room == {65535 - Id[p] : p \in S}
<1>1. ASSUME NEW p \in S
      PROVE  Id[p] \in Int /\ 0 <= Id[p] /\ Id[p] <= 65535
  <2>1. Id[p] \in byte16
    BY ProtocolAssumption
  <2> QED
    BY <2>1, Byte16IsInt
<1>2. room \subseteq Nat /\ room # {}
  BY <1>1
<1>3. PICK n \in room : \A k \in room : <<k, n>> \notin Below
  <2> HIDE DEF room
  <2> QED
    BY <1>2, BelowIsWellFounded, WFMin, Zenon
<1>4. ASSUME NEW k \in room
      PROVE  ~ (k < n)
  <2> HIDE DEF room
  <2> QED
    BY <1>2, <1>3 DEF Below
<1>5. PICK p \in S : n = 65535 - Id[p]
  OBVIOUS
<1>6. ASSUME NEW q \in S
      PROVE  Id[q] <= Id[p]
  <2>1. ~ (65535 - Id[q] < 65535 - Id[p])
    BY <1>4, <1>5
  <2> QED
    BY <1>1, <2>1
<1> QED
  BY <1>6

LEMMA AscendingRelays == RelayAscends => NoWaitCycle
<1> SUFFICES ASSUME RelayAscends, NEW S \in SUBSET Peers, S # {}
             PROVE  \E p \in S : \A q \in S : ~ WaitsFor(p, q)
  BY DEF NoWaitCycle
<1>1. PICK p \in S : \A q \in S : Id[q] <= Id[p]
  BY HighestId
<1>2. ASSUME NEW q \in S, WaitsFor(p, q)
      PROVE  FALSE
  <2>1. Id[p] < Id[q] /\ Id[q] <= Id[p]
    BY <1>1, <1>2 DEF WaitsFor, RelayAscends
  <2>2. Id[p] \in Int /\ Id[q] \in Int
    BY ProtocolAssumption, Byte16IsInt
  <2> QED
    BY <2>1, <2>2
<1> QED
  BY <1>2

(* No set of peers is ever blocked in redirect each on another of the set. *)
THEOREM NoWaitCycles == Spec => []NoWaitCycle
BY AscendingRelays, RelayAscendsInvariant, PTL

-----------------------------------------------------------------------------
(* What the network sees of a handler.                                     *)

(* A step sends at most one message.                                       *)
Sends == UNCHANGED backlog \/ \E q \in Peers, m \in PeerMessage : direct_send(q, m)

(* Everything a thread does after recv, but relaying, ends in a crash or   *)
(* back in accept, after at most one message.                              *)
LEMMA HandlerShape ==
  ASSUME TypeInv, NEW p \in Peers, ReceiveEOF(p) \/ receive_handler(p) \/ redirect(p), ~ RelayRequest(p)
  PROVE  Crash(p) \/ (Finish(p) /\ Sends)
<1> DEFINE m == serving[p].msg
<1>1. ASSUME \/ ReceiveEOF(p) \/ HandleMessageFault(p) \/ HandleRequestFault(p) \/ HandleBrokenPipe(p)
             \/ HandleIgnored(p) \/ HandleNotify(p) \/ respond_as_responsible_peer(p)
             \/ RelayUnreachable(p) \/ HandleUnknownResponsible(p) \/ redirect(p)
      PROVE  Crash(p) \/ (Finish(p) /\ UNCHANGED backlog)
  BY <1>1 DEF ReceiveEOF, HandleMessageFault, HandleRequestFault, HandleBrokenPipe, HandleIgnored,
              HandleNotify, respond_as_responsible_peer, RelayUnreachable, HandleUnknownResponsible,
              redirect, RelayAnswer, RelayReset
<1>2. ASSUME Handles(p, "join") \/ Handles(p, "stabilize") \/ Handles(p, "lookup")
      PROVE  m \in PeerMessage /\ m.node \in Peers
  BY <1>2, HandledMessage DEF Handles, PeerMessage
<1>3. CASE HandleFirstJoin(p)
  <2>1. m.node \in Peers
    BY <1>2, <1>3 DEF HandleFirstJoin
  <2> QED
    BY <1>3, <2>1, OwnMessageType DEF HandleFirstJoin, Sends
<1>4. CASE HandleJoin(p)
  <2>1. m \in PeerMessage /\ m.node \in Peers /\ next[p] \in Peers
    BY <1>2, <1>4 DEF HandleJoin, TypeInv, TypeOK
  <2>2. (\E n \in notify(p) : direct_send(m.node, n)) \/ direct_send(next[p], m)
    BY <1>4 DEF HandleJoin
  <2> QED
    BY <1>4, <2>1, <2>2, OwnMessageType DEF HandleJoin, Sends
<1>5. CASE HandleStabilize(p)
  <2>1. m.node \in Peers /\ Handles(p, "stabilize") /\ ~ MessageFaults(p, m)
    BY <1>2, <1>5 DEF HandleStabilize
  <2>2. \/ UNCHANGED backlog
        \/ /\ prev[p] # NULL /\ Id[m.node] = Id[prev[p]]
           /\ \E n \in stabilize(p) : direct_send(next[p], n)
        \/ prev[p] # NULL /\ \E n \in notify(prev[p]) : direct_send(m.node, n)
    BY <1>5 DEF HandleStabilize
  <2>3. prev[p] # NULL /\ Id[m.node] = Id[prev[p]] => next[p] \in Peers
    BY <2>1 DEF MessageFaults, Handles, TypeInv, TypeOK
  <2>4. prev[p] # NULL => prev[p] \in Peers
    BY DEF TypeInv, TypeOK
  <2>5. Finish(p)
    BY <1>5 DEF HandleStabilize
  <2> QED
    BY <2>1, <2>2, <2>3, <2>4, <2>5, OwnMessageType DEF Sends
<1>6. CASE HandleLookup(p)
  <2>1. m \in PeerMessage
    BY <1>2, <1>6 DEF HandleLookup
  <2>2. next[p] \in Peers
    BY <1>6 DEF HandleLookup, MessageFaults, Handles, TypeInv, TypeOK
  <2> QED
    BY <1>6, <2>1, <2>2, FoundLookupType DEF HandleLookup, Sends
<1> QED
  BY <1>1, <1>3, <1>4, <1>5, <1>6 DEF receive_handler, Sends

-----------------------------------------------------------------------------
(* The program as built.                                                   *)

(* A process that is not listening has nothing queued; one that has not    *)
(* yet served its one connection knows nobody.                             *)
OneShot ==
  CloseListener =>
    \A p \in Peers :
      /\ ~ listening[p] => backlog[p] = <<>>
      /\ proc[p] # "relay"
      /\ proc[p] = "recv" => ~ listening[p]
      /\ proc[p] \in {"starting", "recv"} \/ (proc[p] = "accept" /\ listening[p])
           => next[p] = NULL /\ prev[p] = NULL

(* Without neighbours every request is a NULL dereference.                 *)
LEMMA UnlinkedFaults ==
  ASSUME NEW p \in Peers, next[p] = NULL, prev[p] = NULL, NEW hashId
  PROVE  RequestFaults(p, hashId)
BY DEF RequestFaults, id_is_between, in_range

(* So nobody relays, and nobody answers.                                   *)
LEMMA NobodyServes ==
  ASSUME OneShot, CloseListener, NEW p \in Peers
  PROVE  /\ ~ RelayRequest(p) /\ ~ RelayUnreachable(p)
         /\ ~ respond_as_responsible_peer(p) /\ ~ HandleBrokenPipe(p)
         /\ ~ redirect(p)
<1>1. HandlesRequest(p) => RequestFaults(p, RequestHash(p))
  BY UnlinkedFaults DEF OneShot, HandlesRequest
<1>2. ~ redirect(p)
  BY DEF OneShot, redirect, RelayAnswer, RelayReset
<1> QED
  BY <1>1, <1>2 DEF RelayRequest, RelayUnreachable, respond_as_responsible_peer, HandleBrokenPipe,
                    NextResponsible, Responsible

(* Nothing is queued at a socket that is closed.                           *)
LEMMA SetupAtListener ==
  ASSUME TypeInv, NEW q \in Peers, NEW connection, setup_as_client(q, connection)
  PROVE  \A p \in Peers : ~ listening[p] => backlog'[p] = backlog[p]
BY DEF setup_as_client, Reachable, TypeInv, TypeOK

LEMMA SendsAtListener ==
  ASSUME TypeInv, Sends
  PROVE  \A p \in Peers : ~ listening[p] => backlog'[p] = backlog[p]
BY SetupAtListener DEF Sends, direct_send

LEMMA OneShotInvariant == Spec => []OneShot
<1>1. Init => OneShot
  BY DEF Init, OneShot
<1>2. TypeInv /\ OneShot /\ [Next]_vars => OneShot'
  <2> SUFFICES ASSUME TypeInv, OneShot, [Next]_vars, CloseListener, NEW p \in Peers
               PROVE  /\ ~ listening'[p] => backlog'[p] = <<>>
                      /\ proc'[p] # "relay"
                      /\ proc'[p] = "recv" => ~ listening'[p]
                      /\ proc'[p] \in {"starting", "recv"} \/ (proc'[p] = "accept" /\ listening'[p])
                           => next'[p] = NULL /\ prev'[p] = NULL
    BY DEF OneShot
  <2> DEFINE Fresh == proc[p] \in {"starting", "recv"} \/ (proc[p] = "accept" /\ listening[p])
             Goal == /\ ~ listening'[p] => backlog'[p] = <<>>
                     /\ proc'[p] # "relay"
                     /\ proc'[p] = "recv" => ~ listening'[p]
                     /\ proc'[p] \in {"starting", "recv"} \/ (proc'[p] = "accept" /\ listening'[p])
                          => next'[p] = NULL /\ prev'[p] = NULL
  <2>1. /\ ~ listening[p] => backlog[p] = <<>>
        /\ proc[p] # "relay"
        /\ proc[p] = "recv" => ~ listening[p]
        /\ Fresh => next[p] = NULL /\ prev[p] = NULL
    BY DEF OneShot
  <2>2. ASSUME NEW q \in Peers, Listen(q)
        PROVE  Goal
    BY <2>1, <2>2 DEF Listen, TypeInv, TypeOK
  <2>3. ASSUME NEW q \in Peers, Enter(q)
        PROVE  Goal
    <3>1. ~ listening[p] => backlog'[p] = backlog[p]
      BY <2>3, SetupAtListener, PeerAssumption DEF Enter, direct_send
    <3> QED
      BY <2>1, <2>3, <3>1 DEF Enter, ring, TypeInv, TypeOK
  <2>4. ASSUME NEW q \in Peers, get_new_connection(q)
        PROVE  Goal
    <3>1. listening[q]
      BY <2>4 DEF get_new_connection, OneShot
    <3> QED
      BY <2>1, <2>4, <3>1 DEF get_new_connection, ring, TypeInv, TypeOK
  <2>5. ASSUME NEW q \in Peers, Crash(q), p # q => next'[p] = next[p] /\ prev'[p] = prev[p]
        PROVE  Goal
    BY <2>1, <2>5 DEF Crash, TypeInv, TypeOK
  <2>6. ASSUME NEW q \in Peers, Finish(q), Sends, proc[q] = "recv", p # q => next'[p] = next[p] /\ prev'[p] = prev[p]
        PROVE  Goal
    <3>1. ~ listening[p] => backlog'[p] = backlog[p]
      BY <2>6, SendsAtListener
    <3>2. ~ listening[q]
      BY <2>6 DEF OneShot
    <3> QED
      BY <2>1, <2>6, <3>1, <3>2 DEF Finish, TypeInv, TypeOK
  <2>7. ASSUME NEW q \in Peers, ReceiveEOF(q) \/ receive_handler(q) \/ redirect(q)
        PROVE  Goal
    <3>1. Crash(q) \/ (Finish(q) /\ Sends)
      BY <2>7, HandlerShape, NobodyServes
    <3>2. proc[q] = "recv"
      BY <2>7, NobodyServes DEF ReceiveEOF, receive_handler, HandleMessageFault, HandleIgnored,
              HandleFirstJoin, HandleJoin, HandleNotify, HandleStabilize, HandleLookup,
              HandleRequestFault, HandleUnknownResponsible, Handles, HandlesRequest
    <3>3. p # q => next'[p] = next[p] /\ prev'[p] = prev[p]
      BY <2>7, NobodyServes DEF ReceiveEOF, receive_handler, HandleMessageFault, HandleIgnored,
              HandleFirstJoin, HandleJoin, HandleNotify, HandleStabilize, HandleLookup,
              HandleRequestFault, HandleUnknownResponsible, ring, TypeInv, TypeOK
    <3> QED
      BY <2>5, <2>6, <3>1, <3>2, <3>3
  <2>8. ASSUME NEW q \in Peers, Inject(q)
        PROVE  Goal
    <3>1. ~ listening[p] => backlog'[p] = backlog[p]
      BY <2>8, SetupAtListener DEF Inject, direct_send
    <3> QED
      BY <2>1, <2>8, <3>1 DEF Inject, ring
  <2>9. ASSUME NEW c \in Clients, ClientSend(c) \/ ClientAbort(c) \/ \E q \in Peers : ClientConnect(c, q)
        PROVE  Goal
    <3>1. ~ listening[p] => backlog'[p] = backlog[p]
      BY <2>9, SetupAtListener DEF ClientSend, ClientAbort, ClientConnect
    <3> QED
      BY <2>1, <2>9, <3>1 DEF ClientSend, ClientAbort, ClientConnect, ring
  <2>10. CASE UNCHANGED vars
    BY <2>1, <2>10 DEF vars, ring
  <2> QED
    BY <2>2, <2>3, <2>4, <2>7, <2>8, <2>9, <2>10 DEF Next, PeerStep
<1> QED
  BY <1>1, <1>2, TypeInvariant, PTL DEF Spec

(* As built, a peer's next and previous peers are the same one.            *)
THEOREM AsBuiltOneNeighbour == Spec => []OneNeighbour
<1>1. Init => OneNeighbour
  BY DEF Init, OneNeighbour
<1>2. TypeInv /\ OneShot /\ OneNeighbour /\ [Next]_vars => OneNeighbour'
  <2> SUFFICES ASSUME TypeInv, OneShot, OneNeighbour, [Next]_vars, CloseListener,
                      NEW p \in Peers, next'[p] # NULL
               PROVE  next'[p] = prev'[p]
    BY DEF OneNeighbour
  <2>1. next[p] # NULL => next[p] = prev[p]
    BY DEF OneNeighbour
  <2>2. proc[p] = "recv" => next[p] = NULL
    BY DEF OneShot
  <2> QED
    BY <2>1, <2>2, NeighboursChange DEF NeighbourStep, Keeps, Forgets
<1> QED
  BY <1>1, <1>2, TypeInvariant, OneShotInvariant, PTL DEF Spec

(* As built, no client is ever sent an answer.                             *)
THEOREM AsBuiltNothingAnswered == Spec => []NothingAnswered
<1>1. Init => NothingAnswered
  BY DEF Init, NothingAnswered, Requesters
<1>2. TypeInv /\ OneShot /\ NothingAnswered /\ [Next]_vars => NothingAnswered'
  <2> SUFFICES ASSUME TypeInv, OneShot, NothingAnswered, [Next]_vars, CloseListener, NEW c \in Clients
               PROVE  inbound'[c] = <<>>
    BY DEF NothingAnswered
  <2>1. inbound[c] = <<>>
    BY DEF NothingAnswered
  <2>2. ASSUME NEW p \in Peers, Listen(p)
        PROVE  inbound'[c] = <<>>
    BY <2>1, <2>2 DEF Listen, TypeInv, TypeOK, Requesters
  <2>3. ASSUME NEW p \in Peers,
               Enter(p) \/ get_new_connection(p) \/ Inject(p) \/ ReceiveEOF(p) \/ receive_handler(p) \/ redirect(p)
        PROVE  inbound' = inbound
    BY <2>3, NobodyServes DEF Enter, get_new_connection, Inject, ReceiveEOF, receive_handler,
            HandleMessageFault, HandleIgnored, HandleFirstJoin, HandleJoin, HandleNotify,
            HandleStabilize, HandleLookup, HandleRequestFault, HandleUnknownResponsible, requesters
  <2>4. ASSUME NEW d \in Clients, ClientSend(d) \/ ClientAbort(d) \/ \E p \in Peers : ClientConnect(d, p)
        PROVE  inbound' = inbound
    BY <2>4 DEF ClientSend, ClientAbort, ClientConnect, requesters
  <2>5. CASE UNCHANGED vars
    BY <2>1, <2>5 DEF vars, requesters
  <2> QED
    BY <2>1, <2>2, <2>3, <2>4, <2>5 DEF Next, PeerStep
<1> QED
  BY <1>1, <1>2, TypeInvariant, OneShotInvariant, PTL DEF Spec

-----------------------------------------------------------------------------
(* Relayed requests on their way.                                          *)

(* A connection occurs once in a queue.                                    *)
Single(x, queue) == \A i, j \in DOMAIN queue : queue[i] = x /\ queue[j] = x => i = j

LEMMA AppendFacts ==
  ASSUME NEW queue \in Seq(Connection), NEW e \in Connection, NEW x
  PROVE  /\ ToSet(Append(queue, e)) = ToSet(queue) \union {e}
         /\ x # e /\ Single(x, queue) => Single(x, Append(queue, e))
         /\ x \notin ToSet(queue) => Single(x, Append(queue, e))
<1>1. /\ DOMAIN Append(queue, e) = 1 .. Len(queue) + 1
      /\ DOMAIN queue = 1 .. Len(queue)
      /\ \A i \in 1 .. Len(queue) : Append(queue, e)[i] = queue[i]
      /\ Append(queue, e)[Len(queue) + 1] = e
      /\ Len(queue) \in Nat
  OBVIOUS
<1> DEFINE longer == Append(queue, e)
<1> HIDE DEF longer
<1>2. \A y : y \in ToSet(longer) <=> y \in ToSet(queue) \/ y = e
  BY <1>1 DEF ToSet, longer
<1>3. x # e /\ Single(x, queue) => Single(x, longer)
  BY <1>1 DEF Single, longer
<1>4. x \notin ToSet(queue) => Single(x, longer)
  BY <1>1 DEF Single, ToSet, longer
<1> QED
  BY <1>2, <1>3, <1>4 DEF longer

LEMMA TailFacts ==
  ASSUME NEW queue \in Seq(Connection), queue # <<>>, NEW x
  PROVE  /\ Head(queue) \in ToSet(queue)
         /\ ToSet(Tail(queue)) \subseteq ToSet(queue)
         /\ Single(x, queue) => Single(x, Tail(queue))
         /\ Single(x, queue) /\ x = Head(queue) => x \notin ToSet(Tail(queue))
<1>1. /\ DOMAIN queue = 1 .. Len(queue)
      /\ DOMAIN Tail(queue) = 1 .. Len(queue) - 1
      /\ \A i \in 1 .. Len(queue) - 1 : Tail(queue)[i] = queue[i + 1]
      /\ Head(queue) = queue[1]
      /\ Len(queue) \in Nat \ {0}
  OBVIOUS
<1> DEFINE rest == Tail(queue)
<1> HIDE DEF rest
<1>2. Head(queue) \in ToSet(queue)
  BY <1>1 DEF ToSet
<1>3. \A y : y \in ToSet(rest) => y \in ToSet(queue)
  BY <1>1 DEF ToSet, rest
<1>4. Single(x, queue) => Single(x, rest)
  BY <1>1 DEF Single, rest
<1>5. Single(x, queue) /\ x = Head(queue) => x \notin ToSet(rest)
  BY <1>1 DEF Single, ToSet, rest
<1> QED
  BY <1>2, <1>3, <1>4, <1>5 DEF rest

(* p's relayed request is at q at most once.                               *)
Once(p, q) ==
  /\ Single(RequestOf(p), backlog[q])
  /\ serving[q] = RequestOf(p) => RequestOf(p) \notin ToSet(backlog[q])

(* A step that brings no request of p anywhere.                            *)
Shrinks(p) ==
  \A q \in Peers : Connected(p, q)' => Connected(p, q) /\ (Once(p, q) => Once(p, q)')

(* Where p's request is while p waits for it: at the next peer, whose id   *)
(* is above the hash, once, and neither answered nor cut off.              *)
Travels(p) ==
  /\ proc[p] # "relay" => inbound[p] = <<>> /\ ~ reset[p]
  /\ inbound[p] # <<>> => ~ reset[p]
  /\ \A q \in Peers :
       Connected(p, q) =>
         /\ proc[p] = "relay"
         /\ inbound[p] = <<>> /\ ~ reset[p]
         /\ q = next[p]
         /\ asked[p] \in Request
         /\ Hash[asked[p].key] < Id[q]
         /\ Once(p, q)

RelayedTravels == \A p \in Peers : Travels(p)

(* Connections of others, and a thread that is done, only take away.       *)
LEMMA OthersShrink ==
  ASSUME TypeInv, NEW p \in Peers,
         \/ UNCHANGED backlog
         \/ \E q \in Peers, connection \in Connection \ {RequestOf(p)} : setup_as_client(q, connection),
         \/ UNCHANGED serving
         \/ \E q \in Peers : serving' = [serving EXCEPT ![q] = NULL]
  PROVE  Shrinks(p)
<1>1. NULL # RequestOf(p)
  BY PeerAssumption DEF RequestOf, Connection, RequestConnection, Requesters
<1> SUFFICES ASSUME NEW t \in Peers, Connected(p, t)'
             PROVE  Connected(p, t) /\ (Once(p, t) => Once(p, t)')
  BY DEF Shrinks
<1>2. serving'[t] = RequestOf(p) => serving[t] = RequestOf(p)
  BY <1>1 DEF TypeInv, TypeOK
<1>3. /\ RequestOf(p) \in ToSet(backlog'[t]) => RequestOf(p) \in ToSet(backlog[t])
      /\ Single(RequestOf(p), backlog[t]) => Single(RequestOf(p), backlog'[t])
  <2>1. backlog[t] \in Seq(Connection)
    BY DEF TypeInv, TypeOK
  <2>2. CASE backlog'[t] = backlog[t]
    BY <2>2
  <2>3. CASE \E connection \in Connection \ {RequestOf(p)} : backlog'[t] = Append(backlog[t], connection)
    BY <2>1, <2>3, AppendFacts
  <2> QED
    BY SMTT(30), <2>2, <2>3 DEF setup_as_client, TypeInv, TypeOK
<1> QED
  BY <1>2, <1>3 DEF Connected, Once, RequestOf

(* A step that leaves p's request and p itself alone.                      *)
LEMMA Undisturbed ==
  ASSUME TypeInv, NEW p \in Peers, Travels(p), Shrinks(p),
         inbound'[p] = inbound[p], reset'[p] = reset[p],
         proc[p] = "relay" => proc'[p] = "relay" /\ next'[p] = next[p] /\ asked'[p] = asked[p]
  PROVE  Travels(p)'
BY DEF Travels, Shrinks

(* A request served for x is x's connection.                               *)
LEMMA ServedConnection ==
  ASSUME TypeInv, NEW p \in Peers, serving[p] \in RequestConnection
  PROVE  /\ serving[p] = RequestOf(ClientOf(p))
         /\ ClientOf(p) \in Requesters
         /\ Connected(ClientOf(p), p)
BY DEF RequestConnection, RequestOf, ClientOf, Connected

(* A relayed request fails the test for relaying it on: its hash is below  *)
(* the id of the peer it was relayed to.                                   *)
LEMMA RelayedFromClient ==
  ASSUME TypeInv, RelayedTravels, NEW q \in Peers, NextResponsible(q)
  PROVE  ClientOf(q) \in Clients
<1>1. HandlesRequest(q)
  BY DEF NextResponsible
<1>2. ClientOf(q) \in Requesters /\ Connected(ClientOf(q), q) /\ RequestHash(q) \in byte16
  BY <1>1, HandledRequest, ServedConnection
<1>3. CASE ClientOf(q) \in Peers
  <2>1. Hash[asked[ClientOf(q)].key] < Id[q]
    BY <1>2, <1>3 DEF RelayedTravels, Travels
  <2>2. RequestHash(q) < Id[q]
    BY <2>1 DEF RequestHash, RequestAt
  <2>3. Id[q] < RequestHash(q)
    BY DEF NextResponsible, id_is_between, in_range
  <2>4. Id[q] \in Int /\ RequestHash(q) \in Int
    BY <1>2, ProtocolAssumption, Byte16IsInt
  <2> QED
    BY <2>2, <2>3, <2>4
<1> QED
  BY <1>2, <1>3 DEF Requesters

(* Steps that serve nobody.                                                *)
LEMMA QuietTravels ==
  ASSUME TypeInv, RelayedTravels, NEW p \in Peers, NEW q \in Peers,
         Listen(q) \/ Enter(q) \/ Inject(q)
  PROVE  Travels(p)'
<1>1. Travels(p) /\ Shrinks(p)
  <2>1. ASSUME NEW t \in Peers, NEW m \in PeerMessage
        PROVE  Message(m) \in Connection \ {RequestOf(p)}
    BY DEF Message, RequestOf, Connection, MessageConnection
  <2>2. UNCHANGED backlog \/ \E t \in Peers, connection \in Connection \ {RequestOf(p)} : setup_as_client(t, connection)
    BY <2>1, PeerAssumption, OwnMessageType DEF Listen, Enter, Inject, direct_send
  <2>3. UNCHANGED serving
    BY DEF Listen, Enter, Inject
  <2> QED
    BY <2>2, <2>3, OthersShrink DEF RelayedTravels
<1>2. CASE Listen(q) /\ p # q
  <2>1. /\ inbound'[p] = inbound[p] /\ reset'[p] = reset[p] /\ asked'[p] = asked[p]
        /\ proc'[p] = proc[p] /\ next'[p] = next[p]
    BY <1>2 DEF Listen, TypeInv, TypeOK, Requesters
  <2> QED
    BY <1>1, <2>1, Undisturbed
<1>3. CASE Listen(q) /\ p = q
  <2>1. inbound'[p] = <<>> /\ ~ reset'[p] /\ proc[p] # "relay"
    BY <1>3 DEF Listen, TypeInv, TypeOK, Requesters
  <2> QED
    BY <1>1, <2>1 DEF Travels, Shrinks
<1>4. CASE Enter(q) \/ Inject(q)
  <2>1. UNCHANGED <<inbound, reset, asked, next>> /\ (proc[p] = "relay" => proc'[p] = "relay")
    BY <1>4 DEF Enter, Inject, ring, requesters, TypeInv, TypeOK
  <2> QED
    BY <1>1, <2>1, Undisturbed
<1> QED
  BY <1>2, <1>3, <1>4

(* Clients' steps.                                                         *)
LEMMA ClientTravels ==
  ASSUME TypeInv, RelayedTravels, NEW p \in Peers, NEW c \in Clients,
         ClientSend(c) \/ ClientAbort(c) \/ \E q \in Peers : ClientConnect(c, q)
  PROVE  Travels(p)'
<1>1. RequestOf(c) \in Connection \ {RequestOf(p)}
  BY PeerAssumption DEF RequestOf, Connection, RequestConnection, Requesters
<1>2. UNCHANGED backlog \/ \E t \in Peers, connection \in Connection \ {RequestOf(p)} : setup_as_client(t, connection)
  BY <1>1 DEF ClientSend, ClientAbort, ClientConnect
<1>3. /\ UNCHANGED <<serving, inbound, reset, next, proc>>
      /\ asked'[p] = asked[p]
  BY PeerAssumption DEF ClientSend, ClientAbort, ClientConnect, ring, requesters, TypeInv, TypeOK, Requesters
<1> QED
  BY <1>2, <1>3, OthersShrink, Undisturbed DEF RelayedTravels

(* Accepting a connection, and with it perhaps cutting off the others.     *)
LEMMA AcceptTravels ==
  ASSUME TypeInv, RelayedTravels, NEW p \in Peers, NEW q \in Peers, get_new_connection(q)
  PROVE  Travels(p)'
<1> DEFINE x == RequestOf(p)
<1>1. /\ backlog[q] \in Seq(Connection) /\ backlog[q] # <<>>
      /\ serving'[q] = Head(backlog[q])
      /\ \A t \in Peers : t # q => serving'[t] = serving[t] /\ backlog'[t] = backlog[t]
      /\ backlog'[q] = IF CloseListener THEN <<>> ELSE Tail(backlog[q])
      /\ UNCHANGED <<inbound, asked, next>> /\ (proc[p] = "relay" => proc'[p] = "relay")
  BY ZenonT(60), PeerAssumption DEF get_new_connection, ring, TypeInv, TypeOK
<1>2. /\ Head(backlog[q]) \in ToSet(backlog[q])
      /\ ToSet(Tail(backlog[q])) \subseteq ToSet(backlog[q])
      /\ Single(x, backlog[q]) => Single(x, Tail(backlog[q]))
      /\ Single(x, backlog[q]) /\ x = Head(backlog[q]) => x \notin ToSet(Tail(backlog[q]))
  BY <1>1, TailFacts
<1>3. ToSet(<< >>) = {} /\ Single(x, << >>)
  BY DEF ToSet, Single
<1>4. Shrinks(p)
  <2> SUFFICES ASSUME NEW t \in Peers, Connected(p, t)'
               PROVE  Connected(p, t) /\ (Once(p, t) => Once(p, t)')
    BY DEF Shrinks
  <2>1. CASE t # q
    BY <1>1, <2>1 DEF Connected, Once, RequestOf
  <2>2. CASE t = q /\ CloseListener
    BY <1>1, <1>2, <1>3, <2>2 DEF Connected, Once, RequestOf
  <2>3. CASE t = q /\ ~ CloseListener
    BY <1>1, <1>2, <2>3 DEF Connected, Once, RequestOf
  <2> QED
    BY <2>1, <2>2, <2>3
<1>5. CASE reset'[p] = reset[p]
  BY <1>1, <1>4, <1>5, Undisturbed DEF RelayedTravels
<1>6. CASE reset'[p] # reset[p]
  <2>1. CloseListener /\ x \in ToSet(Tail(backlog[q]))
    BY <1>6 DEF get_new_connection, Disconnect, Opened, TypeInv, TypeOK, Requesters
  <2>2. Connected(p, q)
    BY <1>2, <2>1 DEF Connected
  <2>3. Travels(p)
    BY DEF RelayedTravels
  <2>4. Single(x, backlog[q]) /\ proc[p] = "relay" /\ inbound[p] = <<>> /\ q = next[p]
    BY <2>2, <2>3 DEF Travels, Once
  <2>5. ~ Connected(p, q)'
    BY <1>1, <1>2, <1>3, <2>1, <2>4 DEF Connected, RequestOf
  <2>6. \A t \in Peers : ~ Connected(p, t)'
    BY <1>4, <2>3, <2>4, <2>5 DEF Shrinks, Travels
  <2> QED
    BY <1>1, <2>4, <2>6 DEF Travels
<1> QED
  BY <1>5, <1>6

(* The death of a process cuts off the requests it had, queued or served.  *)
LEMMA CrashTravels ==
  ASSUME TypeInv, RelayedTravels, NEW p \in Peers, NEW q \in Peers, Crash(q), proc[q] # "relay",
         next' = next, asked' = asked, inbound'[p] = inbound[p]
  PROVE  Travels(p)'
<1>1. /\ backlog'[q] = <<>> /\ serving'[q] = NULL
      /\ \A t \in Peers : t # q => serving'[t] = serving[t] /\ backlog'[t] = backlog[t]
      /\ proc[p] = "relay" => proc'[p] = "relay"
      /\ reset'[p] = (reset[p] \/ Connected(p, q))
  <2>1. reset'[p] = (reset[p] \/ p \in Opened(ToSet(backlog[q]) \union {serving[q]}))
    BY Zenon DEF Crash, Disconnect, Requesters
  <2>2. p \in Opened(ToSet(backlog[q]) \union {serving[q]}) <=> Connected(p, q)
    BY DEF Opened, Connected, Requesters
  <2>3. reset'[p] = (reset[p] \/ Connected(p, q))
    BY <2>1, <2>2, Zenon
  <2> QED
    BY <2>3 DEF Crash, TypeInv, TypeOK
<1>2. NULL # RequestOf(p) /\ ToSet(<< >>) = {}
  BY PeerAssumption DEF RequestOf, Connection, RequestConnection, Requesters, ToSet
<1>3. ~ Connected(p, q)'
  BY <1>1, <1>2 DEF Connected, RequestOf
<1>4. \A t \in Peers \ {q} : (Connected(p, t)' <=> Connected(p, t)) /\ (Once(p, t)' <=> Once(p, t))
  BY <1>1 DEF Connected, Once, RequestOf
<1>5. Shrinks(p)
  BY <1>3, <1>4 DEF Shrinks
<1>6. Travels(p)
  BY DEF RelayedTravels
<1>7. CASE ~ Connected(p, q)
  <2>1. reset'[p] = reset[p]
    BY <1>1, <1>7 DEF TypeInv, TypeOK, Requesters
  <2> QED
    BY <1>1, <1>5, <1>6, <2>1, Undisturbed
<1>8. CASE Connected(p, q)
  <2>1. proc[p] = "relay" /\ inbound[p] = <<>> /\ q = next[p]
    BY <1>6, <1>8 DEF Travels
  <2>2. \A t \in Peers : ~ Connected(p, t)'
    BY <1>3, <1>5, <1>6, <2>1 DEF Shrinks, Travels
  <2> QED
    BY <1>1, <2>1, <2>2 DEF Travels
<1> QED
  BY <1>7, <1>8

(* A handler that answers nobody goes back to accept.                      *)
LEMMA FinishTravels ==
  ASSUME TypeInv, RelayedTravels, [Next]_vars, NEW p \in Peers, NEW q \in Peers,
         Finish(q), Sends, proc[q] = "recv", asked'[p] = asked[p], inbound'[p] = inbound[p], reset' = reset
  PROVE  Travels(p)'
<1>1. ASSUME NEW m \in PeerMessage
      PROVE  Message(m) \in Connection \ {RequestOf(p)}
  BY DEF Message, RequestOf, Connection, MessageConnection
<1>2. UNCHANGED backlog \/ \E t \in Peers, connection \in Connection \ {RequestOf(p)} : setup_as_client(t, connection)
  BY <1>1 DEF Sends, direct_send
<1>3. serving' = [serving EXCEPT ![q] = NULL] /\ (proc[p] = "relay" => proc'[p] = "relay")
  BY DEF Finish, TypeInv, TypeOK
<1>4. proc[p] = "relay" => next'[p] = next[p]
  BY NeighboursChange DEF Keeps
<1> QED
  BY <1>2, <1>3, <1>4, OthersShrink, Undisturbed DEF RelayedTravels

(* The responsible peer answers: the request is no longer anywhere.        *)
LEMMA RespondTravels ==
  ASSUME TypeInv, RelayedTravels, NEW p \in Peers, NEW q \in Peers, respond_as_responsible_peer(q)
  PROVE  Travels(p)'
<1>1. HandlesRequest(q) /\ Finish(q)
  BY DEF respond_as_responsible_peer, Responsible
<1>2. serving[q] = RequestOf(ClientOf(q)) /\ ClientOf(q) \in Requesters /\ Connected(ClientOf(q), q)
  BY <1>1, HandledRequest, ServedConnection
<1>3. /\ UNCHANGED <<backlog, next, asked, reset>>
      /\ serving' = [serving EXCEPT ![q] = NULL]
      /\ proc[p] = "relay" => proc'[p] = "relay"
  BY <1>1 DEF respond_as_responsible_peer, Finish, ring, HandlesRequest, TypeInv, TypeOK
<1>4. Travels(p) /\ Shrinks(p)
  BY <1>3, OthersShrink DEF RelayedTravels
<1>5. CASE ClientOf(q) # p
  <2>1. inbound'[p] = inbound[p]
    BY <1>5 DEF respond_as_responsible_peer, TypeInv, TypeOK, Requesters
  <2> QED
    BY <1>3, <1>4, <2>1, Undisturbed
<1>6. CASE ClientOf(q) = p
  <2>1. proc[p] = "relay" /\ ~ reset[p] /\ q = next[p] /\ Once(p, q)
    BY <1>2, <1>4, <1>6 DEF Travels
  <2>2. RequestOf(p) \notin ToSet(backlog'[q]) /\ serving'[q] # RequestOf(p)
    <3>1. NULL # RequestOf(p)
      BY PeerAssumption DEF RequestOf, Connection, RequestConnection, Requesters
    <3> QED
      BY <1>2, <1>3, <1>6, <2>1, <3>1 DEF Once, TypeInv, TypeOK
  <2>3. \A t \in Peers : ~ Connected(p, t)'
    BY <1>4, <2>1, <2>2 DEF Shrinks, Travels, Connected, RequestOf
  <2> QED
    BY <1>3, <2>1, <2>3 DEF Travels
<1> QED
  BY <1>5, <1>6

(* A request starts to travel.                                             *)
LEMMA RelayTravels ==
  ASSUME TypeInv, RelayedTravels, NEW p \in Peers, NEW q \in Peers, RelayRequest(q)
  PROVE  Travels(p)'
<1>1. HandlesRequest(q) /\ NextResponsible(q)
  BY DEF RelayRequest, NextResponsible
<1>2. /\ next[q] \in Peers /\ RequestAt(q) \in Request
      /\ RequestOf(q) \in Connection
      /\ Hash[RequestAt(q).key] < Id[next[q]]
      /\ proc[q] = "recv"
  BY <1>1, NextKnown, HandledRequest DEF HandlesRequest, RequestOf, Connection, RequestConnection,
     Requesters, NextResponsible, id_is_between, in_range, RequestHash
<1>3. /\ setup_as_client(next[q], RequestOf(q))
      /\ UNCHANGED <<serving, next, inbound, reset>>
      /\ asked' = [asked EXCEPT ![q] = RequestAt(q)]
      /\ proc' = [proc EXCEPT ![q] = "relay"]
  BY DEF RelayRequest, ring
<1>4. Travels(p)
  BY DEF RelayedTravels
<1>5. CASE p # q
  <2>1. RequestOf(q) # RequestOf(p)
    BY <1>5 DEF RequestOf
  <2>2. Shrinks(p)
    BY <1>2, <1>3, <2>1, OthersShrink
  <2>3. proc'[p] = proc[p] /\ asked'[p] = asked[p] /\ next'[p] = next[p]
    BY <1>3, <1>5 DEF TypeInv, TypeOK, Requesters
  <2> QED
    BY <1>3, <1>4, <2>2, <2>3, Undisturbed
<1>6. CASE p = q
  <2>1. inbound[p] = <<>> /\ ~ reset[p] /\ \A t \in Peers : ~ Connected(p, t)
    BY <1>2, <1>4, <1>6 DEF Travels
  <2>2. proc'[p] = "relay" /\ asked'[p] = RequestAt(p)
    BY <1>3, <1>6 DEF TypeInv, TypeOK, Requesters
  <2>3. ASSUME NEW t \in Peers, Connected(p, t)'
        PROVE  t = next[p] /\ Once(p, t)'
    <3>1. RequestOf(p) \notin ToSet(backlog[t]) /\ serving[t] # RequestOf(p) /\ backlog[t] \in Seq(Connection)
      BY <2>1 DEF Connected, TypeInv, TypeOK
    <3>2. serving'[t] # RequestOf(p)
      BY <1>3, <3>1
    <3>3. \/ backlog'[t] = backlog[t]
          \/ t = next[p] /\ backlog'[t] = Append(backlog[t], RequestOf(p))
      BY <1>3, <1>6 DEF setup_as_client, TypeInv, TypeOK
    <3>4. backlog'[t] # backlog[t]
      BY <2>3, <3>1, <3>2 DEF Connected, RequestOf
    <3>5. Single(RequestOf(p), backlog'[t])
      BY <1>2, <1>6, <3>1, <3>3, <3>4, AppendFacts
    <3> QED
      BY <3>2, <3>3, <3>4, <3>5 DEF Once, RequestOf
  <2> QED
    BY <1>2, <1>3, <1>6, <2>1, <2>2, <2>3 DEF Travels
<1> QED
  BY <1>5, <1>6

(* The wait in redirect ends.                                              *)
LEMMA RedirectTravels ==
  ASSUME TypeInv, RelayedTravels, SingleHop, NEW p \in Peers, NEW q \in Peers, redirect(q)
  PROVE  Travels(p)'
<1>1. proc[q] = "relay" /\ ClientOf(q) \in Clients /\ ClientOf(q) \notin Peers
  BY PeerAssumption DEF redirect, RelayAnswer, RelayReset, SingleHop
<1>2. /\ UNCHANGED <<backlog, next>>
      /\ serving' = [serving EXCEPT ![q] = NULL]
      /\ proc' = [proc EXCEPT ![q] = "accept"]
      /\ asked' = [asked EXCEPT ![q] = NULL]
  BY DEF redirect, RelayAnswer, RelayReset, Finish, ring
<1>3. Travels(p) /\ Shrinks(p)
  BY <1>2, OthersShrink DEF RelayedTravels
<1>4. CASE p # q
  <2>1. inbound'[p] = inbound[p] /\ reset'[p] = reset[p]
    BY <1>1, <1>4 DEF redirect, RelayAnswer, RelayReset, TypeInv, TypeOK, Requesters
  <2>2. proc'[p] = proc[p] /\ asked'[p] = asked[p]
    BY <1>2, <1>4 DEF TypeInv, TypeOK, Requesters
  <2> QED
    BY <1>2, <1>3, <2>1, <2>2, Undisturbed
<1>5. CASE p = q
  <2>1. inbound'[p] = <<>> /\ ~ reset'[p] /\ \A t \in Peers : ~ Connected(p, t)
    <3>1. CASE RelayAnswer(q)
      <4>1. PICK n \in 1 .. Len(inbound[p]) :
              inbound' = [inbound EXCEPT ![ClientOf(p)] = @ \o SubSeq(inbound[p], 1, n), ![p] = <<>>]
        BY <1>5, <3>1 DEF RelayAnswer
      <4>2. inbound[p] # <<>> /\ reset' = reset
        BY <1>5, <3>1, <4>1 DEF RelayAnswer, TypeInv, TypeOK, Requesters
      <4> QED
        BY <1>3, <4>1, <4>2 DEF Travels, TypeInv, TypeOK, Requesters
    <3>2. CASE RelayReset(q)
      BY <1>1, <1>3, <1>5, <3>2 DEF RelayReset, Travels, TypeInv, TypeOK, Requesters
    <3> QED
      BY <3>1, <3>2 DEF redirect
  <2> QED
    BY <1>3, <2>1 DEF Travels, Shrinks
<1> QED
  BY <1>4, <1>5

(* Every other handler.                                                    *)
LEMMA HandlerTravels ==
  ASSUME TypeInv, RelayedTravels, [Next]_vars, NEW p \in Peers, NEW q \in Peers,
         ReceiveEOF(q) \/ receive_handler(q), ~ RelayRequest(q), ~ respond_as_responsible_peer(q)
  PROVE  Travels(p)'
<1>1. proc[q] = "recv" /\ asked' = asked
  BY DEF ReceiveEOF, receive_handler, HandleMessageFault, HandleIgnored, HandleFirstJoin, HandleJoin,
         HandleNotify, HandleStabilize, HandleLookup, HandleRequestFault, HandleBrokenPipe, RelayUnreachable,
         HandleUnknownResponsible, Handles, HandlesRequest, Responsible, NextResponsible, requesters
<1>2. inbound'[p] = inbound[p]
  <2>1. CASE HandleBrokenPipe(q) \/ RelayUnreachable(q)
    <3>1. ClientOf(q) \in Clients
      BY <2>1, RelayedFromClient DEF HandleBrokenPipe, RelayUnreachable
    <3>2. ClientOf(q) # p
      BY <3>1, PeerAssumption
    <3> QED
      BY <2>1, <3>2 DEF HandleBrokenPipe, RelayUnreachable, TypeInv, TypeOK, Requesters
  <2>2. CASE ~ HandleBrokenPipe(q) /\ ~ RelayUnreachable(q)
    BY <2>2 DEF ReceiveEOF, receive_handler, HandleMessageFault, HandleIgnored, HandleFirstJoin, HandleJoin,
         HandleNotify, HandleStabilize, HandleLookup, HandleRequestFault, HandleUnknownResponsible, requesters
  <2> QED
    BY <2>1, <2>2
<1>3. CASE \/ ReceiveEOF(q) \/ HandleMessageFault(q) \/ HandleRequestFault(q) \/ HandleBrokenPipe(q)
  <2>1. Crash(q) /\ next' = next
    BY <1>3 DEF ReceiveEOF, HandleMessageFault, HandleRequestFault, HandleBrokenPipe, ring
  <2> QED
    BY <1>1, <1>2, <2>1, CrashTravels
<1>4. CASE ~ (ReceiveEOF(q) \/ HandleMessageFault(q) \/ HandleRequestFault(q) \/ HandleBrokenPipe(q))
  <2>1. Finish(q) /\ reset' = reset
    BY <1>4 DEF receive_handler, HandleIgnored, HandleFirstJoin, HandleJoin,
         HandleNotify, HandleStabilize, HandleLookup, RelayUnreachable, HandleUnknownResponsible, requesters
  <2>2. Sends \/ Crash(q)
    BY HandlerShape
  <2>3. ~ Crash(q)
    BY <1>1, <2>1 DEF Finish, Crash, TypeInv, TypeOK
  <2> QED
    BY <1>1, <1>2, <2>1, <2>2, <2>3, FinishTravels
<1> QED
  BY <1>3, <1>4

LEMMA RelayedTravelsStep ==
  ASSUME TypeInv, RelayedTravels, SingleHop, [Next]_vars
  PROVE  RelayedTravels'
<1> SUFFICES ASSUME NEW p \in Peers PROVE Travels(p)'
  BY DEF RelayedTravels
<1>1. CASE UNCHANGED vars
  <2>1. Travels(p)
    BY DEF RelayedTravels
  <2> QED
    BY <1>1, <2>1 DEF vars, ring, requesters, Travels, Connected, Once, RequestOf
<1>2. ASSUME NEW q \in Peers, Listen(q) \/ PeerStep(q) \/ Inject(q)
      PROVE  Travels(p)'
  BY <1>2, QuietTravels, AcceptTravels, RelayTravels, RespondTravels, RedirectTravels, HandlerTravels
     DEF PeerStep
<1>3. ASSUME NEW c \in Clients, ClientSend(c) \/ ClientAbort(c) \/ \E q \in Peers : ClientConnect(c, q)
      PROVE  Travels(p)'
  BY <1>3, ClientTravels
<1> QED
  BY <1>1, <1>2, <1>3 DEF Next

(* ... and a relayed request is a client's.                                *)
LEMMA SingleHopStep ==
  ASSUME TypeInv, RelayedTravels, SingleHop, [Next]_vars
  PROVE  SingleHop'
<1> SUFFICES ASSUME NEW p \in Peers, proc'[p] = "relay"
             PROVE  ClientOf(p)' \in Clients
  BY DEF SingleHop
<1>1. CASE proc[p] = "relay" /\ serving'[p] = serving[p]
  BY <1>1 DEF SingleHop, ClientOf
<1>2. CASE RelayRequest(p)
  BY <1>2, RelayedFromClient DEF RelayRequest, ClientOf
<1> QED
  BY <1>1, <1>2, IntoRelay

(* Where nobody has sent anything yet, nothing is on its way.              *)
LEMMA NothingTravels ==
  ASSUME \A p \in Peers :
           /\ proc[p] # "relay" /\ backlog[p] = <<>> /\ serving[p] = NULL
           /\ inbound[p] = <<>> /\ ~ reset[p]
  PROVE  RelayedTravels /\ SingleHop
<1>1. SingleHop
  BY DEF SingleHop
<1>2. ASSUME NEW p \in Peers
      PROVE  Travels(p)
  <2>1. ToSet(<< >>) = {} /\ NULL # RequestOf(p)
    BY PeerAssumption DEF ToSet, RequestOf, Connection, RequestConnection, Requesters
  <2> QED
    BY <2>1 DEF Travels, Connected, RequestOf, Requesters
<1> QED
  BY <1>1, <1>2 DEF RelayedTravels

(* A request is relayed once: the peer it reaches never relays it on.      *)
THEOREM RelayedOnce == Spec => []SingleHop
<1>1. Init => RelayedTravels /\ SingleHop
  BY NothingTravels DEF Init, Requesters
<1> QED
  BY <1>1, SingleHopStep, RelayedTravelsStep, TypeInvariant, PTL DEF Spec

==============================================================================
