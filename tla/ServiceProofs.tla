---------------------------- MODULE ServiceProofs ----------------------------
(***************************************************************************)
(* The ring implements one key-value table (KeyValueService), for any      *)
(* number of peers, clients, keys and values.                              *)
(***************************************************************************)
EXTENDS RingProofs

(* What the service speaks of: a request has one operation.                *)
SingleOperations == \A r \in Requests : \E op \in Operations : r.ops = {op}

-----------------------------------------------------------------------------
(* The inductive invariant, on top of the ring's.                          *)

(* A client's connection is at one peer, once, and nothing has been sent   *)
(* on it.                                                                  *)
Exclusive ==
  \A c \in Clients, p \in Peers :
    Connected(c, p) =>
      /\ cstate[c] # "idle"
      /\ inbound[c] = <<>>
      /\ AtMostOne({RequestOf(c)}, p)
      /\ \A q \in Peers : Connected(c, q) => q = p

(* A client that has sent nothing is sent nothing, and asks nothing.       *)
Unsent ==
  \A c \in Clients :
    /\ cstate[c] = "idle" => inbound[c] = <<>>
    /\ cstate[c] \in {"idle", "refused", "connected"} => asked[c] = NULL

(* One request is asked on a connection, and one answer comes back on it.  *)
OneAnswer == \A x \in Requesters : asked[x] \in Requests \union {NULL} /\ Len(inbound[x]) <= 1

(* What a peer asks for a client is what the client asked.                 *)
Relaying == \A p \in Peers : proc[p] = "relay" => asked[p] # NULL /\ asked[p] = asked[ClientOf(p)]

(* A process that was never started stores nothing.                        *)
Fresh == \A p \in Peers : proc[p] = "down" => store[p] = EmptyTable

ServiceInv == Exclusive /\ Unsent /\ OneAnswer /\ Relaying /\ Fresh

(* All that is known of a state.                                           *)
Invariants == TypeInv /\ RelayedTravels /\ SingleHop /\ RingInv /\ ServiceInv

-----------------------------------------------------------------------------
(* Requests of one operation.                                              *)

LEMMA EmptyAnswers ==
  /\ << >> \in Seq(Answer) /\ Len(<< >>) = 0
  /\ \A a \in Answer : <<a>> \o << >> = <<a>> /\ << >> \o <<a>> = <<a>>
  /\ << >> \o << >> = << >>
OBVIOUS

(* What respond_as_responsible_peer does for each of them (peer.c:18-67).  *)
LEMMA OneOperation ==
  ASSUME SingleOperations, NEW r \in Requests, NEW table \in Table
  PROVE  /\ r.key \in Keys /\ r.value \in Values \union {NULL}
         /\ \/ /\ r.ops = {"get"}
               /\ Answers(table, r) = <<[op |-> "get", value |-> table[r.key]]>>
               /\ After(table, r) = table
            \/ /\ r.ops = {"set"}
               /\ Answers(table, r) = <<[op |-> "set", value |-> NULL]>>
               /\ After(table, r) = [table EXCEPT ![r.key] = r.value]
            \/ /\ r.ops = {"delete"}
               /\ Answers(table, r) = <<[op |-> "delete", value |-> NULL]>>
               /\ After(table, r) = [table EXCEPT ![r.key] = NULL]
<1>1. r \in Request
  BY PeerAssumption
<1>2. r.key \in Keys /\ r.value \in Values \union {NULL} /\ table[r.key] \in Values \union {NULL}
  BY <1>1 DEF Request, Table
<1>3. PICK op \in Operations : r.ops = {op}
  BY DEF SingleOperations
<1>4. \A o \in Operations, v \in Values \union {NULL} : [op |-> o, value |-> v] \in Answer
  BY DEF Answer
<1>5. CASE op = "get"
  <2>1. /\ Says(r, "get", get(table, r.key)) = <<[op |-> "get", value |-> table[r.key]]>>
        /\ Says(r, "set", NULL) = << >> /\ Says(r, "delete", NULL) = << >>
    BY <1>3, <1>5 DEF Says, get
  <2>2. After(table, r) = table
    BY <1>3, <1>5 DEF After, AfterSet
  <2>3. Answers(table, r) = <<[op |-> "get", value |-> table[r.key]]>>
    BY <1>2, <1>4, <2>1, EmptyAnswers DEF Answers, Operations
  <2> QED
    BY <1>2, <1>3, <1>5, <2>2, <2>3
<1>6. CASE op = "set"
  <2>1. /\ Says(r, "get", get(table, r.key)) = << >>
        /\ Says(r, "set", NULL) = <<[op |-> "set", value |-> NULL]>> /\ Says(r, "delete", NULL) = << >>
    BY <1>3, <1>6 DEF Says
  <2>2. ~ Misses(table, r)
    BY <1>3, <1>6 DEF Misses
  <2>3. After(table, r) = [table EXCEPT ![r.key] = r.value]
    BY <1>3, <1>6, <2>2 DEF After, AfterSet, set
  <2>4. Answers(table, r) = <<[op |-> "set", value |-> NULL]>>
    BY <1>2, <1>4, <2>1, <2>2, EmptyAnswers DEF Answers, Operations
  <2> QED
    BY <1>2, <1>3, <1>6, <2>3, <2>4
<1>7. CASE op = "delete"
  <2>1. /\ Says(r, "get", get(table, r.key)) = << >>
        /\ Says(r, "set", NULL) = << >> /\ Says(r, "delete", NULL) = <<[op |-> "delete", value |-> NULL]>>
    BY <1>3, <1>7 DEF Says
  <2>2. ~ Misses(table, r)
    BY <1>3, <1>7 DEF Misses
  <2>3. After(table, r) = [table EXCEPT ![r.key] = NULL]
    BY <1>3, <1>7, <2>2 DEF After, AfterSet, delete_element
  <2>4. Answers(table, r) = <<[op |-> "delete", value |-> NULL]>>
    BY <1>2, <1>4, <2>1, <2>2, EmptyAnswers DEF Answers, Operations
  <2> QED
    BY <1>2, <1>3, <1>7, <2>3, <2>4
<1> QED
  BY <1>5, <1>6, <1>7 DEF Operations

(* ... one answer, which is no garbage.                                    *)
LEMMA OneAnswerEach ==
  ASSUME SingleOperations, NEW r \in Requests, NEW table \in Table
  PROVE  \E a \in Answer \ {GarbageAnswer} : Answers(table, r) = <<a>>
<1>1. r.key \in Keys
  BY OneOperation
<1>2. table[r.key] \in Values \union {NULL}
  BY <1>1 DEF Table
<1>3. \A o \in Operations, v \in Values \union {NULL} : [op |-> o, value |-> v] \in Answer \ {GarbageAnswer}
  <2>1. \A o \in Operations, v \in Values \union {NULL} :
          [op |-> o, value |-> v] \in [op : Operations, value : Values \union {NULL}]
    OBVIOUS
  <2> QED
    BY <2>1, PeerAssumption DEF Answer
<1> QED
  BY <1>2, <1>3, OneOperation DEF Operations

-----------------------------------------------------------------------------
(* What a step does to requests, answers and tables.                       *)

LEMMA StepEffects ==
  ASSUME TypeInv, [Next]_vars
  PROVE  \/ UNCHANGED <<asked, inbound, store>>
         \/ \E p \in Peers :
              \/ Listen(p) \/ respond_as_responsible_peer(p) \/ HandleBrokenPipe(p)
              \/ RelayRequest(p) \/ RelayUnreachable(p) \/ RelayAnswer(p) \/ RelayReset(p)
         \/ \E c \in Clients : ClientSend(c)
<1>1. ASSUME NEW p \in Peers, PeerStep(p) \/ Inject(p)
      PROVE  \/ UNCHANGED <<asked, inbound, store>>
             \/ respond_as_responsible_peer(p) \/ HandleBrokenPipe(p)
             \/ RelayRequest(p) \/ RelayUnreachable(p) \/ RelayAnswer(p) \/ RelayReset(p)
  BY <1>1 DEF PeerStep, receive_handler, redirect, Enter, get_new_connection, Inject, ReceiveEOF,
     HandleMessageFault, HandleIgnored, HandleFirstJoin, HandleJoin, HandleNotify, HandleStabilize,
     HandleLookup, HandleRequestFault, HandleUnknownResponsible, requesters
<1>2. ASSUME NEW c \in Clients, ClientAbort(c) \/ \E p \in Peers : ClientConnect(c, p)
      PROVE  UNCHANGED <<asked, inbound, store>>
  BY <1>2 DEF ClientAbort, ClientConnect, requesters
<1>3. UNCHANGED vars => UNCHANGED <<asked, inbound, store>>
  BY DEF vars, requesters
<1> QED
  BY <1>1, <1>2, <1>3 DEF Next

(* What redirect's one recv returns of one answer.                         *)
LEMMA OneReceived ==
  ASSUME NEW sent \in Seq(Answer), Len(sent) <= 1, NEW n \in 1 .. Len(sent)
  PROVE  SubSeq(sent, 1, n) = <<sent[1]>> /\ sent = <<sent[1]>> /\ sent[1] \in Answer
<1>1. n = 1 /\ Len(sent) = 1 /\ sent[1] \in Answer
  <2>1. Len(sent) \in Nat
    OBVIOUS
  <2>2. \A len \in Nat : len <= 1 /\ n \in 1 .. len => n = 1 /\ len = 1
    OBVIOUS
  <2>3. n = 1 /\ Len(sent) = 1
    BY <2>1, <2>2
  <2> QED
    BY <2>3
<1>2. sent \in [1 .. 1 -> Answer] /\ sent = [i \in 1 .. 1 |-> sent[i]]
  BY <1>1
<1>3. SubSeq(sent, 1, 1) = [i \in 1 .. 1 |-> sent[i]]
  BY <1>1
<1>4. [i \in 1 .. 1 |-> sent[i]] = <<sent[1]>>
  OBVIOUS
<1> QED
  BY <1>1, <1>2, <1>3, <1>4

(* Whoever has been accepted has not been answered, and is not the peer    *)
(* that serves it.                                                         *)
LEMMA Unanswered ==
  ASSUME Invariants, NEW p \in Peers, serving[p] \in RequestConnection
  PROVE  /\ serving[p] = RequestOf(ClientOf(p))
         /\ ClientOf(p) \in Requesters
         /\ ClientOf(p) # p
         /\ inbound[ClientOf(p)] = <<>>
         /\ ClientOf(p) \in Clients => Connected(ClientOf(p), p)
         /\ ClientOf(p) \in Peers => proc[ClientOf(p)] = "relay"
<1> DEFINE x == ClientOf(p)
<1>1. serving[p] = RequestOf(x) /\ x \in Requesters /\ Connected(x, p)
  BY ServedConnection DEF Invariants
<1>2. CASE x \in Clients
  BY <1>1, <1>2, PeerAssumption DEF Invariants, ServiceInv, Exclusive
<1>3. CASE x \in Peers
  <2>1. proc[x] = "relay" /\ inbound[x] = <<>>
    BY <1>1, <1>3 DEF Invariants, RelayedTravels, Travels
  <2>2. x # p
    BY <1>3, <2>1, PeerAssumption DEF Invariants, SingleHop
  <2> QED
    BY <1>1, <1>3, <2>1, <2>2, PeerAssumption
<1> QED
  BY <1>1, <1>2, <1>3 DEF Requesters

(* The request being handled is one a client sent.                         *)
LEMMA HandledIsRequest ==
  ASSUME Invariants, NEW p \in Peers, HandlesRequest(p)
  PROVE  /\ serving[p] \in RequestConnection
         /\ ClientOf(p) \in Requesters
         /\ RequestAt(p) \in Requests
         /\ store[p] \in Table
<1>1. serving[p] \in RequestConnection /\ ClientOf(p) \in Requesters
  BY HandledRequest DEF Invariants
<1> QED
  BY <1>1 DEF HandlesRequest, RequestAt, Invariants, ServiceInv, OneAnswer, TypeInv, TypeOK

LEMMA NoBrokenPipe ==
  ASSUME Invariants, SingleOperations, NEW p \in Peers
  PROVE  ~ HandleBrokenPipe(p)
<1> SUFFICES ASSUME HandleBrokenPipe(p) PROVE FALSE
  OBVIOUS
<1>1. RequestAt(p) \in Requests /\ store[p] \in Table
  BY HandledIsRequest DEF HandleBrokenPipe, Responsible
<1>2. PICK a \in Answer : Answers(store[p], RequestAt(p)) = <<a>>
  BY <1>1, OneAnswerEach
<1> QED
  BY <1>2 DEF HandleBrokenPipe

(* An answer to x arrives once, and then x is not served any more.         *)
LEMMA Delivered ==
  ASSUME Invariants, SingleOperations, [Next]_vars, NEW x \in Requesters
  PROVE  \/ inbound'[x] = inbound[x]
         \/ inbound'[x] = <<>> /\ x \notin Clients
         \/ \E p \in Peers :
              /\ serving[p] = RequestOf(x)
              /\ Finish(p)
              /\ UNCHANGED backlog
              /\ inbound[x] = <<>>
              /\ \E a \in Answer : inbound'[x] = <<a>>
<1> DEFINE Conclusion ==
      \/ inbound'[x] = inbound[x]
      \/ inbound'[x] = <<>> /\ x \notin Clients
      \/ \E p \in Peers :
           /\ serving[p] = RequestOf(x)
           /\ Finish(p)
           /\ UNCHANGED backlog
           /\ inbound[x] = <<>>
           /\ \E a \in Answer : inbound'[x] = <<a>>
<1>1. TypeOK /\ Requesters = Clients \union Peers /\ Peers \intersect Clients = {}
  BY PeerAssumption DEF Invariants, TypeInv, Requesters
<1>2. UNCHANGED <<asked, inbound, store>> => Conclusion
  OBVIOUS
<1>3. ASSUME NEW c \in Clients, ClientSend(c)
      PROVE  Conclusion
  BY <1>3 DEF ClientSend
<1>4. ASSUME NEW p \in Peers, Listen(p)
      PROVE  Conclusion
  BY <1>1, <1>4 DEF Listen, TypeOK
<1>5. ASSUME NEW p \in Peers, respond_as_responsible_peer(p)
      PROVE  Conclusion
  <2>1. /\ serving[p] \in RequestConnection
        /\ RequestAt(p) \in Requests /\ store[p] \in Table
    BY <1>5, HandledIsRequest DEF respond_as_responsible_peer, Responsible
  <2>2. PICK a \in Answer : Answers(store[p], RequestAt(p)) = <<a>>
    BY <2>1, OneAnswerEach
  <2>3. inbound[ClientOf(p)] = <<>> /\ serving[p] = RequestOf(ClientOf(p)) /\ ClientOf(p) \in Requesters
    BY <2>1, Unanswered
  <2>4. x = ClientOf(p) => inbound'[x] = <<a>>
    BY <1>1, <1>5, <2>2, <2>3, EmptyAnswers DEF respond_as_responsible_peer, TypeOK
  <2>5. x # ClientOf(p) => inbound'[x] = inbound[x]
    BY <1>1, <1>5 DEF respond_as_responsible_peer, TypeOK
  <2> QED
    BY <1>5, <2>3, <2>4, <2>5 DEF respond_as_responsible_peer
<1>6. ASSUME NEW p \in Peers, RelayRequest(p)
      PROVE  Conclusion
  BY <1>6 DEF RelayRequest
<1>7. ASSUME NEW p \in Peers, RelayUnreachable(p)
      PROVE  Conclusion
  <2>1. serving[p] \in RequestConnection
    BY <1>7, HandledIsRequest DEF RelayUnreachable, NextResponsible
  <2>2. inbound[ClientOf(p)] = <<>> /\ serving[p] = RequestOf(ClientOf(p)) /\ ClientOf(p) \in Requesters
    BY <2>1, Unanswered
  <2>3. GarbageAnswer \in Answer /\ Append(<< >>, GarbageAnswer) = <<GarbageAnswer>>
    BY DEF Answer
  <2>4. x = ClientOf(p) => inbound'[x] = <<GarbageAnswer>>
    BY <1>1, <1>7, <2>2, <2>3 DEF RelayUnreachable, TypeOK
  <2>5. x # ClientOf(p) => inbound'[x] = inbound[x]
    BY <1>1, <1>7 DEF RelayUnreachable, TypeOK
  <2> QED
    BY <1>7, <2>2, <2>3, <2>4, <2>5 DEF RelayUnreachable
<1>8. ASSUME NEW p \in Peers, RelayAnswer(p)
      PROVE  Conclusion
  <2>1. serving[p] \in RequestConnection
    BY <1>8 DEF RelayAnswer, Invariants, TypeInv, ServingOK
  <2>2. /\ inbound[ClientOf(p)] = <<>> /\ serving[p] = RequestOf(ClientOf(p)) /\ ClientOf(p) \in Requesters
        /\ ClientOf(p) # p
    BY <2>1, Unanswered
  <2>3. inbound[p] \in Seq(Answer) /\ Len(inbound[p]) <= 1
    BY <1>1 DEF TypeOK, Invariants, ServiceInv, OneAnswer
  <2>4. PICK n \in 1 .. Len(inbound[p]) :
          inbound' = [inbound EXCEPT ![ClientOf(p)] = @ \o SubSeq(inbound[p], 1, n), ![p] = <<>>]
    BY <1>8 DEF RelayAnswer
  <2>5. SubSeq(inbound[p], 1, n) = <<inbound[p][1]>> /\ inbound[p][1] \in Answer
    BY <2>3, <2>4, OneReceived
  <2>6. x = ClientOf(p) => inbound'[x] = <<inbound[p][1]>>
    BY <1>1, <2>2, <2>4, <2>5, EmptyAnswers DEF TypeOK
  <2>7. x # ClientOf(p) /\ x # p => inbound'[x] = inbound[x]
    BY <1>1, <2>4 DEF TypeOK
  <2>8. x = p => inbound'[x] = <<>>
    BY <1>1, <2>2, <2>4 DEF TypeOK
  <2> QED
    BY <1>1, <1>8, <2>2, <2>5, <2>6, <2>7, <2>8 DEF RelayAnswer
<1>9. ASSUME NEW p \in Peers, RelayReset(p)
      PROVE  Conclusion
  <2>1. serving[p] \in RequestConnection
    BY <1>9 DEF RelayReset, Invariants, TypeInv, ServingOK
  <2>2. /\ inbound[ClientOf(p)] = <<>> /\ serving[p] = RequestOf(ClientOf(p)) /\ ClientOf(p) \in Requesters
    BY <2>1, Unanswered
  <2>3. GarbageAnswer \in Answer /\ Append(<< >>, GarbageAnswer) = <<GarbageAnswer>>
    BY DEF Answer
  <2>4. inbound'[x] = inbound[x] \/ (x = ClientOf(p) /\ inbound'[x] = <<GarbageAnswer>>)
    BY <1>1, <1>9, <2>2, <2>3 DEF RelayReset, TypeOK
  <2> QED
    BY <1>9, <2>2, <2>3, <2>4 DEF RelayReset
<1> HIDE DEF Conclusion
<1>10. Conclusion
  BY <1>2, <1>3, <1>4, <1>5, <1>6, <1>7, <1>8, <1>9, StepEffects, NoBrokenPipe DEF Invariants
<1> QED
  BY <1>10 DEF Conclusion

(* A thread leaves redirect with what it received, or with nothing.        *)
LEMMA LeavesRelay ==
  ASSUME TypeInv, [Next]_vars, NEW p \in Peers, proc[p] = "relay"
  PROVE  \/ proc'[p] = "relay" /\ serving'[p] = serving[p]
         \/ redirect(p)
<1>1. UNCHANGED <<proc, serving>> => proc'[p] = "relay" /\ serving'[p] = serving[p]
  OBVIOUS
<1>2. ASSUME NEW q \in Peers, Listen(q) \/ Enter(q) \/ get_new_connection(q) \/ RelayRequest(q)
      PROVE  proc'[p] = "relay" /\ serving'[p] = serving[p]
  BY <1>2 DEF Listen, Enter, get_new_connection, RelayRequest, NextResponsible, HandlesRequest, TypeInv, TypeOK
<1>3. ASSUME NEW q \in Peers, ReceiveEOF(q) \/ receive_handler(q) \/ redirect(q), ~ RelayRequest(q), q # p
      PROVE  proc'[p] = "relay" /\ serving'[p] = serving[p]
  BY <1>3, HandlerShape, FinishType, CrashType
<1>4. ReceiveEOF(p) \/ receive_handler(p) => FALSE
  BY DEF ReceiveEOF, receive_handler, HandleMessageFault, HandleIgnored, HandleFirstJoin,
     HandleJoin, HandleNotify, HandleStabilize, HandleLookup, HandleRequestFault, Handles,
     respond_as_responsible_peer, HandleBrokenPipe, RelayRequest, RelayUnreachable,
     HandleUnknownResponsible, Responsible, NextResponsible, HandlesRequest
<1>5. ASSUME NEW c \in Clients, ClientSend(c) \/ ClientAbort(c) \/ \E q \in Peers : ClientConnect(c, q)
      PROVE  UNCHANGED <<proc, serving>>
  BY <1>5 DEF ClientSend, ClientAbort, ClientConnect
<1>6. ASSUME NEW q \in Peers, Inject(q)
      PROVE  UNCHANGED <<proc, serving>>
  BY <1>6 DEF Inject
<1>7. UNCHANGED vars => UNCHANGED <<proc, serving>>
  BY DEF vars
<1> QED
  BY <1>1, <1>2, <1>3, <1>4, <1>5, <1>6, <1>7 DEF Next, PeerStep

-----------------------------------------------------------------------------
(* The parts of the invariant.                                             *)

(* Who is connected after a step was connected before, or just connected.  *)
LEMMA ConnectedStep ==
  ASSUME Invariants, [Next]_vars, NEW c \in Clients, NEW p \in Peers, Connected(c, p)'
  PROVE  \/ /\ Connected(c, p)
            /\ AtMostOne({RequestOf(c)}, p)'
         \/ /\ ClientConnect(c, p)
            /\ cstate[c] = "idle"
            /\ \A q \in Peers : ~ Connected(c, q)
            /\ AtMostOne({RequestOf(c)}, p)'
<1>1. /\ TypeInv /\ RingInv /\ c \in Requesters /\ c \notin Peers
      /\ RequestOf(c) \in Connection /\ {RequestOf(c)} \in SUBSET Connection
  BY PeerAssumption DEF Invariants, RequestOf, Connection, RequestConnection, Requesters
<1>2. CASE NoGain({RequestOf(c)}, p)
  <2>1. Connected(c, p)
    BY <1>1, <1>2, NoMore DEF Connected, At
  <2>2. AtMostOne({RequestOf(c)}, p)
    BY <2>1 DEF Invariants, ServiceInv, Exclusive
  <2> QED
    BY <1>1, <1>2, <2>1, <2>2, NoMore
<1>3. CASE Connected(c, p) /\ ~ NoGain({RequestOf(c)}, p)
  <2>1. PICK t \in Peers : ClientConnect(c, t) /\ cstate[c] = "idle"
    BY <1>1, <1>3, RequestGain
  <2> QED
    BY <1>3, <2>1 DEF Invariants, ServiceInv, Exclusive
<1>4. CASE ~ Connected(c, p) /\ ~ NoGain({RequestOf(c)}, p)
  <2>1. PICK t \in Peers : ClientConnect(c, t) /\ cstate[c] = "idle"
    BY <1>1, <1>4, RequestGain
  <2>2. \A q \in Peers : ~ Connected(c, q)
    BY <2>1 DEF Invariants, ServiceInv, Exclusive
  <2>3. UNCHANGED serving /\ setup_as_client(t, RequestOf(c))
    BY <2>1 DEF ClientConnect
  <2>4. t = p /\ backlog'[p] = Append(backlog[p], RequestOf(c))
    <3>1. backlog'[p] = backlog[p] \/ (t = p /\ backlog'[p] = Append(backlog[p], RequestOf(c)))
      BY <1>1, <2>3 DEF setup_as_client, TypeInv, TypeOK
    <3> QED
      BY <1>4, <2>3, <3>1 DEF Connected
  <2>5. AtMostOne({RequestOf(c)}, p)'
    <3>1. \A d \in At(p) : d \notin {RequestOf(c)}
      BY <1>4 DEF At, Connected
    <3> QED
      BY <1>1, <2>3, <2>4, <3>1, FirstOne
  <2> QED
    BY <2>1, <2>2, <2>4, <2>5
<1> QED
  BY <1>2, <1>3, <1>4

(* A client that is still connected has been sent nothing.                 *)
LEMMA StillUnanswered ==
  ASSUME Invariants, SingleOperations, [Next]_vars, NEW c \in Clients, NEW p \in Peers,
         Connected(c, p), Connected(c, p)'
  PROVE  inbound'[c] = <<>>
<1>1. inbound[c] = <<>> /\ c \in Requesters
  BY DEF Invariants, ServiceInv, Exclusive, Requesters
<1>2. ASSUME NEW q \in Peers, serving[q] = RequestOf(c), Finish(q), UNCHANGED backlog
      PROVE  FALSE
  <2>1. Connected(c, q)
    BY <1>2 DEF Connected
  <2>2. p = q
    BY <2>1 DEF Invariants, ServiceInv, Exclusive
  <2>3. RequestOf(c) \notin ToSet(backlog[q])
    BY <1>2, <2>1 DEF Invariants, ServiceInv, Exclusive, AtMostOne
  <2>4. serving'[q] = NULL /\ NULL # RequestOf(c)
    BY <1>2, FinishType, PeerAssumption DEF Invariants, RequestOf, Connection, RequestConnection, Requesters
  <2> QED
    BY <1>2, <2>2, <2>3, <2>4 DEF Connected, RequestOf
<1> QED
  BY <1>1, <1>2, Delivered

LEMMA ExclusiveStep ==
  ASSUME Invariants, SingleOperations, [Next]_vars
  PROVE  Exclusive'
<1> SUFFICES ASSUME NEW c \in Clients, NEW p \in Peers, Connected(c, p)'
             PROVE  /\ cstate'[c] # "idle"
                    /\ inbound'[c] = <<>>
                    /\ AtMostOne({RequestOf(c)}, p)'
                    /\ \A q \in Peers : Connected(c, q)' => q = p
  BY DEF Exclusive, RequestOf
<1>1. CASE Connected(c, p)
  <2>1. cstate[c] # "idle" /\ \A q \in Peers : Connected(c, q) => q = p
    BY <1>1 DEF Invariants, ServiceInv, Exclusive
  <2>2. cstate'[c] # "idle"
    BY <2>1, ClientStep DEF Invariants
  <2>3. \A q \in Peers : Connected(c, q)' => q = p
    BY <2>1, ConnectedStep
  <2> QED
    BY <1>1, <2>1, <2>2, <2>3, ConnectedStep, StillUnanswered
<1>2. CASE ClientConnect(c, p) /\ cstate[c] = "idle" /\ \A q \in Peers : ~ Connected(c, q)
  <2>1. cstate'[c] # "idle"
    BY <1>2, ClientStep DEF Invariants
  <2>2. inbound'[c] = <<>>
    BY <1>2 DEF ClientConnect, requesters, Invariants, ServiceInv, Unsent
  <2>3. ASSUME NEW q \in Peers, Connected(c, q)', q # p
        PROVE  FALSE
    <3>1. backlog'[q] = backlog[q] /\ serving'[q] = serving[q]
      BY <1>2, <2>3 DEF ClientConnect, setup_as_client, Invariants, TypeInv, TypeOK
    <3> QED
      BY <1>2, <2>3, <3>1 DEF Connected, RequestOf
  <2> QED
    BY <1>2, <2>1, <2>2, <2>3, ConnectedStep
<1> QED
  BY <1>1, <1>2, ConnectedStep

(* A client's request changes when it is sent.                             *)
LEMMA ClientAsked ==
  ASSUME TypeInv, [Next]_vars, NEW c \in Clients
  PROVE  asked'[c] = asked[c] \/ ClientSend(c)
<1>1. c \in Requesters /\ c \notin Peers
  BY PeerAssumption DEF Requesters
<1>2. ASSUME NEW p \in Peers, Listen(p) \/ respond_as_responsible_peer(p) \/ HandleBrokenPipe(p)
               \/ RelayRequest(p) \/ RelayUnreachable(p) \/ RelayAnswer(p) \/ RelayReset(p)
      PROVE  asked'[c] = asked[c]
  BY <1>1, <1>2 DEF Listen, respond_as_responsible_peer, HandleBrokenPipe, RelayRequest, RelayUnreachable,
     RelayAnswer, RelayReset, TypeInv, TypeOK
<1>3. ASSUME NEW d \in Clients, ClientSend(d)
      PROVE  asked'[c] = asked[c] \/ ClientSend(c)
  BY <1>1, <1>3 DEF ClientSend, TypeInv, TypeOK
<1> QED
  BY <1>1, <1>2, <1>3, StepEffects

LEMMA UnsentStep ==
  ASSUME Invariants, SingleOperations, [Next]_vars
  PROVE  Unsent'
<1> SUFFICES ASSUME NEW c \in Clients
             PROVE  /\ cstate'[c] = "idle" => inbound'[c] = <<>>
                    /\ cstate'[c] \in {"idle", "refused", "connected"} => asked'[c] = NULL
  BY DEF Unsent
<1>1. c \in Requesters /\ c \notin Peers /\ TypeInv
  BY PeerAssumption DEF Requesters, Invariants
<1>2. /\ cstate[c] = "idle" => inbound[c] = <<>>
      /\ cstate[c] \in {"idle", "refused", "connected"} => asked[c] = NULL
  BY DEF Invariants, ServiceInv, Unsent
<1>3. ASSUME cstate'[c] = "idle"
      PROVE  inbound'[c] = <<>>
  <2>1. cstate[c] = "idle"
    BY <1>1, <1>3, ClientStep
  <2>2. \A p \in Peers : ~ Connected(c, p)
    BY <2>1 DEF Invariants, ServiceInv, Exclusive
  <2> QED
    BY <1>1, <1>2, <2>1, <2>2, Delivered DEF Connected
<1>4. asked'[c] = asked[c] \/ ClientSend(c)
  BY <1>1, ClientAsked
<1>5. cstate'[c] \in {"idle", "refused", "connected"} =>
        cstate[c] \in {"idle", "refused", "connected"} /\ ~ ClientSend(c)
  <2>1. ASSUME NEW d \in Clients, ClientSend(d) \/ ClientAbort(d) \/ \E p \in Peers : ClientConnect(d, p)
        PROVE  cstate'[c] \in {"idle", "refused", "connected"} => cstate[c] \in {"idle", "refused", "connected"}
    BY <1>1, <2>1 DEF ClientSend, ClientAbort, ClientConnect, TypeInv, TypeOK
  <2>2. ClientSend(c) => cstate'[c] = "waiting"
    BY <1>1 DEF ClientSend, TypeInv, TypeOK
  <2> QED
    BY <2>1, <2>2, ClientsChange, <1>1
<1> QED
  BY <1>2, <1>3, <1>4, <1>5

LEMMA OneAnswerStep ==
  ASSUME Invariants, SingleOperations, [Next]_vars
  PROVE  OneAnswer'
<1> SUFFICES ASSUME NEW x \in Requesters
             PROVE  asked'[x] \in Requests \union {NULL} /\ Len(inbound'[x]) <= 1
  BY DEF OneAnswer
<1>1. /\ TypeInv /\ \A y \in Requesters : asked[y] \in Requests \union {NULL}
      /\ Len(inbound[x]) <= 1
  BY DEF Invariants, ServiceInv, OneAnswer
<1>2. Len(inbound'[x]) <= 1
  <2>1. Len(<< >>) <= 1 /\ \A a \in Answer : Len(<<a>>) <= 1
    OBVIOUS
  <2>2. \/ inbound'[x] = inbound[x] \/ inbound'[x] = << >>
        \/ \E a \in Answer : inbound'[x] = <<a>>
    BY Delivered
  <2> QED
    BY <1>1, <2>1, <2>2
<1>3. asked'[x] \in Requests \union {NULL}
  <2>1. ASSUME NEW p \in Peers, RelayRequest(p)
        PROVE  asked'[x] \in Requests \union {NULL}
    BY <1>1, <2>1, HandledIsRequest DEF RelayRequest, NextResponsible, TypeInv, TypeOK
  <2>2. ASSUME NEW p \in Peers, Listen(p) \/ respond_as_responsible_peer(p) \/ HandleBrokenPipe(p)
                 \/ RelayUnreachable(p) \/ RelayAnswer(p) \/ RelayReset(p)
        PROVE  asked'[x] \in {asked[x], NULL}
    BY <2>2 DEF Listen, respond_as_responsible_peer, HandleBrokenPipe, RelayUnreachable,
       RelayAnswer, RelayReset, Invariants, TypeInv, TypeOK
  <2>3. ASSUME NEW d \in Clients, ClientSend(d)
        PROVE  asked'[x] \in Requests \union {NULL}
    BY <1>1, <2>3 DEF ClientSend, TypeInv, TypeOK
  <2> QED
    BY <1>1, <2>1, <2>2, <2>3, StepEffects
<1> QED
  BY <1>2, <1>3

LEMMA RelayingStep ==
  ASSUME Invariants, SingleOperations, [Next]_vars
  PROVE  Relaying'
<1> SUFFICES ASSUME NEW p \in Peers, proc'[p] = "relay"
             PROVE  asked'[p] # NULL /\ asked'[p] = asked'[serving'[p].from]
  BY DEF Relaying, ClientOf
<1>1. TypeInv /\ NULL \notin Requests /\ Peers \subseteq Requesters /\ Peers \intersect Clients = {}
  BY PeerAssumption DEF Invariants, Requesters
<1>2. CASE RelayRequest(p)
  <2>1. ClientOf(p) \in Clients /\ ClientOf(p) # p
    BY <1>1, <1>2, RelayedFromClient DEF RelayRequest, Invariants
  <2>2. RequestAt(p) \in Requests
    BY <1>2, HandledIsRequest DEF RelayRequest, NextResponsible
  <2> QED
    BY <1>1, <1>2, <2>1, <2>2 DEF RelayRequest, RequestAt, ClientOf, TypeInv, TypeOK
<1>3. CASE proc[p] = "relay" /\ serving'[p] = serving[p] /\ ~ RelayRequest(p)
  <2>1. asked[p] # NULL /\ asked[p] = asked[ClientOf(p)] /\ ClientOf(p) \in Clients
    BY <1>3 DEF Invariants, ServiceInv, Relaying, SingleHop
  <2>2. cstate[ClientOf(p)] # "connected"
    BY <2>1 DEF Invariants, ServiceInv, Unsent
  <2>3. ASSUME NEW q \in Peers, Listen(q) \/ respond_as_responsible_peer(q) \/ HandleBrokenPipe(q)
                 \/ RelayRequest(q) \/ RelayUnreachable(q) \/ RelayAnswer(q) \/ RelayReset(q)
        PROVE  \A x \in Requesters : x # q => asked'[x] = asked[x]
    BY <1>1, <2>3 DEF Listen, respond_as_responsible_peer, HandleBrokenPipe, RelayRequest, RelayUnreachable,
       RelayAnswer, RelayReset, TypeInv, TypeOK
  <2>4. ASSUME RelayAnswer(p) \/ RelayReset(p) \/ Listen(p) \/ respond_as_responsible_peer(p)
                 \/ HandleBrokenPipe(p) \/ RelayUnreachable(p)
        PROVE  FALSE
    BY <1>1, <1>3, <2>4 DEF RelayAnswer, RelayReset, Finish, Listen, respond_as_responsible_peer,
       HandleBrokenPipe, RelayUnreachable, Responsible, NextResponsible, HandlesRequest, TypeInv, TypeOK
  <2>5. ASSUME NEW c \in Clients, ClientSend(c)
        PROVE  asked'[p] = asked[p] /\ asked'[ClientOf(p)] = asked[ClientOf(p)]
    BY <1>1, <2>1, <2>2, <2>5 DEF ClientSend, TypeInv, TypeOK
  <2>6. asked'[p] = asked[p] /\ asked'[ClientOf(p)] = asked[ClientOf(p)]
    BY <1>1, <1>3, <2>1, <2>3, <2>4, <2>5, StepEffects DEF Requesters
  <2> QED
    BY <1>3, <2>1, <2>6 DEF ClientOf
<1> QED
  BY <1>1, <1>2, <1>3, IntoRelay

LEMMA FreshStep ==
  ASSUME Invariants, [Next]_vars
  PROVE  Fresh'
<1> SUFFICES ASSUME NEW p \in Peers, proc'[p] = "down"
             PROVE  store'[p] = EmptyTable
  BY DEF Fresh
<1>1. TypeInv /\ RingInv
  BY DEF Invariants
<1>2. proc[p] = "down"
  BY <1>1, StaysStep DEF Stays
<1>3. ~ respond_as_responsible_peer(p)
  BY <1>2 DEF respond_as_responsible_peer, Responsible, HandlesRequest
<1> QED
  BY <1>1, <1>2, <1>3, StoreChange DEF Invariants, ServiceInv, Fresh

LEMMA InvariantsStep ==
  ASSUME Invariants, SingleOperations, [Next]_vars
  PROVE  Invariants'
BY NextTypeInv, RelayedTravelsStep, SingleHopStep, RingInvStep, ExclusiveStep, UnsentStep, OneAnswerStep,
   RelayingStep, FreshStep DEF Invariants, ServiceInv

LEMMA InvariantsInit == Init \/ SettledInit => Invariants
<1> SUFFICES ASSUME Init \/ SettledInit PROVE Invariants
  OBVIOUS
<1>1. TypeInv
  BY InitTypeInv, SettledTypeInv
<1>2. RelayedTravels /\ SingleHop
  BY NothingTravels DEF Init, SettledInit, Requesters
<1>3. Exclusive
  <2>1. ToSet(<< >>) = {} /\ \A c \in Clients : NULL # RequestOf(c)
    BY PeerAssumption DEF ToSet, RequestOf, Connection, RequestConnection, Requesters
  <2> QED
    BY <2>1 DEF Init, SettledInit, Exclusive, Connected
<1>4. Unsent
  BY DEF Init, SettledInit, Unsent, Requesters
<1>5. OneAnswer
  <2>1. Len(<< >>) <= 1
    OBVIOUS
  <2> QED
    BY <2>1 DEF Init, SettledInit, OneAnswer
<1>6. Relaying /\ Fresh
  BY DEF Init, SettledInit, Relaying, Fresh
<1> QED
  BY <1>1, <1>2, <1>3, <1>4, <1>5, <1>6, RingInvInit DEF Invariants, ServiceInv

-----------------------------------------------------------------------------
(* The refinement mapping.                                                 *)

(* The first answer of at most one.                                        *)
LEMMA FirstOfOne ==
  /\ FirstAnswer(<< >>) = NULL
  /\ FirstAnswer(<<GarbageAnswer>>) = NULL
  /\ \A a \in Answer \ {GarbageAnswer} : FirstAnswer(<<a>>) = a
<1>1. FirstAnswer(<< >>) = NULL
  BY DEF FirstAnswer
<1>2. FirstAnswer(<<GarbageAnswer>>) = NULL
  <2>1. {i \in DOMAIN <<GarbageAnswer>> : <<GarbageAnswer>>[i] # GarbageAnswer} = {}
    OBVIOUS
  <2> QED
    BY <2>1 DEF FirstAnswer
<1>3. ASSUME NEW a \in Answer \ {GarbageAnswer}
      PROVE  FirstAnswer(<<a>>) = a
  <2>1. {i \in DOMAIN <<a>> : <<a>>[i] # GarbageAnswer} = {1}
    OBVIOUS
  <2>2. Min({1}) = 1
    BY DEF Min
  <2> QED
    BY <2>1, <2>2 DEF FirstAnswer
<1> QED
  BY <1>1, <1>2, <1>3

(* What has been sent towards c has got as far as the peer that relays for *)
(* it, if one does.                                                        *)
Sent(c) ==
  /\ \A p \in Relayers(c) : Relayers(c) = {p} /\ inbound[c] = <<>> /\ SentTo(c) = inbound[p]
  /\ Relayers(c) = {} => SentTo(c) = inbound[c]

AllSent == \A c \in Clients : Sent(c)

LEMMA SentSoFar == Invariants => AllSent
<1> SUFFICES ASSUME Invariants, NEW c \in Clients PROVE Sent(c)
  BY DEF AllSent
<1>1. \A x \in Requesters : inbound[x] \in Seq(Answer)
  BY DEF Invariants, TypeInv, TypeOK
<1>2. \A s \in Seq(Answer) : s \o << >> = s /\ << >> \o s = s
  OBVIOUS
<1>3. ASSUME NEW p \in Relayers(c)
      PROVE  Relayers(c) = {p} /\ inbound[c] = <<>> /\ SentTo(c) = inbound[p]
  <2>1. \A q \in Relayers(c) : q \in Peers /\ Connected(c, q)
    BY DEF Relayers, Connected
  <2>2. Relayers(c) = {p} /\ inbound[c] = <<>>
    BY ZenonT(60), <1>3, <2>1 DEF Invariants, ServiceInv, Exclusive
  <2>3. SentTo(c) = << >> \o inbound[p]
    <3>1. (CHOOSE q \in Relayers(c) : TRUE) = p
      BY <2>2
    <3> QED
      BY <2>2, <3>1 DEF SentTo
  <2>4. inbound[p] \in Seq(Answer)
    BY <1>1, <2>1, <1>3 DEF Requesters
  <2> QED
    BY <1>2, <2>2, <2>3, <2>4
<1>4. Relayers(c) = {} => SentTo(c) = inbound[c]
  BY <1>1, <1>2 DEF SentTo, Requesters
<1> QED
  BY <1>3, <1>4 DEF Sent

(* At the peer that covers a key, the service's table is the peer's.       *)
TableThere == \A p \in Peers, k \in Keys : Covers(p, k) => TheTable[k] = store[p][k]

LEMMA TableAt == StoresOwn => TableThere
<1> SUFFICES ASSUME StoresOwn, NEW p \in Peers, NEW k \in Keys, Covers(p, k)
             PROVE  TheTable[k] = store[p][k]
  BY DEF TableThere
<1>1. CASE Holders(k) = {}
  BY <1>1 DEF TheTable, Holders
<1>2. CASE Holders(k) # {}
  <2>1. PICK h \in Holders(k) : h = CHOOSE q \in Holders(k) : TRUE
    BY <1>2
  <2>2. h \in Peers /\ Covers(h, k)
    BY <2>1 DEF Holders, StoresOwn
  <2>3. h = p
    BY <2>2, CoveredOnce
  <2> QED
    BY <1>2, <2>1, <2>3 DEF TheTable
<1> QED
  BY <1>1, <1>2

(* A key whose entries do not change.                                      *)
LEMMA SameTable ==
  ASSUME NEW k \in Keys, \A p \in Peers : store'[p][k] = store[p][k]
  PROVE  TheTable'[k] = TheTable[k]
<1>1. Holders(k)' = Holders(k)
  BY DEF Holders
<1> QED
  BY <1>1 DEF TheTable, Holders

(* Who relays for a client after a step.                                   *)
LEMMA FinishRelayers ==
  ASSUME TypeInv, NEW p \in Peers, Finish(p), NEW c \in Clients
  PROVE  Relayers(c)' = Relayers(c) \ {p}
BY FinishType DEF Relayers, RequestOf

LEMMA SameRelayers ==
  ASSUME TypeInv, [Next]_vars, NEW c \in Clients,
         \A p \in Peers : ~ RelayRequest(p) /\ ~ redirect(p)
  PROVE  Relayers(c)' = Relayers(c)
<1>1. ASSUME NEW p \in Peers
      PROVE  proc'[p] = "relay" /\ serving'[p] = RequestOf(c) <=> proc[p] = "relay" /\ serving[p] = RequestOf(c)
  BY IntoRelay, LeavesRelay
<1> QED
  BY <1>1 DEF Relayers, RequestOf

(* A thread that handles a request is the only one that does, for the      *)
(* client it comes from.                                                   *)
LEMMA NobodyRelays ==
  ASSUME Invariants, NEW p \in Peers, proc[p] # "relay", NEW c \in Clients, serving[p] = RequestOf(c)
  PROVE  Relayers(c) = {} /\ inbound[c] = <<>>
<1>1. Connected(c, p) /\ \A q \in Relayers(c) : q \in Peers /\ Connected(c, q) /\ proc[q] = "relay"
  BY DEF Relayers, Connected
<1> QED
  BY <1>1 DEF Invariants, ServiceInv, Exclusive

(* A step the service does not see.                                        *)
Silent ==
  /\ store' = store
  /\ \A c \in Clients : asked'[c] = asked[c] /\ FirstAnswer(SentTo(c))' = FirstAnswer(SentTo(c))

LEMMA SilentStutters == Silent => UNCHANGED Service!vars
<1> SUFFICES ASSUME Silent PROVE UNCHANGED Service!vars
  OBVIOUS
<1>1. TheTable' = TheTable
  BY DEF Silent, TheTable, Holders
<1>2. TheAnswers' = TheAnswers
  BY DEF Silent, TheAnswers
<1>3. [c \in Clients |-> asked[c]]' = [c \in Clients |-> asked[c]]
  BY DEF Silent
<1> QED
  BY <1>1, <1>2, <1>3 DEF Service!vars

-----------------------------------------------------------------------------
(* The steps the service does not see.                                     *)

(* Nothing new has been sent towards c.                                    *)
LEMMA SameSent ==
  ASSUME NEW c \in Clients, Relayers(c)' = Relayers(c), inbound'[c] = inbound[c],
         \A p \in Relayers(c) : inbound'[p] = inbound[p]
  PROVE  SentTo(c)' = SentTo(c)
<1>1. Relayers(c) # {} => (CHOOSE p \in Relayers(c) : TRUE) \in Relayers(c)
  OBVIOUS
<1> QED
  BY <1>1 DEF SentTo

LEMMA SilentStep ==
  ASSUME Invariants, [Next]_vars, UNCHANGED <<asked, inbound, store>>,
         \A p \in Peers : ~ RelayRequest(p) /\ ~ redirect(p)
  PROVE  Silent
<1>1. ASSUME NEW c \in Clients
      PROVE  SentTo(c)' = SentTo(c)
  BY SameRelayers, SameSent DEF Invariants
<1> QED
  BY <1>1 DEF Silent

LEMMA SilentListen ==
  ASSUME Invariants, NEW p \in Peers, Listen(p)
  PROVE  Silent
<1>1. TypeInv /\ Peers \intersect Clients = {} /\ Requesters = Clients \union Peers
  BY PeerAssumption DEF Invariants, Requesters
<1>2. proc[p] = "down"
  BY RingAssumption DEF Listen
<1>3. store' = store
  BY <1>1, <1>2 DEF Listen, TypeInv, TypeOK, Invariants, ServiceInv, Fresh
<1>4. ASSUME NEW c \in Clients
      PROVE  SentTo(c)' = SentTo(c) /\ asked'[c] = asked[c]
  <2>1. Relayers(c)' = Relayers(c) /\ p \notin Relayers(c)
    BY <1>1, <1>2 DEF Relayers, RequestOf, Listen, TypeInv, TypeOK
  <2>2. /\ asked'[c] = asked[c] /\ inbound'[c] = inbound[c]
        /\ \A q \in Relayers(c) : inbound'[q] = inbound[q]
    BY <1>1, <2>1 DEF Listen, TypeInv, TypeOK, Relayers
  <2> QED
    BY <2>1, <2>2, SameSent
<1> QED
  BY <1>3, <1>4 DEF Silent

(* The request moves on: nothing has been sent on either connection.       *)
LEMMA SilentRelay ==
  ASSUME Invariants, Invariants', [Next]_vars, NEW p \in Peers, RelayRequest(p)
  PROVE  Silent
<1>1. /\ TypeInv /\ Peers \intersect Clients = {} /\ Requesters = Clients \union Peers
      /\ proc[p] = "recv" /\ UNCHANGED <<serving, store, inbound>>
      /\ proc' = [proc EXCEPT ![p] = "relay"]
  BY PeerAssumption DEF Invariants, Requesters, RelayRequest, NextResponsible, HandlesRequest
<1>2. /\ ClientOf(p) \in Clients /\ serving[p] = RequestOf(ClientOf(p))
  <2>1. ClientOf(p) \in Clients
    BY RelayedFromClient DEF RelayRequest, Invariants
  <2> QED
    BY <2>1, HandledIsRequest, Unanswered DEF RelayRequest, NextResponsible
<1>3. ASSUME NEW c \in Clients
      PROVE  asked'[c] = asked[c] /\ FirstAnswer(SentTo(c))' = FirstAnswer(SentTo(c))
  <2>1. asked'[c] = asked[c]
    BY <1>1 DEF RelayRequest, TypeInv, TypeOK
  <2>2. CASE c = ClientOf(p)
    <3>1. SentTo(c) = << >>
      BY <1>1, <1>2, <2>2, NobodyRelays, SentSoFar DEF AllSent, Sent
    <3>2. p \in Relayers(c)'
      BY <1>1, <1>2, <2>2 DEF Relayers, RequestOf, TypeInv, TypeOK
    <3>3. inbound[p] = << >>
      BY <1>1 DEF Invariants, RelayedTravels, Travels
    <3>4. Sent(c)'
      <4>1. Invariants' => AllSent'
        BY SentSoFar, PTL
      <4> QED
        BY <4>1 DEF AllSent
    <3>5. SentTo(c)' = << >>
      BY <1>1, <3>2, <3>3, <3>4 DEF Sent
    <3> QED
      BY <2>1, <3>1, <3>5
  <2>3. CASE c # ClientOf(p)
    <3>1. RequestOf(c) # serving[p]
      BY <1>2, <2>3 DEF RequestOf
    <3>2. Relayers(c)' = Relayers(c)
      BY <1>1, <3>1 DEF Relayers, RequestOf, TypeInv, TypeOK
    <3>3. SentTo(c)' = SentTo(c)
      BY <1>1, <3>2, SameSent
    <3> QED
      BY <2>1, <3>3
  <2> QED
    BY <2>2, <2>3
<1> QED
  BY <1>1, <1>3 DEF Silent

(* Garbage is no answer.                                                   *)
LEMMA SilentUnreachable ==
  ASSUME Invariants, [Next]_vars, NEW p \in Peers, RelayUnreachable(p)
  PROVE  Silent
<1>1. /\ TypeInv /\ Peers \intersect Clients = {} /\ Requesters = Clients \union Peers
      /\ proc[p] = "recv" /\ UNCHANGED <<store, asked>> /\ Finish(p)
  BY PeerAssumption DEF Invariants, Requesters, RelayUnreachable, NextResponsible, HandlesRequest
<1>2. /\ ClientOf(p) \in Clients /\ serving[p] = RequestOf(ClientOf(p))
  <2>1. ClientOf(p) \in Clients
    BY RelayedFromClient DEF RelayUnreachable, Invariants
  <2> QED
    BY <2>1, HandledIsRequest, Unanswered DEF RelayUnreachable, NextResponsible
<1>3. ASSUME NEW c \in Clients
      PROVE  FirstAnswer(SentTo(c))' = FirstAnswer(SentTo(c))
  <2>1. Relayers(c)' = Relayers(c)
    BY <1>1, FinishRelayers DEF Relayers
  <2>2. CASE c = ClientOf(p)
    <3>1. Relayers(c) = {} /\ inbound[c] = << >>
      BY <1>1, <1>2, <2>2, NobodyRelays
    <3>2. inbound'[c] = <<GarbageAnswer>>
      BY <1>1, <2>2, <3>1 DEF RelayUnreachable, TypeInv, TypeOK
    <3>3. SentTo(c) = << >> /\ SentTo(c)' = <<GarbageAnswer>>
      <4>1. GarbageAnswer \in Answer
        BY DEF Answer
      <4> QED
        BY <2>1, <3>1, <3>2, <4>1, EmptyAnswers DEF SentTo
    <3> QED
      BY <3>3, FirstOfOne
  <2>3. CASE c # ClientOf(p)
    <3>1. \A x \in Requesters : x # ClientOf(p) => inbound'[x] = inbound[x]
      BY <1>1 DEF RelayUnreachable, TypeInv, TypeOK
    <3>2. SentTo(c)' = SentTo(c)
      BY <1>1, <1>2, <2>1, <2>3, <3>1, SameSent DEF Relayers
    <3> QED
      BY <3>2
  <2> QED
    BY <2>2, <2>3
<1> QED
  BY <1>1, <1>3 DEF Silent

(* redirect passes on what was sent, or ends without an answer.            *)
LEMMA SilentRedirect ==
  ASSUME Invariants, [Next]_vars, NEW p \in Peers, redirect(p)
  PROVE  Silent
<1>1. /\ TypeInv /\ Peers \intersect Clients = {} /\ Requesters = Clients \union Peers
      /\ proc[p] = "relay" /\ UNCHANGED store /\ Finish(p) /\ asked' = [asked EXCEPT ![p] = NULL]
  BY PeerAssumption DEF Invariants, Requesters, redirect, RelayAnswer, RelayReset
<1>2. /\ ClientOf(p) \in Clients /\ serving[p] = RequestOf(ClientOf(p)) /\ inbound[ClientOf(p)] = << >>
  BY <1>1, Unanswered DEF Invariants, SingleHop, TypeInv, ServingOK
<1>3. ASSUME NEW c \in Clients
      PROVE  asked'[c] = asked[c] /\ FirstAnswer(SentTo(c))' = FirstAnswer(SentTo(c))
  <2>1. asked'[c] = asked[c]
    BY <1>1 DEF TypeInv, TypeOK
  <2>2. Relayers(c)' = Relayers(c) \ {p}
    BY <1>1, FinishRelayers
  <2>3. CASE c = ClientOf(p)
    <3>1. p \in Relayers(c)
      BY <1>1, <1>2, <2>3 DEF Relayers
    <3>2. SentTo(c) = inbound[p] /\ Relayers(c) = {p}
      BY <3>1, SentSoFar DEF AllSent, Sent
    <3>3. inbound'[c] \in Seq(Answer) /\ FirstAnswer(inbound'[c]) = FirstAnswer(inbound[p])
      <4>1. CASE RelayAnswer(p)
        <5>1. inbound[p] \in Seq(Answer) /\ Len(inbound[p]) <= 1
          BY <1>1 DEF TypeInv, TypeOK, Invariants, ServiceInv, OneAnswer
        <5>2. PICK n \in 1 .. Len(inbound[p]) :
                inbound' = [inbound EXCEPT ![c] = @ \o SubSeq(inbound[p], 1, n), ![p] = <<>>]
          BY <2>3, <4>1 DEF RelayAnswer
        <5>3. SubSeq(inbound[p], 1, n) = <<inbound[p][1]>> /\ inbound[p] = <<inbound[p][1]>> /\ inbound[p][1] \in Answer
          BY <5>1, <5>2, OneReceived
        <5>4. inbound'[c] = << >> \o <<inbound[p][1]>>
          BY <1>1, <1>2, <2>3, <5>2, <5>3 DEF TypeInv, TypeOK
        <5> QED
          BY <5>1, <5>3, <5>4, EmptyAnswers
      <4>2. CASE RelayReset(p)
        <5>1. inbound[p] = << >>
          BY <4>2 DEF RelayReset
        <5>2. inbound'[c] = << >> \/ inbound'[c] = <<GarbageAnswer>>
          BY <1>1, <1>2, <2>3, <4>2 DEF RelayReset, TypeInv, TypeOK
        <5>3. <<GarbageAnswer>> \in Seq(Answer)
          BY DEF Answer
        <5> QED
          BY <5>1, <5>2, <5>3, FirstOfOne, EmptyAnswers
      <4> QED
        BY <4>1, <4>2 DEF redirect
    <3>4. SentTo(c)' = inbound'[c]
      <4>1. Relayers(c)' = {}
        BY <2>2, <3>2
      <4>2. \A s \in Seq(Answer) : s \o << >> = s
        OBVIOUS
      <4> QED
        BY <3>3, <4>1, <4>2 DEF SentTo
    <3> QED
      BY <2>1, <3>2, <3>3, <3>4
  <2>4. CASE c # ClientOf(p)
    <3>1. p \notin Relayers(c)
      BY <1>2, <2>4 DEF Relayers, RequestOf
    <3>2. \A x \in Requesters : x # ClientOf(p) /\ x # p => inbound'[x] = inbound[x]
      BY <1>1 DEF redirect, RelayAnswer, RelayReset, TypeInv, TypeOK
    <3>3. SentTo(c)' = SentTo(c)
      BY <1>1, <1>2, <2>2, <2>4, <3>1, <3>2, SameSent DEF Relayers
    <3> QED
      BY <2>1, <3>3
  <2> QED
    BY <2>3, <2>4
<1> QED
  BY <1>1, <1>3 DEF Silent

-----------------------------------------------------------------------------
(* The steps the service takes.                                            *)

(* The answer of a responsible peer is the first for the client the        *)
(* request comes from, and nobody else's changes.                          *)
LEMMA AnswersOrigin ==
  ASSUME Invariants, SingleOperations, [Next]_vars, NEW p \in Peers, respond_as_responsible_peer(p),
         NEW a \in Answer \ {GarbageAnswer}, Answers(store[p], RequestAt(p)) = <<a>>
  PROVE  \E c \in Clients :
           /\ asked[c] = RequestAt(p)
           /\ TheAnswers[c] = NULL
           /\ TheAnswers' = [TheAnswers EXCEPT ![c] = a]
<1> DEFINE x == ClientOf(p)
<1>1. /\ TypeInv /\ Peers \intersect Clients = {} /\ Requesters = Clients \union Peers
      /\ proc[p] = "recv" /\ Finish(p) /\ serving[p] \in RequestConnection
  BY PeerAssumption, HandledIsRequest
     DEF Invariants, Requesters, respond_as_responsible_peer, Responsible, HandlesRequest
<1>2. x \in Requesters /\ serving[p] = RequestOf(x) /\ x # p /\ inbound[x] = << >> /\ (x \in Peers => proc[x] = "relay")
  BY <1>1, Unanswered
<1>3. /\ inbound'[x] = <<a>>
      /\ \A y \in Requesters : y # x => inbound'[y] = inbound[y]
  <2>1. inbound' = [inbound EXCEPT ![x] = << >> \o <<a>>]
    BY <1>1, <1>2 DEF respond_as_responsible_peer, TypeInv, TypeOK
  <2> QED
    BY <1>1, <1>2, <2>1, EmptyAnswers DEF TypeInv, TypeOK
<1>4. ASSUME NEW c \in Clients
      PROVE  Relayers(c)' = Relayers(c) /\ p \notin Relayers(c)
  BY <1>1, FinishRelayers DEF Relayers
<1>5. ASSUME NEW c \in Clients, c # x, x \notin Relayers(c)
      PROVE  SentTo(c)' = SentTo(c)
  BY <1>1, <1>3, <1>4, <1>5, SameSent DEF Relayers
<1>6. ASSUME NEW c \in Clients, SentTo(c) = << >>, SentTo(c)' = <<a>>,
             c = x \/ x \in Relayers(c)
      PROVE  TheAnswers[c] = NULL /\ TheAnswers' = [TheAnswers EXCEPT ![c] = a]
  <2>1. \A d \in Clients : d # c => d # x /\ x \notin Relayers(d)
    BY <1>1, <1>2, <1>6 DEF Relayers, RequestOf
  <2>2. \A d \in Clients : d # c => SentTo(d)' = SentTo(d)
    BY <1>5, <2>1
  <2> QED
    BY <1>6, <2>2, FirstOfOne DEF TheAnswers
<1>7. CASE x \in Clients
  <2>1. Relayers(x) = {}
    BY <1>1, <1>2, <1>7, NobodyRelays
  <2>2. SentTo(x) = << >>
    BY <1>2, <1>7, <2>1, SentSoFar DEF AllSent, Sent
  <2>3. PICK c \in Clients : c = x
    BY <1>7
  <2>4. SentTo(c)' = <<a>>
    BY <1>3, <1>4, <2>1, <2>3, EmptyAnswers DEF SentTo
  <2> QED
    BY <1>6, <2>2, <2>3, <2>4 DEF RequestAt
<1>8. CASE x \in Peers
  <2>1. /\ ClientOf(x) \in Clients /\ serving[x] = RequestOf(ClientOf(x))
        /\ asked[x] = asked[ClientOf(x)]
    BY <1>1, <1>2, <1>8, Unanswered DEF Invariants, SingleHop, ServiceInv, Relaying, TypeInv, ServingOK
  <2>2. PICK c \in Clients : c = ClientOf(x)
    BY <2>1
  <2>3. x \in Relayers(c)
    BY <1>2, <1>8, <2>1, <2>2 DEF Relayers
  <2>4. Relayers(c) = {x} /\ SentTo(c) = << >> /\ inbound[c] = << >>
    BY <1>2, <2>3, SentSoFar DEF AllSent, Sent
  <2>5. c # x /\ c \in Requesters
    BY <1>1, <1>8
  <2>6. SentTo(c)' = << >> \o <<a>>
    <3>1. Relayers(c)' = {x} /\ inbound'[c] = << >>
      BY <1>3, <1>4, <2>4, <2>5
    <3>2. PICK y \in Peers : y = x
      BY <1>8
    <3>3. Relayers(c)' = {y} /\ inbound'[y] = <<a>>
      BY <1>3, <3>1, <3>2
    <3> QED
      BY <3>1, <3>3 DEF SentTo
  <2> QED
    BY <1>6, <2>1, <2>2, <2>3, <2>4, <2>6, EmptyAnswers DEF RequestAt
<1> QED
  BY <1>1, <1>2, <1>7, <1>8

(* A client that sends its request asks the service.                       *)
LEMMA AskStep ==
  ASSUME Invariants, [Next]_vars, NEW c \in Clients, ClientSend(c)
  PROVE  Service!Ask(c)
<1>1. TypeInv /\ c \in Requesters
  BY DEF Invariants, Requesters
<1>2. asked[c] = NULL
  BY DEF ClientSend, Invariants, ServiceInv, Unsent
<1>3. PICK r \in Requests : asked' = [asked EXCEPT ![c] = r]
  BY DEF ClientSend
<1>4. [d \in Clients |-> asked[d]]' = [[d \in Clients |-> asked[d]] EXCEPT ![c] = r]
  <2>1. \A d \in Clients : asked'[d] = IF d = c THEN r ELSE asked[d]
    BY <1>1, <1>3 DEF TypeInv, TypeOK, Requesters
  <2> QED
    BY <2>1
<1>5. TheTable' = TheTable
  BY DEF ClientSend, TheTable, Holders
<1>6. TheAnswers' = TheAnswers
  <2>1. ASSUME NEW d \in Clients
        PROVE  SentTo(d)' = SentTo(d)
    <3>1. Relayers(d)' = Relayers(d)
      BY DEF ClientSend, Relayers, RequestOf
    <3> QED
      BY <3>1, SameSent DEF ClientSend
  <2> QED
    BY <2>1 DEF TheAnswers
<1> QED
  BY <1>2, <1>3, <1>4, <1>5, <1>6 DEF Service!Ask

(* A responsible peer that answers executes the request, on the service's  *)
(* table.                                                                  *)
LEMMA ExecuteStep ==
  ASSUME Invariants, Invariants', SingleOperations, [Next]_vars, NEW p \in Peers, respond_as_responsible_peer(p)
  PROVE  \E c \in Clients : Service!Execute(c)
<1> DEFINE r == RequestAt(p)
           k == r.key
<1>1. /\ TypeInv /\ RingInv /\ StoresOwn /\ StoresOwn'
      /\ r \in Requests /\ store[p] \in Table /\ r # NULL /\ Responsible(p)
      /\ store' = [store EXCEPT ![p] = After(store[p], r)]
  BY HandledIsRequest DEF Invariants, RingInv, respond_as_responsible_peer, Responsible, HandlesRequest
<1>2. k \in Keys
  BY <1>1, OneOperation
<1>3. Covers(p, k)
  BY <1>1, ResponsibleCovers
<1>4. PICK key \in Keys : key = k
  BY <1>2
<1>5. TheTable[key] = store[p][key]
  BY <1>1, <1>3, <1>4, TableAt DEF TableThere
<1>6. TheTable'[key] = store'[p][key]
  <2>1. StoresOwn' => TableThere'
    BY TableAt, PTL
  <2> QED
    BY <1>1, <1>3, <1>4, <2>1 DEF TableThere, Covers
<1>7. \A q \in Peers : q # p => store'[q] = store[q]
  BY <1>1 DEF TypeInv, TypeOK
<1>8. ASSUME NEW value, store'[p] = [store[p] EXCEPT ![key] = value]
      PROVE  TheTable' = [TheTable EXCEPT ![key] = value]
  <2>1. store'[p][key] = value /\ \A j \in Keys : j # key => store'[p][j] = store[p][j]
    BY <1>1, <1>8 DEF Table
  <2>2. \A j \in Keys : j # key => TheTable'[j] = TheTable[j]
    BY <1>7, <2>1, SameTable
  <2> QED
    BY <1>6, <2>1, <2>2 DEF TheTable
<1>9. store'[p] = store[p] => TheTable' = TheTable
  BY <1>7, SameTable DEF TheTable
<1>10. store'[p] = After(store[p], r)
  BY <1>1 DEF TypeInv, TypeOK
<1>11. PICK a \in Answer \ {GarbageAnswer} : Answers(store[p], r) = <<a>>
  BY <1>1, OneAnswerEach
<1>12. PICK c \in Clients :
         /\ asked[c] = r
         /\ TheAnswers[c] = NULL
         /\ TheAnswers' = [TheAnswers EXCEPT ![c] = a]
  BY <1>11, AnswersOrigin
<1>13. [d \in Clients |-> asked[d]]' = [d \in Clients |-> asked[d]]
  BY DEF respond_as_responsible_peer
<1>14. \/ r.ops = {"get"} /\ a = [op |-> "get", value |-> TheTable[key]] /\ TheTable' = TheTable
       \/ r.ops = {"set"} /\ a = [op |-> "set", value |-> NULL] /\ TheTable' = [TheTable EXCEPT ![key] = r.value]
       \/ r.ops = {"delete"} /\ a = [op |-> "delete", value |-> NULL] /\ TheTable' = [TheTable EXCEPT ![key] = NULL]
  <2>1. \/ r.ops = {"get"} /\ a = [op |-> "get", value |-> store[p][key]] /\ After(store[p], r) = store[p]
        \/ r.ops = {"set"} /\ a = [op |-> "set", value |-> NULL] /\ After(store[p], r) = [store[p] EXCEPT ![key] = r.value]
        \/ r.ops = {"delete"} /\ a = [op |-> "delete", value |-> NULL] /\ After(store[p], r) = [store[p] EXCEPT ![key] = NULL]
    <3>1. \A b1, b2 : <<b1>> = <<b2>> => b1 = b2
      OBVIOUS
    <3> HIDE DEF r
    <3> QED
      BY <1>1, <1>4, <1>11, <3>1, OneOperation
  <2> QED
    BY <1>5, <1>8, <1>9, <1>10, <2>1
<1> HIDE DEF r
<1> QED
  BY <1>1, <1>4, <1>12, <1>13, <1>14 DEF Service!Execute, Service!Reply

LEMMA ServiceStep ==
  ASSUME Invariants, Invariants', SingleOperations, [Next]_vars
  PROVE  [Service!Next]_Service!vars
<1>1. ASSUME Silent
      PROVE  UNCHANGED Service!vars
  BY <1>1, SilentStutters
<1>2. ASSUME NEW p \in Peers,
             Listen(p) \/ RelayRequest(p) \/ RelayUnreachable(p) \/ RelayAnswer(p) \/ RelayReset(p)
      PROVE  Silent
  BY <1>2, SilentListen, SilentRelay, SilentUnreachable, SilentRedirect DEF redirect
<1>3. ASSUME NEW p \in Peers, respond_as_responsible_peer(p)
      PROVE  Service!Next
  BY <1>3, ExecuteStep DEF Service!Next
<1>4. ASSUME NEW c \in Clients, ClientSend(c)
      PROVE  Service!Next
  BY <1>4, AskStep DEF Service!Next
<1>5. CASE UNCHANGED <<asked, inbound, store>>
  <2>1. CASE \E p \in Peers : RelayRequest(p) \/ redirect(p)
    BY <1>1, <1>2, <2>1 DEF redirect
  <2>2. CASE \A p \in Peers : ~ RelayRequest(p) /\ ~ redirect(p)
    BY <1>1, <1>5, <2>2, SilentStep
  <2> QED
    BY <2>1, <2>2
<1> QED
  BY <1>1, <1>2, <1>3, <1>4, <1>5, StepEffects, NoBrokenPipe DEF Invariants

LEMMA ServiceInit == Init \/ SettledInit => Service!Init
<1> SUFFICES ASSUME Init \/ SettledInit PROVE Service!Init
  OBVIOUS
<1>1. TheTable = [k \in Keys |-> NULL]
  BY DEF Init, SettledInit, EmptyTable, TheTable, Holders
<1>2. ASSUME NEW c \in Clients
      PROVE  asked[c] = NULL /\ SentTo(c) = << >>
  <2>1. asked[c] = NULL /\ inbound[c] = << >> /\ Relayers(c) = {}
    BY DEF Init, SettledInit, Requesters, Relayers
  <2> QED
    BY <2>1, EmptyAnswers DEF SentTo
<1>3. TheAnswers = [c \in Clients |-> NULL]
  BY <1>2, FirstOfOne DEF TheAnswers
<1> QED
  BY <1>1, <1>2, <1>3 DEF Service!Init

(* From the first process on, and from the settled ring, the network is    *)
(* one key-value table to its clients: whatever is relayed, cut off or     *)
(* crashes, each request takes effect at most once, on the one table, and  *)
(* the answer on its way back is that moment's (peer.c:18-67, 224-240;     *)
(* network.c:221-227).                                                     *)
THEOREM RingServesOneTable ==
  ASSUME SingleOperations
  PROVE  Spec \/ SettledSpec => ServesOneTable
<1>1. Init \/ SettledInit => Invariants /\ Service!Init
  BY InvariantsInit, ServiceInit
<1>2. Invariants /\ [Next]_vars => Invariants'
  BY InvariantsStep
<1>3. Invariants /\ Invariants' /\ [Next]_vars => [Service!Next]_Service!vars
  BY ServiceStep
<1> QED
  BY <1>1, <1>2, <1>3, PTL DEF Spec, SettledSpec, ServesOneTable, Service!Spec

==============================================================================
