-------------------------------- MODULE Peer --------------------------------
(***************************************************************************)
(* A network of peer processes (peer.c on top of network.c) and of client  *)
(* processes (client.c).                                                   *)
(*                                                                         *)
(* A peer is one thread: it accepts a connection, waits for one chunk of   *)
(* bytes on it, handles that chunk to the end, and goes back to accept.    *)
(* The only other place it waits is redirect, where it has passed a        *)
(* client's request to the next peer and waits for the answer.  Bytes for  *)
(* a peer that is busy wait in the backlog of its listening socket.        *)
(*                                                                         *)
(* get_new_connection closes the listening socket after every accept       *)
(* (network.c:175).  CloseListener = TRUE is that code; CloseListener =    *)
(* FALSE is the same code without that call, which main's loop, the        *)
(* comment on get_new_connection and the service tests take for granted.   *)
(***************************************************************************)
EXTENDS PeerProtocol, HashTable, Sequences, SequencesExt, FiniteSets

CONSTANTS
  Clients,        \* the client processes, each making one request
  Hash,           \* Hash[k]: get_hash_value of k, cut to 16 bits
  Requests,       \* the requests clients may send
  JoinAt,         \* JoinAt[p]: the peer p is told to join at, NULL for a base
  Restartable,    \* the peers whose process is started again after a crash
  Injected,       \* messages other implementations (or sr.py) may send
  MaxInject,      \* bound: how many of them are sent
  Backlog,        \* connections the kernel queues before it ignores more
  CloseListener,  \* whether accepting closes the listening socket
  GarbageAnswer   \* the bytes of a freed buffer, sent as an answer

Operations == {"get", "set", "delete"}

Request == [ops : SUBSET Operations, key : Keys, value : Values \union {NULL}]

Answer == [op : Operations, value : Values \union {NULL}] \union {GarbageAnswer}

(* A connection to a peer carries one message of a peer, or one request of *)
(* a client or of a peer that relays it.                                   *)
Requesters == Clients \union Peers

MessageConnection == [kind : {"message"}, msg : PeerMessage]
RequestConnection == [kind : {"request"}, from : Requesters]
Connection        == MessageConnection \union RequestConnection

ASSUME PeerAssumption ==
  /\ Hash \in [Keys -> byte16]
  /\ Requests \subseteq Request
  /\ \A r \in Requests : "set" \in r.ops => r.value \in Values
  /\ JoinAt \in [Peers -> Peers \union {NULL}]
  /\ Restartable \subseteq Peers
  /\ Injected \subseteq PeerMessage
  /\ MaxInject \in Nat
  /\ Backlog \in Nat
  /\ CloseListener \in BOOLEAN
  /\ GarbageAnswer \notin [op : Operations, value : Values \union {NULL}]
  /\ Peers \intersect Clients = {}
  /\ NULL \notin Peers \union Clients \union Request \union Connection

VARIABLES
  \* of a peer process
  proc,       \* where its thread is
  listening,  \* whether its listening socket is open
  backlog,    \* the connections waiting to be accepted, oldest first
  serving,    \* the connection it has accepted and is working for
  next,       \* peer_info.next
  prev,       \* peer_info.prev
  store,      \* its hash table
  \* of a client process
  cstate,
  \* of a connection to a peer, by the client or relaying peer that opened it
  asked,      \* the request sent on it
  inbound,    \* the answers that have come back on it
  reset,      \* whether it was torn down before it was served
  injected    \* messages injected so far

ring       == <<next, prev>>
requesters == <<asked, inbound, reset>>
vars == <<proc, listening, backlog, serving, ring, store, cstate, requesters, injected>>

Message(m) == [kind |-> "message", msg |-> m]
RequestOf(x) == [kind |-> "request", from |-> x]

Init ==
  /\ proc      = [p \in Peers |-> "down"]
  /\ listening = [p \in Peers |-> FALSE]
  /\ backlog   = [p \in Peers |-> <<>>]
  /\ serving   = [p \in Peers |-> NULL]
  /\ next      = [p \in Peers |-> NULL]
  /\ prev      = [p \in Peers |-> NULL]
  /\ store     = [p \in Peers |-> EmptyTable]
  /\ cstate    = [c \in Clients |-> "idle"]
  /\ asked     = [x \in Requesters |-> NULL]
  /\ inbound   = [x \in Requesters |-> <<>>]
  /\ reset     = [x \in Requesters |-> FALSE]
  /\ injected  = 0

-----------------------------------------------------------------------------
(* Connections.                                                            *)

(* connect succeeds while the target listens and its backlog has room.     *)
(* With a full backlog connect waits for room and then times out: the      *)
(* sender's step is taken late, or it is taken as a failure.               *)
Reachable(q) == listening[q] /\ Len(backlog[q]) < Backlog

setup_as_client(q, connection) ==
  backlog' = IF Reachable(q) THEN [backlog EXCEPT ![q] = Append(@, connection)] ELSE backlog

(* direct_send: whether it arrives is never looked at.                     *)
direct_send(q, m) == setup_as_client(q, Message(m))

(* Whose requests are cut off when p's listening socket (the queued        *)
(* connections) or p's whole process (the served one too) goes away.       *)
Opened(connections) == {x \in Requesters : RequestOf(x) \in connections}

Disconnect(xs) == reset' = [x \in Requesters |-> reset[x] \/ x \in xs]

Crash(p) ==
  /\ proc'      = [proc EXCEPT ![p] = "crashed"]
  /\ listening' = [listening EXCEPT ![p] = FALSE]
  /\ backlog'   = [backlog EXCEPT ![p] = <<>>]
  /\ serving'   = [serving EXCEPT ![p] = NULL]
  /\ Disconnect(Opened(ToSet(backlog[p]) \union {serving[p]}))

(* The handler returns and main goes back to accept.                       *)
Finish(p) ==
  /\ proc'    = [proc EXCEPT ![p] = "accept"]
  /\ serving' = [serving EXCEPT ![p] = NULL]
  /\ UNCHANGED listening

-----------------------------------------------------------------------------
(* main.                                                                   *)

(* setup_as_server, in a fresh process: peer_info is zero, no table yet.   *)
Listen(p) ==
  /\ proc[p] = "down" \/ (proc[p] = "crashed" /\ p \in Restartable)
  /\ proc'      = [proc EXCEPT ![p] = "starting"]
  /\ listening' = [listening EXCEPT ![p] = TRUE]
  /\ next'      = [next EXCEPT ![p] = NULL]
  /\ prev'      = [prev EXCEPT ![p] = NULL]
  /\ store'     = [store EXCEPT ![p] = EmptyTable]
  /\ asked'     = [asked EXCEPT ![p] = NULL]
  /\ inbound'   = [inbound EXCEPT ![p] = <<>>]
  /\ reset'     = [reset EXCEPT ![p] = FALSE]
  /\ UNCHANGED <<backlog, serving, cstate, injected>>

(* The rest of main before its loop: a joining peer sends one join.        *)
Enter(p) ==
  /\ proc[p] = "starting"
  /\ proc' = [proc EXCEPT ![p] = "accept"]
  /\ IF JoinAt[p] = NULL
     THEN UNCHANGED backlog
     ELSE \E m \in join(p) : direct_send(JoinAt[p], m)
  /\ UNCHANGED <<listening, serving, ring, store, cstate, requesters, injected>>

get_new_connection(p) ==
  /\ proc[p] = "accept"
  /\ backlog[p] # <<>>
  /\ proc'    = [proc EXCEPT ![p] = "recv"]
  /\ serving' = [serving EXCEPT ![p] = Head(backlog[p])]
  /\ IF CloseListener
     THEN /\ listening' = [listening EXCEPT ![p] = FALSE]
          /\ backlog'   = [backlog EXCEPT ![p] = <<>>]
          /\ Disconnect(Opened(ToSet(Tail(backlog[p]))))
     ELSE /\ backlog' = [backlog EXCEPT ![p] = Tail(@)]
          /\ UNCHANGED <<listening, reset>>
  /\ UNCHANGED <<ring, store, cstate, asked, inbound, injected>>

-----------------------------------------------------------------------------
(* receive_handler, on a message of another peer.                          *)

Handles(p, flag) ==
  /\ proc[p] = "recv"
  /\ serving[p].kind = "message"
  /\ Dispatches(serving[p].msg, flag)

(* The NULL dereferences.  id_is_between reads its last argument only when *)
(* the first comparison holds.                                             *)
MessageFaults(p, m) ==
  \/ /\ Dispatches(m, "finger")
     /\ "lookup" \notin m.flags
     /\ next[p] = NULL
  \/ /\ Dispatches(m, "join")
     /\ next[p] # NULL
     /\ Id[p] > m.hashId
     /\ prev[p] = NULL
  \/ /\ Dispatches(m, "notify")
     /\ next[p] = NULL
  \/ /\ Dispatches(m, "stabilize")
     /\ prev[p] # NULL
     /\ Id[m.node] = Id[prev[p]]
     /\ next[p] = NULL
  \/ Dispatches(m, "reply")  \* decodes current_request, which is still NULL
  \/ /\ Dispatches(m, "lookup")
     /\ next[p] = NULL

RequestFaults(p, hashId) ==
  IF Id[p] > hashId /\ prev[p] = NULL
  THEN TRUE
  ELSE ~ id_is_between(hashId, p, prev[p]) /\ next[p] = NULL

HandleMessageFault(p) ==
  /\ proc[p] = "recv"
  /\ serving[p].kind = "message"
  /\ MessageFaults(p, serving[p].msg)
  /\ Crash(p)
  /\ UNCHANGED <<ring, store, cstate, asked, inbound, injected>>

(* finger without lookup: buildfinger finds no finger table and sends      *)
(* nothing.  finger with lookup, fack, no flag at all: logged.             *)
HandleIgnored(p) ==
  /\ proc[p] = "recv"
  /\ serving[p].kind = "message"
  /\ \/ Handles(p, "finger") /\ ~ MessageFaults(p, serving[p].msg)
     \/ Handles(p, "fack")
     \/ serving[p].msg.flags = {}
  /\ Finish(p)
  /\ UNCHANGED <<backlog, ring, store, cstate, requesters, injected>>

(* Deviation: only the next peer is calloc'ed on a first join.             *)
HandleFirstJoin_without_prev(p) ==
  /\ Handles(p, "join")
  /\ next[p] = NULL
  /\ LET node == serving[p].msg.node
     IN /\ next' = [next EXCEPT ![p] = node]
        /\ \E m \in notify(p) : direct_send(node, m)
  /\ Finish(p)
  /\ UNCHANGED <<prev, store, cstate, requesters, injected>>

HandleFirstJoin(p) ==
  /\ Handles(p, "join")
  /\ next[p] = NULL
  /\ LET node == serving[p].msg.node
     IN /\ next' = [next EXCEPT ![p] = node]
        /\ prev' = [prev EXCEPT ![p] = node]
        /\ \E m \in notify(p) : direct_send(node, m)
  /\ Finish(p)
  /\ UNCHANGED <<store, cstate, requesters, injected>>

HandleJoin(p) ==
  /\ Handles(p, "join")
  /\ next[p] # NULL
  /\ ~ MessageFaults(p, serving[p].msg)
  /\ LET m == serving[p].msg
     IN IF id_is_between(m.hashId, p, prev[p])
        THEN /\ prev' = [prev EXCEPT ![p] = m.node]
             /\ \E n \in notify(p) : direct_send(m.node, n)
        ELSE /\ direct_send(next[p], m)
             /\ UNCHANGED prev
  /\ Finish(p)
  /\ UNCHANGED <<next, store, cstate, requesters, injected>>

(* Deviations: a notify corrects the previous peer; it assigns the hashId. *)
HandleNotify_corrects_prev(p) ==
  /\ Handles(p, "notify")
  /\ ~ MessageFaults(p, serving[p].msg)
  /\ prev' = [prev EXCEPT ![p] = serving[p].msg.node]
  /\ Finish(p)
  /\ UNCHANGED <<backlog, next, store, cstate, requesters, injected>>

HandleNotify_takes_hashId(p) ==
  /\ Handles(p, "notify")
  /\ ~ MessageFaults(p, serving[p].msg)
  /\ next' = [next EXCEPT ![p] = serving[p].msg.hashId]
  /\ Finish(p)
  /\ UNCHANGED <<backlog, prev, store, cstate, requesters, injected>>

HandleNotify(p) ==
  /\ Handles(p, "notify")
  /\ ~ MessageFaults(p, serving[p].msg)
  /\ next' = [next EXCEPT ![p] = serving[p].msg.node]
  /\ Finish(p)
  /\ UNCHANGED <<backlog, prev, store, cstate, requesters, injected>>

(* is_base is never set, so the third test of the source is always true.   *)
HandleStabilize(p) ==
  /\ Handles(p, "stabilize")
  /\ ~ MessageFaults(p, serving[p].msg)
  /\ LET node == serving[p].msg.node
     IN \/ /\ prev[p] = NULL
           /\ prev' = [prev EXCEPT ![p] = node]
           /\ UNCHANGED backlog
        \/ /\ prev[p] # NULL
           /\ Id[node] = Id[prev[p]]
           /\ \E m \in stabilize(p) : direct_send(next[p], m)
           /\ UNCHANGED prev
        \/ /\ prev[p] # NULL
           /\ Id[node] # Id[prev[p]]
           /\ \E m \in notify(prev[p]) : direct_send(node, m)
           /\ UNCHANGED prev
  /\ Finish(p)
  /\ UNCHANGED <<next, store, cstate, requesters, injected>>

(* The reply goes to the responsible peer, not to the one that asked.      *)
HandleLookup(p) ==
  /\ Handles(p, "lookup")
  /\ ~ MessageFaults(p, serving[p].msg)
  /\ LET m == serving[p].msg
     IN direct_send(next[p], IF id_is_between(m.hashId, next[p], p)
                             THEN found_lookup(m, next[p])
                             ELSE m)
  /\ Finish(p)
  /\ UNCHANGED <<ring, store, cstate, requesters, injected>>

-----------------------------------------------------------------------------
(* receive_handler, on a client's request.                                 *)

ClientOf(p) == serving[p].from
RequestAt(p) == asked[ClientOf(p)]

HandlesRequest(p) ==
  /\ proc[p] = "recv"
  /\ serving[p].kind = "request"
  /\ RequestAt(p) # NULL

RequestHash(p) == Hash[RequestAt(p).key]

Responsible(p) ==
  /\ HandlesRequest(p)
  /\ ~ RequestFaults(p, RequestHash(p))
  /\ id_is_between(RequestHash(p), p, prev[p])

(* Deviation: whatever is above this peer's id is the next peer's.         *)
NextResponsible_unbounded(p) ==
  /\ HandlesRequest(p)
  /\ ~ RequestFaults(p, RequestHash(p))
  /\ ~ id_is_between(RequestHash(p), p, prev[p])
  /\ RequestHash(p) > Id[p]

NextResponsible(p) ==
  /\ HandlesRequest(p)
  /\ ~ RequestFaults(p, RequestHash(p))
  /\ ~ id_is_between(RequestHash(p), p, prev[p])
  /\ id_is_between(RequestHash(p), next[p], p)

(* respond_as_responsible_peer tests the bits one after the other.  A GET  *)
(* that misses ends the request; one that hits leaves the stored value in  *)
(* the decoded request, where a SET bit finds it.                          *)
Misses(table, r) == "get" \in r.ops /\ get(table, r.key) = NULL

Says(r, op, value) == IF op \in r.ops THEN <<[op |-> op, value |-> value]>> ELSE <<>>

(* Deviation: a GET that misses returns before its answer is sent.         *)
Answers_silent_miss(table, r) ==
  IF Misses(table, r)
  THEN <<>>
  ELSE Says(r, "get", get(table, r.key)) \o Says(r, "set", NULL) \o Says(r, "delete", NULL)

Answers(table, r) ==
  Says(r, "get", get(table, r.key)) \o
    IF Misses(table, r)
    THEN <<>>
    ELSE Says(r, "set", NULL) \o Says(r, "delete", NULL)

AfterSet(table, r) ==
  IF "set" \in r.ops
  THEN set(table, r.key, IF "get" \in r.ops THEN get(table, r.key) ELSE r.value)
  ELSE table

DeleteFaults(table, r) ==
  /\ "delete" \in r.ops
  /\ ~ Misses(table, r)
  /\ ~ Deletable(AfterSet(table, r), r.key)

After(table, r) ==
  IF Misses(table, r)
  THEN table
  ELSE IF "delete" \in r.ops THEN delete_element(AfterSet(table, r), r.key) ELSE AfterSet(table, r)

respond_as_responsible_peer(p) ==
  /\ Responsible(p)
  /\ ~ DeleteFaults(store[p], RequestAt(p))
  /\ store' = [store EXCEPT ![p] = After(@, RequestAt(p))]
  /\ inbound' = [inbound EXCEPT ![ClientOf(p)] = @ \o Answers(store[p], RequestAt(p))]
  /\ Finish(p)
  /\ UNCHANGED <<backlog, ring, cstate, asked, reset, injected>>

(* The process dies handling a request: NULL peer, or DELETE of a key that *)
(* is not there.                                                           *)
HandleRequestFault(p) ==
  /\ HandlesRequest(p)
  /\ \/ RequestFaults(p, RequestHash(p))
     \/ Responsible(p) /\ DeleteFaults(store[p], RequestAt(p))
  /\ Crash(p)
  /\ UNCHANGED <<ring, store, cstate, asked, inbound, injected>>

(* A client that closes after its first answer while a second one is still *)
(* to be sent: the peer is killed by SIGPIPE.                              *)
HandleBrokenPipe(p) ==
  /\ Responsible(p)
  /\ ClientOf(p) \in Clients
  /\ Len(Answers(store[p], RequestAt(p))) > 1
  /\ inbound' = [inbound EXCEPT ![ClientOf(p)] = Append(@, Head(Answers(store[p], RequestAt(p))))]
  /\ Crash(p)
  /\ UNCHANGED <<ring, store, cstate, asked, injected>>

(* Connected, but closed before anything was sent: recv returns 0, realloc *)
(* to 0 bytes returns NULL, and receive_handler reads it.                  *)
ReceiveEOF(p) ==
  /\ proc[p] = "recv"
  /\ serving[p].kind = "request"
  /\ RequestAt(p) = NULL
  /\ ClientOf(p) \in Clients
  /\ cstate[ClientOf(p)] = "gone"
  /\ Crash(p)
  /\ UNCHANGED <<ring, store, cstate, asked, inbound, injected>>

-----------------------------------------------------------------------------
(* The next peer is responsible: relay the request and wait.               *)

RelayRequest(p) ==
  /\ NextResponsible(p)
  /\ Reachable(next[p])
  /\ setup_as_client(next[p], RequestOf(p))
  /\ asked' = [asked EXCEPT ![p] = RequestAt(p)]
  /\ proc' = [proc EXCEPT ![p] = "relay"]
  /\ UNCHANGED <<listening, serving, ring, store, cstate, inbound, reset, injected>>

(* setup_as_client returned -1: recv fails, and redirect sends the buffer  *)
(* direct_receive has freed, with SIZE_MAX for its length.                 *)
RelayUnreachable(p) ==
  /\ NextResponsible(p)
  /\ ~ Reachable(next[p])
  /\ inbound' = [inbound EXCEPT ![ClientOf(p)] = Append(@, GarbageAnswer)]
  /\ Finish(p)
  /\ UNCHANGED <<backlog, ring, store, cstate, asked, reset, injected>>

(* redirect: one recv, which returns what has arrived by then, one send.   *)
RelayAnswer(p) ==
  /\ proc[p] = "relay"
  /\ \E n \in 1 .. Len(inbound[p]) :
       inbound' = [inbound EXCEPT ![ClientOf(p)] = @ \o SubSeq(inbound[p], 1, n), ![p] = <<>>]
  /\ asked' = [asked EXCEPT ![p] = NULL]
  /\ Finish(p)
  /\ UNCHANGED <<backlog, ring, store, cstate, reset, injected>>

(* The next peer died: recv fails (as above) or sees an orderly end, and   *)
(* then redirect has nothing to send.                                      *)
RelayReset(p) ==
  /\ proc[p] = "relay"
  /\ reset[p]
  /\ inbound[p] = <<>>
  /\ \/ inbound' = [inbound EXCEPT ![ClientOf(p)] = Append(@, GarbageAnswer)]
     \/ UNCHANGED inbound
  /\ asked' = [asked EXCEPT ![p] = NULL]
  /\ reset' = [reset EXCEPT ![p] = FALSE]
  /\ Finish(p)
  /\ UNCHANGED <<backlog, ring, store, cstate, injected>>

(* Neither this peer nor the next: queue_append and queue_pop are loops    *)
(* that never run, so the request is forgotten and no lookup is sent.      *)
HandleUnknownResponsible(p) ==
  /\ HandlesRequest(p)
  /\ ~ RequestFaults(p, RequestHash(p))
  /\ ~ Responsible(p)
  /\ ~ NextResponsible(p)
  /\ Finish(p)
  /\ UNCHANGED <<backlog, ring, store, cstate, requesters, injected>>

-----------------------------------------------------------------------------
(* client.c: connect, send one request, wait for one answer.  A client may *)
(* be killed once it has connected.                                        *)

ClientConnect(c, p) ==
  /\ cstate[c] = "idle"
  /\ cstate' = [cstate EXCEPT ![c] = IF Reachable(p) THEN "connected" ELSE "refused"]
  /\ setup_as_client(p, RequestOf(c))
  /\ UNCHANGED <<proc, listening, serving, ring, store, requesters, injected>>

ClientSend(c) ==
  /\ cstate[c] = "connected"
  /\ cstate' = [cstate EXCEPT ![c] = "waiting"]
  /\ \E r \in Requests : asked' = [asked EXCEPT ![c] = r]
  /\ UNCHANGED <<proc, listening, backlog, serving, ring, store, inbound, reset, injected>>

ClientAbort(c) ==
  /\ cstate[c] \in {"connected", "waiting"}
  /\ cstate' = [cstate EXCEPT ![c] = "gone"]
  /\ UNCHANGED <<proc, listening, backlog, serving, ring, store, requesters, injected>>

(* A message that no process of this program sent.                         *)
Inject(p) ==
  /\ injected < MaxInject
  /\ injected' = injected + 1
  /\ Reachable(p)
  /\ \E m \in Injected : direct_send(p, m)
  /\ UNCHANGED <<proc, listening, serving, ring, store, cstate, requesters>>

-----------------------------------------------------------------------------
receive_handler(p) ==
  \/ HandleMessageFault(p)
  \/ HandleIgnored(p)
  \/ HandleFirstJoin(p)
  \/ HandleJoin(p)
  \/ HandleNotify(p)
  \/ HandleStabilize(p)
  \/ HandleLookup(p)
  \/ HandleRequestFault(p)
  \/ respond_as_responsible_peer(p)
  \/ HandleBrokenPipe(p)
  \/ RelayRequest(p)
  \/ RelayUnreachable(p)
  \/ HandleUnknownResponsible(p)

redirect(p) == RelayAnswer(p) \/ RelayReset(p)

PeerStep(p) ==
  \/ Enter(p)
  \/ get_new_connection(p)
  \/ ReceiveEOF(p)
  \/ receive_handler(p)
  \/ redirect(p)

Next ==
  \/ \E p \in Peers : Listen(p) \/ PeerStep(p) \/ Inject(p)
  \/ \E c \in Clients : ClientSend(c) \/ ClientAbort(c) \/ \E p \in Peers : ClientConnect(c, p)

(* A running thread goes on, and a connected client sends.  Nobody has to  *)
(* start a process, connect a client or kill one.                          *)
Fairness ==
  /\ \A p \in Peers : WF_vars(PeerStep(p))
  /\ \A c \in Clients : WF_vars(ClientSend(c))

Spec == Init /\ [][Next]_vars
FairSpec == Spec /\ Fairness

-----------------------------------------------------------------------------
(* Properties.                                                             *)

(* The types of the variables; a connection is being served exactly while  *)
(* the thread is in recv or in redirect.                                   *)
TypeOK ==
  /\ proc \in [Peers -> {"down", "starting", "accept", "recv", "relay", "crashed"}]
  /\ listening \in [Peers -> BOOLEAN]
  /\ backlog \in [Peers -> Seq(Connection)]
  /\ serving \in [Peers -> Connection \union {NULL}]
  /\ next \in [Peers -> Peers \union {NULL}]
  /\ prev \in [Peers -> Peers \union {NULL}]
  /\ store \in [Peers -> Table]
  /\ cstate \in [Clients -> {"idle", "refused", "connected", "waiting", "gone"}]
  /\ asked \in [Requesters -> Request \union {NULL}]
  /\ inbound \in [Requesters -> Seq(Answer)]
  /\ reset \in [Requesters -> BOOLEAN]
  /\ injected \in 0 .. MaxInject

(* Once a peer knows a next peer (a join made it calloc both neighbours),  *)
(* no message but a reply and no request makes receive_handler dereference *)
(* a missing neighbour, whatever order joins, notifies and stabilizes      *)
(* arrive in.                                                              *)
LinkedPeerSurvives ==
  \A p \in Peers :
    next[p] # NULL =>
      /\ prev[p] # NULL
      /\ \A flag \in Flags \ {"reply"} : Handles(p, flag) => ~ MessageFaults(p, serving[p].msg)
      /\ HandlesRequest(p) => ~ RequestFaults(p, RequestHash(p))

(* Peers that relay block in redirect until the next peer answers, and a   *)
(* blocked peer serves nobody: no set of peers is ever blocked each on     *)
(* another of the set.                                                     *)
WaitsFor(p, q) == proc[p] = "relay" /\ next[p] = q

NoWaitCycle ==
  \A S \in SUBSET Peers : S # {} => \E p \in S : \A q \in S : ~ WaitsFor(p, q)

(* A relayed request is never relayed again by the peer that gets it: only *)
(* requests that came from a client are.                                   *)
SingleHop == \A p \in Peers : proc[p] = "relay" => ClientOf(p) \in Clients

(* As built, a process serves one connection, at a time when it has no     *)
(* neighbours: no client of any network is ever sent an answer ...         *)
NothingAnswered == CloseListener => \A c \in Clients : inbound[c] = <<>>

(* ... and no peer gets to know a next peer other than its previous one,   *)
(* so that no ring of three can form.                                      *)
OneNeighbour ==
  CloseListener => \A p \in Peers : next[p] # NULL => next[p] = prev[p]

(* When every peer joined at another, has handled a join itself, and all   *)
(* the messages have been handled, the two directions of the ring agree.   *)
RingFormed ==
  (\A p \in Peers : proc[p] = "accept" /\ backlog[p] = <<>> /\ next[p] # NULL)
    => \A p \in Peers : next[p] = JoinAt[p] /\ prev[JoinAt[p]] = p

(* Somebody died: a client before it was answered, or a peer.              *)
Disturbed ==
  \/ \E c \in Clients : cstate[c] = "gone"
  \/ \E p \in Peers : proc[p] = "crashed"

Connected(c, p) == RequestOf(c) \in ToSet(backlog[p]) \union {serving[p]}

InRangeOf(c, p) ==
  LET hashId == Hash[asked[c].key]
  IN id_is_between(hashId, p, prev[p]) \/ id_is_between(hashId, next[p], p)

(* On a settled ring, a request for a key of the peer the client asked, or *)
(* of the next one, is answered, however many other requests are queued at *)
(* both and relayed between them.                                          *)
NearRequestAnswered ==
  \A c \in Clients :
    (cstate[c] = "waiting" /\ \E p \in Peers : Connected(c, p) /\ InRangeOf(c, p))
      ~> (inbound[c] # <<>> \/ Disturbed)

(* peer_client_full_cycle.service: a request that neither the asked peer   *)
(* nor the next is responsible for, but some peer is, is answered too.     *)
FarRequestAnswered ==
  \A c \in Clients :
    (cstate[c] = "waiting" /\ \E p \in Peers : id_is_between(Hash[asked[c].key], p, prev[p]))
      ~> (inbound[c] # <<>> \/ Disturbed)

(* "correct peer_info.next" (peer.c:165): a peer that handles a notify     *)
(* afterwards has the peer it names as next.                               *)
NotifySetsNext ==
  [][\A p \in Peers :
       Handles(p, "notify") /\ serving'[p] # serving[p] => next'[p] = serving[p].msg.node]_vars

(* "Can be safely called without the element existing" (hash_helper.h:38): *)
(* a responsible peer survives a request that does nothing but delete.     *)
DeleteIsSafe ==
  [][\A p \in Peers :
       Responsible(p) /\ RequestAt(p).ops = {"delete"} /\ serving'[p] # serving[p]
         => proc'[p] # "crashed"]_vars

(* main's loop hands get_new_connection the listening socket again and     *)
(* again: a peer that waits for a connection can get one.                  *)
AcceptsAgain == \A p \in Peers : proc[p] = "accept" => listening[p]

-----------------------------------------------------------------------------
(* The network as one key-value table (KeyValueService): the table of      *)
(* whoever holds the key, and the first answer each client was sent, while *)
(* a peer still relays it as well.                                         *)
Holders(k) == {p \in Peers : store[p][k] # NULL}

TheTable ==
  [k \in Keys |-> IF Holders(k) = {} THEN NULL ELSE store[CHOOSE p \in Holders(k) : TRUE][k]]

Relayers(c) == {p \in Peers : proc[p] = "relay" /\ serving[p] = RequestOf(c)}

(* What has been sent towards c, and the first of it that is an answer.    *)
SentTo(c) ==
  inbound[c] \o (IF Relayers(c) = {} THEN <<>> ELSE inbound[CHOOSE p \in Relayers(c) : TRUE])

FirstAnswer(sent) ==
  LET answers == {i \in DOMAIN sent : sent[i] # GarbageAnswer}
  IN IF answers = {} THEN NULL ELSE sent[Min(answers)]

TheAnswers == [c \in Clients |-> FirstAnswer(SentTo(c))]

Service ==
  INSTANCE KeyValueService WITH
    kv <- TheTable, pending <- [c \in Clients |-> asked[c]], answer <- TheAnswers

(* Every request takes effect once, at the peer that holds its key, and    *)
(* the answer the client gets through a relay is the one of that moment.   *)
ServesOneTable == Service!Spec

==============================================================================
