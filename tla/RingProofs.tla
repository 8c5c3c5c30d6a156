------------------------------ MODULE RingProofs ------------------------------
(***************************************************************************)
(* How a ring without faults forms, in which one peer joins at each, and   *)
(* that a peer of it stores only what lies where it is responsible, for    *)
(* any number of peers and clients.                                        *)
(***************************************************************************)
EXTENDS PeerRing, PeerProofs, FiniteSetTheorems

-----------------------------------------------------------------------------
(* The inductive invariant.                                                *)

Joins    == {c \in MessageConnection : c.msg.flags = {"join"}}
Notifies == {c \in MessageConnection : c.msg.flags = {"notify"}}

(* The connections of a peer: the queued ones and the one it serves.       *)
At(q) == ToSet(backlog[q]) \union {serving[q]}

(* At most one of the connections S is queued; and at most one is there.   *)
Lone(S, queue) == \A i, j \in DOMAIN queue : queue[i] \in S /\ queue[j] \in S => i = j

AtMostOne(S, q) ==
  /\ Lone(S, backlog[q])
  /\ serving[q] \in S => \A c \in ToSet(backlog[q]) : c \notin S

(* The only messages are joins at the peer the sender was told to join at, *)
(* and the notifies that answer them.                                      *)
OwnMessages ==
  \A q \in Peers : \A c \in At(q) \intersect MessageConnection :
    \/ c \in Joins /\ JoinAt[c.msg.node] = q
    \/ c \in Notifies /\ c.msg.node = JoinAt[q]

(* Nothing is queued twice.                                                *)
QueuedOnce ==
  \A q \in Peers :
    /\ AtMostOne(Joins, q)
    /\ Lone(Notifies, backlog[q])
    /\ \A c \in Clients :
         /\ Lone({RequestOf(c)}, backlog[q])
         /\ cstate[c] = "idle" => RequestOf(c) \notin ToSet(backlog[q])

Unstarted(p) == proc[p] \in {"down", "starting"}

Notified(p) == proc[p] = "crashed" \/ next[p] = JoinAt[p] \/ \E c \in At(p) : c \in Notifies

(* How far p's join at q has come: not sent, on its way or lost, handled.  *)
Progress(p, q) ==
  /\ Unstarted(p) => next[q] = NULL /\ \A c \in At(q) : c \notin Joins
  /\ next[q] = NULL => prev[q] = NULL /\ \A c \in At(p) : c \notin Notifies
  /\ next[q] # NULL => prev[q] = p /\ Notified(p) /\ \A c \in At(q) : c \notin Joins

JoinProgress == \A p, q \in Peers : JoinAt[p] = q => Progress(p, q)

(* Whoever runs listens; whoever was never started knows nobody.           *)
Running ==
  \A p \in Peers :
    /\ proc[p] \notin {"down", "crashed"} => listening[p]
    /\ proc[p] = "down" => next[p] = NULL

(* What p stores lies between the id of the peer that joined at it and its *)
(* own.                                                                    *)
Covers(p, k) == \E b \in Peers : JoinAt[b] = p /\ in_range(Hash[k], Id[p], Id[b])

StoresOwn == \A p \in Peers, k \in Keys : store[p][k] # NULL => Covers(p, k)

RingInv == OwnMessages /\ QueuedOnce /\ JoinProgress /\ Running /\ StoresOwn

-----------------------------------------------------------------------------
(* What a step does to the connections of a peer.                          *)

(* q gets no connection of S: its queue stays, is appended to, gives its   *)
(* oldest connection to the thread, or goes away with the process.         *)
NoGain(S, q) ==
  \/ /\ serving'[q] \in {serving[q], NULL}
     /\ \/ backlog'[q] = backlog[q]
        \/ \E e \in Connection \ S : backlog'[q] = Append(backlog[q], e)
  \/ backlog[q] # <<>> /\ serving'[q] = Head(backlog[q]) /\ backlog'[q] = Tail(backlog[q])
  \/ backlog'[q] = <<>> /\ serving'[q] = NULL

(* Appending and taking the head, for a set of connections.                *)
LEMMA AppendLone ==
  ASSUME NEW queue \in Seq(Connection), NEW e \in Connection, NEW S
  PROVE  /\ ToSet(Append(queue, e)) = ToSet(queue) \union {e}
         /\ e \notin S /\ Lone(S, queue) => Lone(S, Append(queue, e))
         /\ (\A c \in ToSet(queue) : c \notin S) => Lone(S, Append(queue, e))
<1>1. /\ DOMAIN Append(queue, e) = 1 .. Len(queue) + 1
      /\ DOMAIN queue = 1 .. Len(queue)
      /\ \A i \in 1 .. Len(queue) : Append(queue, e)[i] = queue[i]
      /\ Append(queue, e)[Len(queue) + 1] = e
      /\ Len(queue) \in Nat
  OBVIOUS
<1> DEFINE longer == Append(queue, e)
<1> HIDE DEF longer
<1>2. e \notin S /\ Lone(S, queue) => Lone(S, longer)
  BY <1>1 DEF Lone, longer
<1>3. (\A c \in ToSet(queue) : c \notin S) => Lone(S, longer)
  BY <1>1 DEF Lone, ToSet, longer
<1> QED
  BY <1>2, <1>3, AppendFacts DEF longer

LEMMA TailLone ==
  ASSUME NEW queue \in Seq(Connection), queue # <<>>, NEW S
  PROVE  /\ ToSet(queue) = ToSet(Tail(queue)) \union {Head(queue)}
         /\ Lone(S, queue) => Lone(S, Tail(queue))
         /\ Lone(S, queue) /\ Head(queue) \in S => \A c \in ToSet(Tail(queue)) : c \notin S
<1>1. /\ DOMAIN queue = 1 .. Len(queue)
      /\ DOMAIN Tail(queue) = 1 .. Len(queue) - 1
      /\ \A i \in 1 .. Len(queue) - 1 : Tail(queue)[i] = queue[i + 1]
      /\ Head(queue) = queue[1]
      /\ Len(queue) \in Nat \ {0}
  OBVIOUS
<1> DEFINE rest == Tail(queue)
<1> HIDE DEF rest
<1>2. ToSet(queue) = ToSet(rest) \union {Head(queue)}
  <2>1. ToSet(rest) \subseteq ToSet(queue) /\ Head(queue) \in ToSet(queue)
    BY TailFacts DEF rest
  <2>2. ASSUME NEW i \in 1 .. Len(queue)
        PROVE  queue[i] \in ToSet(rest) \union {Head(queue)}
    <3>1. CASE i = 1
      BY <1>1, <3>1
    <3>2. CASE i # 1
      <4>1. i - 1 \in 1 .. Len(queue) - 1 /\ rest[i - 1] = queue[i]
        BY <1>1, <3>2 DEF rest
      <4> QED
        BY <1>1, <4>1 DEF ToSet, rest
    <3> QED
      BY <3>1, <3>2
  <2>3. ToSet(queue) \subseteq ToSet(rest) \union {Head(queue)}
    BY <1>1, <2>2 DEF ToSet
  <2> QED
    BY <2>1, <2>3
<1>3. Lone(S, queue) => Lone(S, rest)
  BY <1>1 DEF Lone, rest
<1>4. Lone(S, queue) /\ Head(queue) \in S => \A c \in ToSet(rest) : c \notin S
  BY <1>1 DEF Lone, ToSet, rest
<1> QED
  BY <1>2, <1>3, <1>4 DEF rest

(* Without a gain, there is no more than there was.                        *)
LEMMA NoMore ==
  ASSUME TypeInv, NEW q \in Peers, NEW S \in SUBSET Connection, NoGain(S, q)
  PROVE  /\ \A c \in S : c \in At(q)' => c \in At(q)
         /\ \A c \in S : c \in ToSet(backlog'[q]) => c \in ToSet(backlog[q])
         /\ Lone(S, backlog[q]) => Lone(S, backlog'[q])
         /\ AtMostOne(S, q) => AtMostOne(S, q)'
<1>1. backlog[q] \in Seq(Connection) /\ NULL \notin S
  BY PeerAssumption DEF TypeInv, TypeOK
<1>2. ToSet(<< >>) = {} /\ Lone(S, << >>)
  BY DEF ToSet, Lone
<1>3. CASE serving'[q] \in {serving[q], NULL} /\ backlog'[q] = backlog[q]
  BY <1>1, <1>3 DEF At, AtMostOne
<1>4. CASE serving'[q] \in {serving[q], NULL} /\ \E e \in Connection \ S : backlog'[q] = Append(backlog[q], e)
  <2>1. PICK e \in Connection \ S : backlog'[q] = Append(backlog[q], e)
    BY <1>4
  <2>2. ToSet(backlog'[q]) = ToSet(backlog[q]) \union {e} /\ (Lone(S, backlog[q]) => Lone(S, backlog'[q]))
    BY <1>1, <2>1, AppendLone
  <2> QED
    BY <1>1, <1>4, <2>1, <2>2 DEF At, AtMostOne
<1>5. CASE backlog[q] # <<>> /\ serving'[q] = Head(backlog[q]) /\ backlog'[q] = Tail(backlog[q])
  <2>1. /\ ToSet(backlog[q]) = ToSet(backlog'[q]) \union {serving'[q]}
        /\ Lone(S, backlog[q]) => Lone(S, backlog'[q])
        /\ Lone(S, backlog[q]) /\ serving'[q] \in S => \A c \in ToSet(backlog'[q]) : c \notin S
    BY <1>1, <1>5, TailLone
  <2> QED
    BY <2>1 DEF At, AtMostOne
<1>6. CASE backlog'[q] = <<>> /\ serving'[q] = NULL
  BY <1>1, <1>2, <1>6 DEF At, AtMostOne
<1> QED
  BY <1>3, <1>4, <1>5, <1>6 DEF NoGain

(* The first connection of S that q gets is the only one.                  *)
LEMMA FirstOne ==
  ASSUME TypeInv, NEW q \in Peers, NEW S \in SUBSET Connection, NEW e \in Connection,
         \A c \in At(q) : c \notin S, backlog'[q] = Append(backlog[q], e), serving'[q] \in {serving[q], NULL}
  PROVE  AtMostOne(S, q)' /\ At(q)' \subseteq At(q) \union {e, NULL} /\ e \in At(q)'
<1>1. backlog[q] \in Seq(Connection) /\ NULL \notin S
  BY PeerAssumption DEF TypeInv, TypeOK
<1>2. ToSet(backlog'[q]) = ToSet(backlog[q]) \union {e} /\ Lone(S, backlog'[q])
  BY <1>1, AppendLone DEF At
<1> QED
  BY <1>1, <1>2 DEF At, AtMostOne

-----------------------------------------------------------------------------
(* Which steps there are.                                                  *)

(* A message with one flag takes that flag's branch.                       *)
LEMMA Dispatched ==
  ASSUME NEW m, NEW g \in Flags, m.flags = {g}, NEW flag
  PROVE  Dispatches(m, flag) <=> flag = g
<1>1. \A i \in 1 .. 7 : \A j \in 1 .. 7 : Precedence[i] = Precedence[j] => i = j
  BY DEF Precedence
<1>2. DOMAIN Precedence = 1 .. 7 /\ \E i \in 1 .. 7 : Precedence[i] = g
  BY DEF Precedence, Flags
<1>3. PICK i \in 1 .. 7 : Precedence[i] = g
  BY <1>2
<1>4. \A j \in 1 .. i - 1 : Precedence[j] # g
  BY <1>1, <1>3
<1>5. Dispatches(m, g)
  BY <1>2, <1>3, <1>4 DEF Dispatches
<1> QED
  BY <1>5 DEF Dispatches

(* What a thread can be handling: a join at a peer that knows nobody, or a *)
(* notify that names the peer it joined at.                                *)
LEMMA OwnMessage ==
  ASSUME TypeInv, RingInv, NEW p \in Peers, proc[p] = "recv", serving[p].kind = "message"
  PROVE  /\ serving[p] \in MessageConnection
         /\ serving[p] \in At(p)
         /\ serving[p].msg.node \in Peers
         /\ \/ /\ serving[p] \in Joins
               /\ JoinAt[serving[p].msg.node] = p
               /\ next[p] = NULL
               /\ \A flag : Dispatches(serving[p].msg, flag) <=> flag = "join"
            \/ /\ serving[p] \in Notifies
               /\ serving[p].msg.node = JoinAt[p]
               /\ \A flag : Dispatches(serving[p].msg, flag) <=> flag = "notify"
<1>1. serving[p] \in MessageConnection /\ serving[p] \in At(p)
  BY DEF TypeInv, ServingOK, Connection, MessageConnection, RequestConnection, At
<1>2. serving[p].msg.node \in Peers
  BY <1>1 DEF MessageConnection, PeerMessage
<1>3. \/ serving[p] \in Joins /\ JoinAt[serving[p].msg.node] = p
      \/ serving[p] \in Notifies /\ serving[p].msg.node = JoinAt[p]
  BY <1>1 DEF RingInv, OwnMessages
<1>4. CASE serving[p] \in Joins
  <2>1. JoinAt[serving[p].msg.node] = p => next[p] = NULL
    BY <1>1, <1>2, <1>4 DEF RingInv, JoinProgress, Progress
  <2>2. \A flag : Dispatches(serving[p].msg, flag) <=> flag = "join"
    BY <1>4, Dispatched DEF Joins, Flags
  <2>3. serving[p] \notin Notifies
    BY <1>4 DEF Joins, Notifies
  <2> QED
    BY <1>1, <1>2, <1>3, <1>4, <2>1, <2>2, <2>3
<1>5. CASE serving[p] \in Notifies
  <2>1. \A flag : Dispatches(serving[p].msg, flag) <=> flag = "notify"
    BY <1>5, Dispatched DEF Notifies, Flags
  <2>2. serving[p] \notin Joins
    BY <1>5 DEF Joins, Notifies
  <2> QED
    BY <1>1, <1>2, <1>3, <1>5, <2>1, <2>2
<1> QED
  BY <1>3, <1>4, <1>5

(* A step in which no message is sent and no neighbour changes.            *)
Quiet ==
  /\ UNCHANGED <<next, prev>>
  /\ \A q \in Peers :
       /\ NoGain(MessageConnection, q)
       /\ Unstarted(q)' <=> Unstarted(q)
       /\ Notified(q) => Notified(q)'

(* A request has been dealt with.                                          *)
LEMMA QuietFinish ==
  ASSUME TypeInv, NEW p \in Peers, Finish(p), proc[p] \in {"recv", "relay"},
         serving[p] \in RequestConnection, UNCHANGED <<backlog, next, prev>>
  PROVE  Quiet
<1> SUFFICES ASSUME NEW q \in Peers
             PROVE  /\ NoGain(MessageConnection, q)
                    /\ Unstarted(q)' <=> Unstarted(q)
                    /\ Notified(q) => Notified(q)'
  BY DEF Quiet
<1>1. /\ backlog'[q] = backlog[q]
      /\ q # p => serving'[q] = serving[q] /\ proc'[q] = proc[q]
      /\ serving'[p] = NULL /\ proc'[p] = "accept"
  BY DEF Finish, TypeInv, TypeOK
<1>2. serving[p] \notin Notifies
  BY DEF RequestConnection, Notifies, MessageConnection
<1> QED
  BY <1>1, <1>2 DEF NoGain, Unstarted, Notified, At

(* A process has died.                                                     *)
LEMMA QuietCrash ==
  ASSUME TypeInv, NEW p \in Peers, Crash(p), proc[p] = "recv", UNCHANGED <<next, prev>>
  PROVE  Quiet
<1> SUFFICES ASSUME NEW q \in Peers
             PROVE  /\ NoGain(MessageConnection, q)
                    /\ Unstarted(q)' <=> Unstarted(q)
                    /\ Notified(q) => Notified(q)'
  BY DEF Quiet
<1>1. /\ q # p => serving'[q] = serving[q] /\ proc'[q] = proc[q] /\ backlog'[q] = backlog[q]
      /\ serving'[p] = NULL /\ proc'[p] = "crashed" /\ backlog'[p] = <<>>
  BY DEF Crash, TypeInv, TypeOK
<1> QED
  BY <1>1 DEF NoGain, Unstarted, Notified, At

(* A connection has been accepted.                                         *)
LEMMA QuietAccept ==
  ASSUME TypeInv, NEW p \in Peers, get_new_connection(p)
  PROVE  Quiet
<1> SUFFICES ASSUME NEW q \in Peers
             PROVE  /\ NoGain(MessageConnection, q)
                    /\ Unstarted(q)' <=> Unstarted(q)
                    /\ Notified(q) => Notified(q)'
  BY DEF Quiet, get_new_connection, ring
<1>1. /\ q # p => serving'[q] = serving[q] /\ proc'[q] = proc[q] /\ backlog'[q] = backlog[q]
      /\ proc[p] = "accept" /\ proc'[p] = "recv"
      /\ backlog[p] # <<>> /\ serving'[p] = Head(backlog[p]) /\ backlog'[p] = Tail(backlog[p])
      /\ next' = next
  BY RingAssumption DEF get_new_connection, ring, TypeInv, TypeOK
<1>2. CASE q # p
  BY <1>1, <1>2 DEF NoGain, Unstarted, Notified, At
<1>3. CASE q = p
  <2>1. backlog[p] \in Seq(Connection)
    BY DEF TypeInv, TypeOK
  <2>2. ToSet(backlog[p]) = ToSet(backlog'[p]) \union {serving'[p]}
    BY <1>1, <2>1, TailLone
  <2>3. \A c \in At(p) : c \in Notifies => c \in At(p)'
    <3>1. serving[p] \in Notifies => serving[p] \in At(p)'
      BY <1>1, PeerAssumption DEF TypeInv, ServingOK, Notifies, Connection
    <3> QED
      BY <2>2, <3>1 DEF At
  <2> QED
    BY <1>1, <1>3, <2>3 DEF NoGain, Unstarted, Notified
<1> QED
  BY <1>2, <1>3

(* A request has been queued.                                              *)
LEMMA QuietConnect ==
  ASSUME TypeInv, NEW q \in Peers, NEW e \in RequestConnection, setup_as_client(q, e),
         UNCHANGED <<serving, next, prev>>,
         proc' = proc \/ \E p \in Peers : proc[p] = "recv" /\ proc' = [proc EXCEPT ![p] = "relay"]
  PROVE  Quiet
<1> SUFFICES ASSUME NEW t \in Peers
             PROVE  /\ NoGain(MessageConnection, t)
                    /\ Unstarted(t)' <=> Unstarted(t)
                    /\ Notified(t) => Notified(t)'
  BY DEF Quiet
<1>1. /\ e \in Connection \ MessageConnection
      /\ backlog'[t] = backlog[t] \/ backlog'[t] = Append(backlog[t], e)
  BY DEF setup_as_client, RequestConnection, MessageConnection, Connection, TypeInv, TypeOK
<1>2. ToSet(backlog[t]) \subseteq ToSet(backlog'[t])
  <2>1. backlog[t] \in Seq(Connection)
    BY DEF TypeInv, TypeOK
  <2>2. ToSet(Append(backlog[t], e)) = ToSet(backlog[t]) \union {e}
    BY <1>1, <2>1, AppendLone
  <2> QED
    BY <1>1, <2>2
<1>3. /\ proc'[t] \in {"down", "starting"} <=> proc[t] \in {"down", "starting"}
      /\ proc[t] = "crashed" => proc'[t] = "crashed"
  BY DEF TypeInv, TypeOK
<1> QED
  BY <1>1, <1>2, <1>3 DEF NoGain, Unstarted, Notified, At

(* Every step but these four is quiet.                                     *)
LEMMA QuietStep ==
  ASSUME TypeInv, RingInv, [Next]_vars
  PROVE  \/ \E p \in Peers : Listen(p) \/ Enter(p) \/ HandleFirstJoin(p) \/ HandleNotify(p)
         \/ Quiet
<1>1. CASE UNCHANGED vars
  BY <1>1 DEF vars, ring, Quiet, NoGain, Unstarted, Notified, At
<1>2. ASSUME NEW c \in Clients, ClientSend(c) \/ ClientAbort(c)
      PROVE  Quiet
  BY <1>2 DEF ClientSend, ClientAbort, ring, Quiet, NoGain, Unstarted, Notified, At
<1>3. ASSUME NEW c \in Clients, NEW p \in Peers, ClientConnect(c, p)
      PROVE  Quiet
  <2>1. RequestOf(c) \in RequestConnection
    BY DEF RequestOf, RequestConnection, Requesters
  <2> QED
    BY <1>3, <2>1, QuietConnect DEF ClientConnect, ring
<1>4. ASSUME NEW p \in Peers
      PROVE  ~ Inject(p)
  BY RingAssumption DEF Inject, TypeInv, TypeOK
<1>5. ASSUME NEW p \in Peers,
             ReceiveEOF(p) \/ HandleMessageFault(p) \/ HandleRequestFault(p) \/ HandleBrokenPipe(p)
      PROVE  Quiet
  BY <1>5, QuietCrash DEF ReceiveEOF, HandleMessageFault, HandleRequestFault, HandleBrokenPipe, ring,
     HandlesRequest, Responsible
<1>6. ASSUME NEW p \in Peers,
             HandleIgnored(p) \/ HandleJoin(p) \/ HandleStabilize(p) \/ HandleLookup(p)
      PROVE  FALSE
  <2>1. proc[p] = "recv" /\ serving[p].kind = "message"
    BY <1>6 DEF HandleIgnored, HandleJoin, HandleStabilize, HandleLookup, Handles
  <2>2. ~ HandleIgnored(p)
    BY <2>1, OwnMessage DEF HandleIgnored, Handles, Joins, Notifies
  <2>3. ~ HandleJoin(p)
    BY <2>1, OwnMessage DEF HandleJoin, Handles
  <2>4. ~ HandleStabilize(p) /\ ~ HandleLookup(p)
    BY <2>1, OwnMessage DEF HandleStabilize, HandleLookup, Handles
  <2> QED
    BY <1>6, <2>2, <2>3, <2>4
<1>7. ASSUME NEW p \in Peers,
             respond_as_responsible_peer(p) \/ RelayUnreachable(p) \/ HandleUnknownResponsible(p)
      PROVE  Quiet
  <2>1. HandlesRequest(p) /\ Finish(p) /\ UNCHANGED <<backlog, next, prev>>
    BY <1>7 DEF respond_as_responsible_peer, RelayUnreachable, HandleUnknownResponsible, Responsible,
       NextResponsible, ring
  <2> QED
    BY <2>1, HandledRequest, QuietFinish DEF HandlesRequest
<1>8. ASSUME NEW p \in Peers, redirect(p)
      PROVE  Quiet
  <2>1. proc[p] = "relay" /\ Finish(p) /\ UNCHANGED <<backlog, next, prev>>
    BY <1>8 DEF redirect, RelayAnswer, RelayReset, ring
  <2> QED
    BY <2>1, QuietFinish DEF TypeInv, ServingOK
<1>9. ASSUME NEW p \in Peers, RelayRequest(p)
      PROVE  Quiet
  <2>1. /\ next[p] \in Peers /\ RequestOf(p) \in RequestConnection
        /\ setup_as_client(next[p], RequestOf(p)) /\ UNCHANGED <<serving, next, prev>>
        /\ proc[p] = "recv" /\ proc' = [proc EXCEPT ![p] = "relay"]
    BY <1>9, NextKnown DEF RelayRequest, NextResponsible, HandlesRequest, RequestOf, RequestConnection,
       Requesters, ring
  <2> QED
    BY <2>1, QuietConnect
<1> QED
  BY <1>1, <1>2, <1>3, <1>4, <1>5, <1>6, <1>7, <1>8, <1>9, QuietAccept DEF Next, PeerStep, receive_handler

-----------------------------------------------------------------------------
(* What is sent.                                                           *)

(* join and notify, where nothing is left over in unassigned flags.        *)
LEMMA OwnJoin ==
  ASSUME NEW p \in Peers, NEW m \in join(p)
  PROVE  Message(m) \in Joins /\ Message(m).msg = m /\ m.node = p
<1>1. m \in PeerMessage /\ m.flags = {"join"} /\ m.node = p
  BY OwnMessageType, RingAssumption DEF join, Unassigned
<1> QED
  BY <1>1 DEF Message, Joins, MessageConnection

LEMMA OwnNotify ==
  ASSUME NEW p \in Peers, NEW m \in notify(p)
  PROVE  Message(m) \in Notifies /\ Message(m).msg = m /\ m.node = p
<1>1. m \in PeerMessage /\ m.flags = {"notify"} /\ m.node = p
  BY OwnMessageType, RingAssumption DEF notify, Unassigned
<1> QED
  BY <1>1 DEF Message, Notifies, MessageConnection

(* Sending e to t.                                                         *)
LEMMA Sending ==
  ASSUME TypeInv, NEW t \in Peers, NEW e \in Connection, setup_as_client(t, e), NEW q \in Peers,
         serving'[q] \in {serving[q], NULL}
  PROVE  /\ At(q)' \subseteq At(q) \union {e, NULL}
         /\ q # t => At(q)' \subseteq At(q) \union {NULL}
         /\ ToSet(backlog[q]) \subseteq ToSet(backlog'[q])
         /\ Reachable(t) => e \in ToSet(backlog'[t])
         /\ \A S : q # t \/ e \notin S => NoGain(S, q)
         /\ backlog'[t] = backlog[t] \/ backlog'[t] = Append(backlog[t], e)
<1>1. backlog[q] \in Seq(Connection) /\ backlog[t] \in Seq(Connection)
  BY DEF TypeInv, TypeOK
<1>2. /\ backlog'[t] = IF Reachable(t) THEN Append(backlog[t], e) ELSE backlog[t]
      /\ q # t => backlog'[q] = backlog[q]
  BY DEF setup_as_client, TypeInv, TypeOK
<1>3. /\ ToSet(Append(backlog[q], e)) = ToSet(backlog[q]) \union {e}
      /\ ToSet(Append(backlog[t], e)) = ToSet(backlog[t]) \union {e}
  BY <1>1, AppendLone
<1>4. At(q)' \subseteq At(q) \union {e, NULL} /\ (q # t => At(q)' \subseteq At(q) \union {NULL})
  BY <1>2, <1>3 DEF At
<1>5. ASSUME NEW S, q # t \/ e \notin S
      PROVE  NoGain(S, q)
  BY <1>2, <1>5 DEF NoGain
<1> QED
  BY <1>2, <1>3, <1>4, <1>5

(* The four steps that are not quiet.                                      *)
LEMMA ListenFacts ==
  ASSUME TypeInv, RingInv, NEW p \in Peers, Listen(p)
  PROVE  /\ proc[p] = "down" /\ next[p] = NULL
         /\ next' = next /\ UNCHANGED <<backlog, serving>>
         /\ proc' = [proc EXCEPT ![p] = "starting"]
         /\ prev' = [prev EXCEPT ![p] = NULL]
<1>1. proc[p] = "down"
  BY RingAssumption DEF Listen
<1>2. next[p] = NULL
  BY <1>1 DEF RingInv, Running
<1> QED
  BY <1>1, <1>2 DEF Listen, TypeInv, TypeOK

LEMMA EnterFacts ==
  ASSUME TypeInv, RingInv, NEW p \in Peers, Enter(p)
  PROVE  /\ proc[p] = "starting" /\ proc' = [proc EXCEPT ![p] = "accept"]
         /\ UNCHANGED <<next, prev, serving>>
         /\ \E m \in join(p) : setup_as_client(JoinAt[p], Message(m))
<1>1. JoinAt[p] # NULL
  BY PeerAssumption, RingAssumption
<1> QED
  BY <1>1 DEF Enter, ring, direct_send

LEMMA FirstJoinFacts ==
  ASSUME TypeInv, RingInv, NEW p \in Peers, HandleFirstJoin(p)
  PROVE  LET n == serving[p].msg.node
         IN /\ n \in Peers /\ JoinAt[n] = p
            /\ serving[p] \in Joins /\ serving[p] \in At(p)
            /\ proc[p] = "recv" /\ proc' = [proc EXCEPT ![p] = "accept"]
            /\ serving' = [serving EXCEPT ![p] = NULL]
            /\ next[p] = NULL /\ next' = [next EXCEPT ![p] = n] /\ prev' = [prev EXCEPT ![p] = n]
            /\ \E m \in notify(p) : setup_as_client(n, Message(m))
<1>1. proc[p] = "recv" /\ serving[p].kind = "message" /\ Dispatches(serving[p].msg, "join")
  BY DEF HandleFirstJoin, Handles
<1>2. /\ serving[p].msg.node \in Peers /\ JoinAt[serving[p].msg.node] = p
      /\ serving[p] \in Joins /\ serving[p] \in At(p)
  BY <1>1, OwnMessage
<1> QED
  BY <1>1, <1>2 DEF HandleFirstJoin, Finish, direct_send

LEMMA NotifyFacts ==
  ASSUME TypeInv, RingInv, NEW p \in Peers, HandleNotify(p)
  PROVE  /\ proc[p] = "recv" /\ proc' = [proc EXCEPT ![p] = "accept"]
         /\ serving' = [serving EXCEPT ![p] = NULL]
         /\ next[p] # NULL /\ next' = [next EXCEPT ![p] = JoinAt[p]]
         /\ JoinAt[p] \in Peers /\ JoinAt[p] # NULL
         /\ UNCHANGED <<backlog, prev>>
<1>1. proc[p] = "recv" /\ serving[p].kind = "message" /\ Dispatches(serving[p].msg, "notify")
  BY DEF HandleNotify, Handles
<1>2. serving[p].msg.node = JoinAt[p]
  BY <1>1, OwnMessage
<1>3. next[p] # NULL
  BY <1>1 DEF HandleNotify, MessageFaults
<1> QED
  BY <1>1, <1>2, <1>3, PeerAssumption, RingAssumption DEF HandleNotify, Finish

-----------------------------------------------------------------------------
(* The parts of the invariant.                                             *)

(* At a thread that finishes and sends at most a message.                  *)
LEMMA FinishGains ==
  ASSUME TypeInv, NEW p \in Peers, Finish(p), Sends, NEW q \in Peers, NEW S,
         \A c \in S : c \in RequestConnection
  PROVE  NoGain(S, q)
<1>1. serving'[q] \in {serving[q], NULL}
  BY DEF Finish, TypeInv, TypeOK
<1>2. CASE UNCHANGED backlog
  BY <1>1, <1>2 DEF NoGain
<1>3. CASE \E t \in Peers, m \in PeerMessage : direct_send(t, m)
  <2>1. PICK t \in Peers, m \in PeerMessage : direct_send(t, m)
    BY <1>3
  <2>2. Message(m) \in Connection /\ Message(m) \notin S
    BY DEF Message, Connection, MessageConnection, RequestConnection
  <2> QED
    BY <1>1, <2>1, <2>2, Sending DEF direct_send
<1> QED
  BY <1>2, <1>3 DEF Sends

(* Who brings a request to a peer: the client that connects, or the peer   *)
(* that relays.                                                            *)
LEMMA RequestGain ==
  ASSUME TypeInv, RingInv, [Next]_vars, NEW x \in Requesters, NEW q \in Peers
  PROVE  \/ NoGain({RequestOf(x)}, q)
         \/ \E p \in Peers : RelayRequest(p) /\ x = p
         \/ \E c \in Clients, p \in Peers : ClientConnect(c, p) /\ x = c /\ cstate[c] = "idle"
<1> DEFINE S == {RequestOf(x)}
<1>1. S \subseteq RequestConnection
  BY DEF RequestOf, RequestConnection
<1>2. UNCHANGED <<backlog, serving>> => NoGain(S, q)
  BY DEF NoGain
<1>3. ASSUME NEW p \in Peers, Enter(p)
      PROVE  NoGain(S, q)
  <2>1. PICK m \in join(p) : setup_as_client(JoinAt[p], Message(m))
    BY <1>3, EnterFacts
  <2>2. Message(m) \in Connection /\ Message(m) \notin S /\ JoinAt[p] \in Peers
    BY <1>1, OwnJoin, RingAssumption DEF Joins, MessageConnection, RequestConnection, Connection
  <2>3. serving'[q] = serving[q]
    BY <1>3 DEF Enter
  <2> QED
    BY <2>1, <2>2, <2>3, Sending
<1>4. ASSUME NEW p \in Peers, get_new_connection(p)
      PROVE  NoGain(S, q)
  <2>1. /\ backlog[p] # <<>>
        /\ serving' = [serving EXCEPT ![p] = Head(backlog[p])]
        /\ backlog' = [backlog EXCEPT ![p] = Tail(backlog[p])]
    BY <1>4, RingAssumption DEF get_new_connection
  <2> QED
    BY <2>1 DEF NoGain, TypeInv, TypeOK
<1>5. ASSUME NEW p \in Peers, Crash(p)
      PROVE  NoGain(S, q)
  BY <1>5 DEF Crash, NoGain, TypeInv, TypeOK
<1>6. ASSUME NEW p \in Peers, ReceiveEOF(p) \/ receive_handler(p) \/ redirect(p), ~ RelayRequest(p)
      PROVE  NoGain(S, q)
  BY <1>1, <1>5, <1>6, HandlerShape, FinishGains
<1>7. ASSUME NEW p \in Peers, RelayRequest(p), p # x
      PROVE  NoGain(S, q)
  <2>1. /\ setup_as_client(next[p], RequestOf(p)) /\ UNCHANGED serving /\ next[p] \in Peers
        /\ RequestOf(p) \in Connection /\ RequestOf(p) \notin S
    BY <1>7, NextKnown DEF RelayRequest, RequestOf, Connection, RequestConnection, Requesters
  <2> QED
    BY <2>1, Sending
<1>8. ASSUME NEW c \in Clients, NEW p \in Peers, ClientConnect(c, p), c # x
      PROVE  NoGain(S, q)
  <2>1. /\ setup_as_client(p, RequestOf(c)) /\ UNCHANGED serving
        /\ RequestOf(c) \in Connection /\ RequestOf(c) \notin S
    BY <1>8 DEF ClientConnect, RequestOf, Connection, RequestConnection, Requesters
  <2> QED
    BY <2>1, Sending
<1>9. ASSUME NEW p \in Peers, Listen(p)
      PROVE  NoGain(S, q)
  BY <1>2, <1>9 DEF Listen
<1>10. ASSUME NEW c \in Clients, ClientSend(c) \/ ClientAbort(c)
       PROVE  NoGain(S, q)
  BY <1>2, <1>10 DEF ClientSend, ClientAbort
<1>11. ASSUME NEW p \in Peers
       PROVE  ~ Inject(p)
  BY RingAssumption DEF Inject, TypeInv, TypeOK
<1>12. UNCHANGED vars => NoGain(S, q)
  BY <1>2 DEF vars
<1> HIDE DEF S
<1>13. ASSUME NEW p \in Peers, Listen(p) \/ PeerStep(p) \/ Inject(p)
       PROVE  NoGain(S, q) \/ \E t \in Peers : RelayRequest(t) /\ x = t
  <2>1. CASE RelayRequest(p) /\ p = x
    BY <2>1
  <2>2. CASE RelayRequest(p) /\ p # x
    BY <1>7, <2>2
  <2>3. CASE ~ RelayRequest(p)
    BY <1>3, <1>4, <1>6, <1>9, <1>11, <1>13, <2>3 DEF PeerStep
  <2> QED
    BY <2>1, <2>2, <2>3
<1>14. ASSUME NEW c \in Clients, ClientSend(c) \/ ClientAbort(c) \/ \E p \in Peers : ClientConnect(c, p)
       PROVE  \/ NoGain(S, q)
              \/ \E d \in Clients, p \in Peers : ClientConnect(d, p) /\ x = d /\ cstate[d] = "idle"
  <2>1. CASE \E p \in Peers : ClientConnect(c, p)
    <3>1. cstate[c] = "idle"
      BY <2>1 DEF ClientConnect
    <3>2. CASE c = x
      BY <2>1, <3>1, <3>2
    <3>3. CASE c # x
      BY <1>8, <2>1, <3>3
    <3> QED
      BY <3>2, <3>3
  <2> QED
    BY <1>10, <1>14, <2>1
<1> QED
  BY <1>12, <1>13, <1>14 DEF Next, S

(* Only clients change clients.                                            *)
LEMMA ClientsChange ==
  ASSUME [Next]_vars
  PROVE  \/ cstate' = cstate
         \/ \E c \in Clients : ClientSend(c) \/ ClientAbort(c) \/ \E p \in Peers : ClientConnect(c, p)
<1>1. ASSUME NEW p \in Peers, Listen(p) \/ PeerStep(p) \/ Inject(p)
      PROVE  cstate' = cstate
  BY <1>1 DEF PeerStep, receive_handler, redirect, Listen, Enter, get_new_connection, Inject, ReceiveEOF,
     HandleMessageFault, HandleIgnored, HandleFirstJoin, HandleJoin, HandleNotify, HandleStabilize,
     HandleLookup, HandleRequestFault, respond_as_responsible_peer, HandleBrokenPipe, RelayRequest,
     RelayUnreachable, HandleUnknownResponsible, RelayAnswer, RelayReset
<1> QED
  BY <1>1 DEF Next, vars

(* A client that was idle has just connected, one that is idle has been.   *)
LEMMA ClientStep ==
  ASSUME TypeInv, [Next]_vars, NEW c \in Clients
  PROVE  /\ cstate'[c] = "idle" => cstate[c] = "idle"
         /\ \A p \in Peers : ClientConnect(c, p) => cstate'[c] # "idle"
<1>1. ASSUME NEW d \in Clients, ClientSend(d) \/ ClientAbort(d) \/ \E p \in Peers : ClientConnect(d, p)
      PROVE  cstate'[c] = "idle" => cstate[c] = "idle"
  BY <1>1 DEF ClientSend, ClientAbort, ClientConnect, TypeInv, TypeOK
<1>2. \A p \in Peers : ClientConnect(c, p) => cstate'[c] # "idle"
  BY DEF ClientConnect, TypeInv, TypeOK
<1> QED
  BY <1>1, <1>2, ClientsChange

(* Who brings a message to a peer: a peer that joins at it, or the peer    *)
(* whose first join it was.                                                *)
Gets(q, e) == backlog'[q] = Append(backlog[q], e) /\ serving'[q] \in {serving[q], NULL}

LEMMA MessageGain ==
  ASSUME TypeInv, RingInv, [Next]_vars, NEW q \in Peers
  PROVE  \/ NoGain(MessageConnection, q)
         \/ \E p \in Peers : Enter(p) /\ q = JoinAt[p] /\ \E m \in join(p) : Gets(q, Message(m))
         \/ \E p \in Peers :
              /\ HandleFirstJoin(p)
              /\ q = serving[p].msg.node
              /\ \E m \in notify(p) : Gets(q, Message(m))
<1>1. CASE Quiet
  BY <1>1 DEF Quiet
<1>2. ASSUME NEW p \in Peers, Listen(p)
      PROVE  NoGain(MessageConnection, q)
  BY <1>2, ListenFacts DEF NoGain
<1>3. ASSUME NEW p \in Peers, HandleNotify(p)
      PROVE  NoGain(MessageConnection, q)
  BY <1>3, NotifyFacts DEF NoGain, TypeInv, TypeOK
<1>4. ASSUME NEW p \in Peers, Enter(p)
      PROVE  \/ NoGain(MessageConnection, q)
             \/ q = JoinAt[p] /\ \E m \in join(p) : Gets(q, Message(m))
  <2>1. PICK m \in join(p) : setup_as_client(JoinAt[p], Message(m))
    BY <1>4, EnterFacts
  <2>2. Message(m) \in Connection /\ JoinAt[p] \in Peers /\ serving'[q] = serving[q]
    BY <1>4, OwnJoin, EnterFacts, RingAssumption DEF Joins, Connection
  <2> QED
    BY <2>1, <2>2, Sending DEF Gets, NoGain
<1>5. ASSUME NEW p \in Peers, HandleFirstJoin(p)
      PROVE  \/ NoGain(MessageConnection, q)
             \/ q = serving[p].msg.node /\ \E m \in notify(p) : Gets(q, Message(m))
  <2>1. PICK m \in notify(p) : setup_as_client(serving[p].msg.node, Message(m))
    BY <1>5, FirstJoinFacts
  <2>2. /\ Message(m) \in Connection /\ serving[p].msg.node \in Peers
        /\ serving'[q] \in {serving[q], NULL}
    BY <1>5, OwnNotify, FirstJoinFacts DEF Notifies, Connection, TypeInv, TypeOK
  <2> QED
    BY <2>1, <2>2, Sending DEF Gets, NoGain
<1> QED
  BY <1>1, <1>2, <1>3, <1>4, <1>5, QuietStep

LEMMA GetsOne ==
  ASSUME TypeInv, NEW q \in Peers, NEW e \in Connection, Gets(q, e)
  PROVE  \A c \in Connection : c \in At(q)' => c \in At(q) \union {e}
<1>1. ToSet(backlog'[q]) = ToSet(backlog[q]) \union {e}
  BY AppendLone DEF Gets, TypeInv, TypeOK
<1> QED
  BY <1>1, PeerAssumption DEF At, Gets

LEMMA OwnMessagesStep ==
  ASSUME TypeInv, RingInv, [Next]_vars
  PROVE  OwnMessages'
<1> SUFFICES ASSUME NEW q \in Peers, NEW c \in At(q)' \intersect MessageConnection
             PROVE  \/ c \in Joins /\ JoinAt[c.msg.node] = q
                    \/ c \in Notifies /\ c.msg.node = JoinAt[q]
  BY DEF OwnMessages
<1>1. CASE c \in At(q)
  BY <1>1 DEF RingInv, OwnMessages
<1>2. CASE NoGain(MessageConnection, q)
  <2>1. MessageConnection \subseteq Connection
    BY DEF Connection
  <2> QED
    BY <1>1, <1>2, <2>1, NoMore
<1>3. ASSUME NEW p \in Peers, Enter(p), q = JoinAt[p], NEW m \in join(p), Gets(q, Message(m)), c \notin At(q)
      PROVE  c \in Joins /\ JoinAt[c.msg.node] = q
  <2>1. Message(m) \in Joins /\ Message(m).msg.node = p
    BY OwnJoin
  <2>2. c = Message(m)
    BY <1>3, <2>1, GetsOne DEF Joins, Connection
  <2> QED
    BY <1>3, <2>1, <2>2
<1>4. ASSUME NEW p \in Peers, HandleFirstJoin(p), q = serving[p].msg.node, NEW m \in notify(p),
             Gets(q, Message(m)), c \notin At(q)
      PROVE  c \in Notifies /\ c.msg.node = JoinAt[q]
  <2>1. Message(m) \in Notifies /\ Message(m).msg.node = p
    BY OwnNotify
  <2>2. c = Message(m)
    BY <1>4, <2>1, GetsOne DEF Notifies, Connection
  <2> QED
    BY <1>4, <2>1, <2>2, FirstJoinFacts
<1> QED
  BY <1>1, <1>2, <1>3, <1>4, MessageGain

LEMMA QueuedOnceStep ==
  ASSUME TypeInv, RingInv, [Next]_vars
  PROVE  QueuedOnce'
<1> SUFFICES ASSUME NEW q \in Peers
             PROVE  /\ AtMostOne(Joins, q)'
                    /\ Lone(Notifies, backlog'[q])
                    /\ \A c \in Clients :
                         /\ Lone({RequestOf(c)}, backlog'[q])
                         /\ cstate'[c] = "idle" => RequestOf(c) \notin ToSet(backlog'[q])
  BY DEF QueuedOnce
<1>1. AtMostOne(Joins, q) /\ Lone(Notifies, backlog[q])
  BY DEF RingInv, QueuedOnce
<1>2. /\ Joins \subseteq MessageConnection /\ Notifies \subseteq MessageConnection
      /\ MessageConnection \subseteq Connection /\ Joins \intersect Notifies = {}
  BY DEF Joins, Notifies, Connection
<1>3. /\ NoGain(Joins, q) => AtMostOne(Joins, q)'
      /\ NoGain(Notifies, q) => Lone(Notifies, backlog'[q])
  BY <1>1, <1>2, NoMore
<1>4. NoGain(MessageConnection, q) => AtMostOne(Joins, q)' /\ Lone(Notifies, backlog'[q])
  <2>1. NoGain(MessageConnection, q) => NoGain(Joins, q) /\ NoGain(Notifies, q)
    BY <1>2 DEF NoGain
  <2> QED
    BY <1>3, <2>1
<1>5. ASSUME NEW p \in Peers, Enter(p), q = JoinAt[p], NEW m \in join(p), Gets(q, Message(m))
      PROVE  AtMostOne(Joins, q)' /\ Lone(Notifies, backlog'[q])
  <2>1. Message(m) \in Connection \ Notifies
    BY <1>2, OwnJoin
  <2>2. \A c \in At(q) : c \notin Joins
    BY <1>5, EnterFacts DEF RingInv, JoinProgress, Progress, Unstarted
  <2>3. AtMostOne(Joins, q)'
    BY <1>2, <1>5, <2>1, <2>2, FirstOne DEF Gets
  <2> QED
    BY <1>3, <1>5, <2>1, <2>3 DEF Gets, NoGain
<1>6. ASSUME NEW p \in Peers, HandleFirstJoin(p), q = serving[p].msg.node, NEW m \in notify(p), Gets(q, Message(m))
      PROVE  AtMostOne(Joins, q)' /\ Lone(Notifies, backlog'[q])
  <2>1. Message(m) \in Connection \ Joins
    BY <1>2, OwnNotify
  <2>2. \A c \in At(q) : c \notin Notifies
    BY <1>6, FirstJoinFacts DEF RingInv, JoinProgress, Progress
  <2>3. AtMostOne(Notifies, q)'
    BY <1>2, <1>6, <2>1, <2>2, FirstOne DEF Gets
  <2> QED
    BY <1>3, <1>6, <2>1, <2>3 DEF Gets, NoGain, AtMostOne
<1>7. ASSUME NEW c \in Clients
      PROVE  /\ Lone({RequestOf(c)}, backlog'[q])
             /\ cstate'[c] = "idle" => RequestOf(c) \notin ToSet(backlog'[q])
  <2>1. /\ Lone({RequestOf(c)}, backlog[q])
        /\ cstate[c] = "idle" => RequestOf(c) \notin ToSet(backlog[q])
    BY DEF RingInv, QueuedOnce
  <2>2. RequestOf(c) \in Connection /\ c \in Requesters /\ c \notin Peers
    BY PeerAssumption DEF RequestOf, Connection, RequestConnection, Requesters
  <2>3. CASE NoGain({RequestOf(c)}, q)
    BY <2>1, <2>2, <2>3, NoMore, ClientStep
  <2>4. ASSUME NEW p \in Peers, ClientConnect(c, p), cstate[c] = "idle"
        PROVE  Lone({RequestOf(c)}, backlog'[q]) /\ cstate'[c] # "idle"
    <3>1. backlog'[q] = backlog[q] \/ backlog'[q] = Append(backlog[q], RequestOf(c))
      BY <2>4 DEF ClientConnect, setup_as_client, TypeInv, TypeOK
    <3>2. backlog[q] \in Seq(Connection) /\ \A d \in ToSet(backlog[q]) : d \notin {RequestOf(c)}
      BY <2>1, <2>4 DEF TypeInv, TypeOK
    <3>3. Lone({RequestOf(c)}, backlog'[q])
      <4>1. Lone({RequestOf(c)}, Append(backlog[q], RequestOf(c)))
        BY <2>2, <3>2, AppendLone
      <4> QED
        BY <2>1, <3>1, <4>1
    <3> QED
      BY <2>4, <3>3, ClientStep
  <2> QED
    BY <2>2, <2>3, <2>4, RequestGain
<1> QED
  BY <1>4, <1>5, <1>6, <1>7, MessageGain

(* A peer nobody notifies has at most the requests and one join queued:    *)
(* it can be sent another message.                                         *)
LEMMA RoomForNotify ==
  ASSUME TypeInv, RingInv, RelayedTravels, NEW q \in Peers,
         proc[q] \notin {"down", "crashed"}, \A c \in At(q) : c \notin Notifies
  PROVE  Reachable(q)
<1> DEFINE queue == backlog[q]
           who == [i \in 1 .. Len(queue) |-> IF queue[i] \in Joins THEN NULL ELSE queue[i].from]
<1>1. queue \in Seq(Connection) /\ Len(queue) \in Nat /\ DOMAIN queue = 1 .. Len(queue)
  BY DEF TypeInv, TypeOK
<1>2. ASSUME NEW i \in 1 .. Len(queue), queue[i] \notin Joins
      PROVE  queue[i].from \in Requesters /\ queue[i] = RequestOf(queue[i].from)
  <2>1. queue[i] \in At(q) /\ queue[i] \in Connection
    BY <1>1 DEF At, ToSet
  <2>2. queue[i] \in RequestConnection
    BY <1>2, <2>1 DEF RingInv, OwnMessages, Connection
  <2> QED
    BY <2>2 DEF RequestConnection, RequestOf
<1>3. NULL \notin Requesters
  BY PeerAssumption DEF Requesters
<1>4. ASSUME NEW x \in Requesters
      PROVE  Lone({RequestOf(x)}, queue)
  <2>1. CASE x \in Clients
    BY <2>1 DEF RingInv, QueuedOnce
  <2>2. CASE x \in Peers
    <3>1. CASE RequestOf(x) \in ToSet(queue)
      BY <2>2, <3>1 DEF RelayedTravels, Travels, Connected, Once, Single, Lone
    <3>2. CASE RequestOf(x) \notin ToSet(queue)
      BY <3>2 DEF Lone, ToSet
    <3> QED
      BY <3>1, <3>2
  <2> QED
    BY <2>1, <2>2 DEF Requesters
<1>5. Lone(Joins, queue)
  BY DEF RingInv, QueuedOnce, AtMostOne
<1>6. ASSUME NEW i \in 1 .. Len(queue), NEW j \in 1 .. Len(queue), who[i] = who[j]
      PROVE  i = j
  <2>1. CASE queue[i] \in Joins
    <3>1. queue[j] \in Joins
      BY <1>2, <1>3, <1>6, <2>1
    <3> QED
      BY <1>1, <1>5, <2>1, <3>1 DEF Lone
  <2>2. CASE queue[i] \notin Joins
    <3>1. queue[j] \notin Joins
      BY <1>2, <1>3, <1>6, <2>2
    <3>2. /\ queue[i].from \in Requesters
          /\ queue[i] = RequestOf(queue[i].from) /\ queue[j] = RequestOf(queue[i].from)
      BY <1>2, <1>6, <2>2, <3>1
    <3> QED
      BY <1>1, <1>4, <3>2 DEF Lone
  <2> QED
    BY <2>1, <2>2
<1>7. who \in Injection(1 .. Len(queue), Requesters \union {NULL})
  <2>1. who \in [1 .. Len(queue) -> Requesters \union {NULL}]
    BY <1>2
  <2> HIDE DEF who
  <2> QED
    BY <1>6, <2>1 DEF Injection, IsInjective
<1>8. /\ IsFiniteSet(Requesters \union {NULL})
      /\ Cardinality(Requesters \union {NULL}) = Cardinality(Requesters) + 1
      /\ Cardinality(Requesters) \in Nat
  BY <1>3, FS_AddElement, FS_CardinalityType, RingAssumption
<1>9. Cardinality(1 .. Len(queue)) <= Cardinality(Requesters) + 1
  BY <1>7, <1>8, FS_Injection
<1>10. Cardinality(1 .. Len(queue)) = Len(queue)
  BY <1>1, FS_Interval
<1>11. Len(queue) < Backlog
  BY <1>1, <1>8, <1>9, <1>10, PeerAssumption, RingAssumption
<1> QED
  BY <1>11 DEF Reachable, RingInv, Running

LEMMA ProgressQuiet ==
  ASSUME TypeInv, NEW p \in Peers, NEW q \in Peers, Progress(p, q), Quiet
  PROVE  Progress(p, q)'
<1>1. \A t \in Peers : \A c \in MessageConnection : c \in At(t)' => c \in At(t)
  <2>1. MessageConnection \subseteq Connection
    BY DEF Connection
  <2> QED
    BY <2>1, NoMore DEF Quiet
<1>2. Joins \subseteq MessageConnection /\ Notifies \subseteq MessageConnection
  BY DEF Joins, Notifies
<1> QED
  BY <1>1, <1>2 DEF Progress, Quiet

LEMMA ProgressListen ==
  ASSUME TypeInv, RingInv, NEW p \in Peers, NEW q \in Peers, JoinAt[p] = q, NEW t \in Peers, Listen(t)
  PROVE  Progress(p, q)'
<1>1. Progress(p, q)
  BY DEF RingInv, JoinProgress
<1>2. /\ proc[t] = "down" /\ next[t] = NULL
      /\ next' = next /\ UNCHANGED <<backlog, serving>>
      /\ proc' = [proc EXCEPT ![t] = "starting"]
      /\ prev' = [prev EXCEPT ![t] = NULL]
  BY ListenFacts
<1>3. At(p)' = At(p) /\ At(q)' = At(q)
  BY <1>2 DEF At
<1>4. (Unstarted(p)' <=> Unstarted(p)) /\ (Notified(p) => Notified(p)')
  BY <1>2, <1>3 DEF Unstarted, Notified, TypeInv, TypeOK
<1>5. prev'[q] = IF q = t THEN NULL ELSE prev[q]
  BY <1>2 DEF TypeInv, TypeOK
<1> QED
  BY <1>1, <1>2, <1>3, <1>4, <1>5 DEF Progress

(* The peer t sends its join.                                              *)
LEMMA ProgressEnter ==
  ASSUME TypeInv, RingInv, NEW p \in Peers, NEW q \in Peers, JoinAt[p] = q, NEW t \in Peers, Enter(t)
  PROVE  Progress(p, q)'
<1>1. Progress(p, q) /\ Progress(t, JoinAt[t]) /\ JoinAt[t] \in Peers
  BY RingAssumption DEF RingInv, JoinProgress
<1>2. /\ proc[t] = "starting" /\ proc' = [proc EXCEPT ![t] = "accept"]
      /\ UNCHANGED <<next, prev, serving>>
  BY EnterFacts
<1>3. PICK m \in join(t) : setup_as_client(JoinAt[t], Message(m))
  BY EnterFacts
<1>4. Message(m) \in Joins /\ Message(m) \in Connection /\ Message(m) \notin Notifies
  BY OwnJoin DEF Joins, Notifies, Connection
<1>5. NULL \notin Joins /\ NULL \notin Notifies
  BY PeerAssumption DEF Joins, Notifies, Connection
<1>6. /\ \A c \in Notifies : c \in At(p)' => c \in At(p)
      /\ q # JoinAt[t] => \A c \in Joins : c \in At(q)' => c \in At(q)
      /\ ToSet(backlog[p]) \subseteq ToSet(backlog'[p])
  <2>1. \A r \in Peers :
          /\ At(r)' \subseteq At(r) \union {Message(m), NULL}
          /\ r # JoinAt[t] => At(r)' \subseteq At(r) \union {NULL}
          /\ ToSet(backlog[r]) \subseteq ToSet(backlog'[r])
    BY <1>1, <1>2, <1>3, <1>4, Sending
  <2> QED
    BY <1>4, <1>5, <2>1
<1>7. next[JoinAt[t]] = NULL
  BY <1>1, <1>2 DEF Progress, Unstarted
<1>8. Unstarted(p)' => Unstarted(p) /\ p # t
  BY <1>2 DEF Unstarted, TypeInv, TypeOK
<1>9. Notified(p) => Notified(p)'
  BY <1>2, <1>6 DEF Notified, At, TypeInv, TypeOK
<1>10. p # t => q # JoinAt[t]
  BY RingAssumption
<1> QED
  BY <1>1, <1>2, <1>6, <1>7, <1>8, <1>9, <1>10 DEF Progress

(* The peer t learns its neighbour, and notifies it.                       *)
LEMMA ProgressFirstJoin ==
  ASSUME TypeInv, RingInv, RelayedTravels, NEW p \in Peers, NEW q \in Peers, JoinAt[p] = q,
         NEW t \in Peers, HandleFirstJoin(t)
  PROVE  Progress(p, q)'
<1>1. PICK n \in Peers :
         /\ JoinAt[n] = t
         /\ serving[t] \in Joins /\ serving[t] \in At(t)
         /\ proc[t] = "recv" /\ proc' = [proc EXCEPT ![t] = "accept"]
         /\ serving' = [serving EXCEPT ![t] = NULL]
         /\ next[t] = NULL /\ next' = [next EXCEPT ![t] = n] /\ prev' = [prev EXCEPT ![t] = n]
         /\ \E m \in notify(t) : setup_as_client(n, Message(m))
  BY FirstJoinFacts
<1>2. PICK m \in notify(t) : setup_as_client(n, Message(m))
  BY <1>1
<1>3. Message(m) \in Notifies /\ Message(m) \in Connection /\ Message(m) \notin Joins
  BY OwnNotify DEF Joins, Notifies, Connection
<1>4. NULL \notin Joins /\ NULL \notin Notifies /\ Joins \intersect Notifies = {} /\ NULL \notin Peers
  BY PeerAssumption DEF Joins, Notifies, Connection
<1>5. \A r \in Peers : serving'[r] = IF r = t THEN NULL ELSE serving[r]
  BY <1>1 DEF TypeInv, TypeOK
<1>6. \A r \in Peers :
        /\ \A c \in Joins : c \in At(r)' => c \in At(r)
        /\ r # n => \A c \in Notifies : c \in At(r)' => c \in At(r)
        /\ ToSet(backlog[r]) \subseteq ToSet(backlog'[r])
  BY <1>1, <1>2, <1>3, <1>4, <1>5, Sending
<1>7. Progress(p, q) /\ Progress(n, t)
  BY <1>1 DEF RingInv, JoinProgress
<1>8. CASE p = n
  <2>1. q = t
    BY <1>1, <1>8
  <2>2. ~ Unstarted(n)'
    <3>1. ~ Unstarted(n)
      BY <1>1, <1>7 DEF Progress
    <3> QED
      BY <1>1, <3>1 DEF Unstarted, TypeInv, TypeOK
  <2>3. next'[t] = n /\ prev'[t] = n /\ n # NULL
    BY <1>1, <1>4 DEF TypeInv, TypeOK
  <2>4. Notified(n)'
    <3>1. CASE proc[n] = "crashed"
      BY <1>1, <3>1 DEF Notified, TypeInv, TypeOK
    <3>2. CASE proc[n] # "crashed"
      <4>1. proc[n] \notin {"down", "crashed"}
        BY <1>1, <1>7, <3>2 DEF Progress, Unstarted
      <4>2. Reachable(n)
        BY <1>1, <1>7, <4>1, RoomForNotify DEF Progress
      <4>3. Message(m) \in ToSet(backlog'[n])
        BY <1>1, <1>2, <1>3, <1>5, <4>2, Sending
      <4> QED
        BY <1>3, <4>3 DEF Notified, At
    <3> QED
      BY <3>1, <3>2
  <2>5. \A c \in At(t)' : c \notin Joins
    <3>1. \A c \in ToSet(backlog[t]) : c \notin Joins
      BY <1>1 DEF RingInv, QueuedOnce, AtMostOne
    <3>2. backlog'[t] = backlog[t] \/ ToSet(backlog'[t]) = ToSet(backlog[t]) \union {Message(m)}
      <4>1. backlog[t] \in Seq(Connection)
        BY DEF TypeInv, TypeOK
      <4>2. backlog'[t] = backlog[t] \/ backlog'[t] = Append(backlog[t], Message(m))
        BY <1>1, <1>2 DEF setup_as_client, TypeInv, TypeOK
      <4> QED
        BY <1>3, <4>1, <4>2, AppendLone
    <3> QED
      BY <1>3, <1>4, <1>5, <3>1, <3>2 DEF At
  <2> QED
    BY <1>8, <2>1, <2>2, <2>3, <2>4, <2>5 DEF Progress
<1>9. CASE p # n
  <2>1. q # t
    BY <1>1, <1>9, RingAssumption
  <2>2. next'[q] = next[q] /\ prev'[q] = prev[q]
    BY <1>1, <2>1 DEF TypeInv, TypeOK
  <2>3. Unstarted(p)' => Unstarted(p)
    BY <1>1 DEF Unstarted, TypeInv, TypeOK
  <2>4. Notified(p) => Notified(p)'
    <3>1. \A c \in Notifies : c \in At(p) => c \in At(p)'
      BY <1>1, <1>4, <1>5, <1>6 DEF At
    <3>2. next[p] = JoinAt[p] => next'[p] = next[p]
      BY <1>1, <1>4, RingAssumption DEF TypeInv, TypeOK
    <3>3. proc[p] = "crashed" => proc'[p] = "crashed"
      BY <1>1 DEF TypeInv, TypeOK
    <3> QED
      BY <3>1, <3>2, <3>3 DEF Notified
  <2> QED
    BY <1>6, <1>7, <1>9, <2>2, <2>3, <2>4 DEF Progress
<1> QED
  BY <1>8, <1>9

(* The peer t learns the peer it joined at.                                *)
LEMMA ProgressNotify ==
  ASSUME TypeInv, RingInv, NEW p \in Peers, NEW q \in Peers, JoinAt[p] = q, NEW t \in Peers, HandleNotify(t)
  PROVE  Progress(p, q)'
<1>1. Progress(p, q)
  BY DEF RingInv, JoinProgress
<1>2. /\ proc[t] = "recv" /\ proc' = [proc EXCEPT ![t] = "accept"]
      /\ serving' = [serving EXCEPT ![t] = NULL]
      /\ next[t] # NULL /\ next' = [next EXCEPT ![t] = JoinAt[t]]
      /\ JoinAt[t] \in Peers /\ JoinAt[t] # NULL
      /\ UNCHANGED <<backlog, prev>>
  BY NotifyFacts
<1>3. \A r \in Peers :
        /\ serving'[r] = IF r = t THEN NULL ELSE serving[r]
        /\ next'[r] = IF r = t THEN JoinAt[t] ELSE next[r]
        /\ proc'[r] = IF r = t THEN "accept" ELSE proc[r]
  BY <1>2 DEF TypeInv, TypeOK
<1>4. \A r \in Peers : At(r)' \subseteq At(r) \union {NULL} /\ (r # t => At(r)' = At(r))
  BY <1>2, <1>3 DEF At
<1>5. NULL \notin Joins /\ NULL \notin Notifies
  BY PeerAssumption DEF Joins, Notifies, Connection
<1>6. Unstarted(p)' => Unstarted(p)
  BY <1>3 DEF Unstarted
<1>7. Notified(p) => Notified(p)'
  BY <1>3, <1>4 DEF Notified
<1>8. next'[q] = NULL <=> next[q] = NULL
  BY <1>2, <1>3
<1> QED
  BY <1>1, <1>2, <1>4, <1>5, <1>6, <1>7, <1>8 DEF Progress

LEMMA JoinProgressStep ==
  ASSUME TypeInv, RingInv, RelayedTravels, [Next]_vars
  PROVE  JoinProgress'
<1> SUFFICES ASSUME NEW p \in Peers, NEW q \in Peers, JoinAt[p] = q
             PROVE  Progress(p, q)'
  BY DEF JoinProgress
<1>1. Progress(p, q)
  BY DEF RingInv, JoinProgress
<1> QED
  BY <1>1, QuietStep, ProgressQuiet, ProgressListen, ProgressEnter, ProgressFirstJoin, ProgressNotify

(* Whoever runs goes on listening, dies, or has just started.              *)
Stays(q) ==
  \/ /\ listening'[q] = listening[q]
     /\ \/ proc'[q] = proc[q]
        \/ proc[q] \notin {"down", "crashed"} /\ proc'[q] # "down"
  \/ proc'[q] = "crashed"
  \/ proc'[q] = "starting" /\ listening'[q] = TRUE

LEMMA StaysStep ==
  ASSUME TypeInv, [Next]_vars, NEW q \in Peers
  PROVE  Stays(q)
<1>1. UNCHANGED <<proc, listening>> => Stays(q)
  BY DEF Stays
<1>2. ASSUME NEW p \in Peers, Listen(p)
      PROVE  Stays(q)
  BY <1>2 DEF Stays, Listen, TypeInv, TypeOK
<1>3. ASSUME NEW p \in Peers, Enter(p) \/ get_new_connection(p) \/ RelayRequest(p)
      PROVE  Stays(q)
  <2>1. CASE Enter(p)
    BY <2>1 DEF Stays, Enter, TypeInv, TypeOK
  <2>2. CASE get_new_connection(p)
    BY <2>2, RingAssumption DEF Stays, get_new_connection, TypeInv, TypeOK
  <2>3. CASE RelayRequest(p)
    BY <2>3 DEF Stays, RelayRequest, NextResponsible, HandlesRequest, TypeInv, TypeOK
  <2> QED
    BY <1>3, <2>1, <2>2, <2>3
<1>4. ASSUME NEW p \in Peers, ReceiveEOF(p) \/ receive_handler(p) \/ redirect(p), ~ RelayRequest(p)
      PROVE  Stays(q)
  <2>1. proc[p] \in {"recv", "relay"}
    BY <1>4 DEF ReceiveEOF, receive_handler, redirect, HandleMessageFault, HandleIgnored, HandleFirstJoin,
       HandleJoin, HandleNotify, HandleStabilize, HandleLookup, HandleRequestFault, Handles,
       respond_as_responsible_peer, HandleBrokenPipe, RelayUnreachable, HandleUnknownResponsible,
       RelayAnswer, RelayReset, Responsible, NextResponsible, HandlesRequest
  <2>2. CASE Crash(p)
    BY <2>2 DEF Stays, Crash, TypeInv, TypeOK
  <2>3. CASE Finish(p)
    BY <2>1, <2>3 DEF Stays, Finish, TypeInv, TypeOK
  <2> QED
    BY <1>4, <2>2, <2>3, HandlerShape
<1>5. ASSUME NEW p \in Peers
      PROVE  ~ Inject(p)
  BY RingAssumption DEF Inject, TypeInv, TypeOK
<1>6. ASSUME NEW c \in Clients, ClientSend(c) \/ ClientAbort(c) \/ \E p \in Peers : ClientConnect(c, p)
      PROVE  Stays(q)
  BY <1>1, <1>6 DEF ClientSend, ClientAbort, ClientConnect
<1>7. UNCHANGED vars => Stays(q)
  BY <1>1 DEF vars
<1> QED
  BY <1>2, <1>3, <1>4, <1>5, <1>6, <1>7 DEF Next, PeerStep

LEMMA RunningStep ==
  ASSUME TypeInv, RingInv, [Next]_vars
  PROVE  Running'
<1> SUFFICES ASSUME NEW q \in Peers
             PROVE  /\ proc'[q] \notin {"down", "crashed"} => listening'[q]
                    /\ proc'[q] = "down" => next'[q] = NULL
  BY DEF Running
<1>1. Stays(q)
  BY StaysStep
<1>2. proc'[q] = "down" => proc[q] = "down"
  BY <1>1 DEF Stays
<1>3. proc'[q] = "down" => next'[q] = NULL
  BY <1>2, NeighboursChange DEF RingInv, Running, Keeps, Forgets
<1> QED
  BY <1>1, <1>3 DEF Stays, RingInv, Running

(* Only a responsible peer and a new process change a table.               *)
LEMMA StoreChange ==
  ASSUME TypeInv, [Next]_vars, NEW p \in Peers
  PROVE  store'[p] \in {store[p], EmptyTable} \/ respond_as_responsible_peer(p)
<1>1. ASSUME NEW q \in Peers, respond_as_responsible_peer(q)
      PROVE  q = p \/ store'[p] = store[p]
  BY <1>1 DEF respond_as_responsible_peer, TypeInv, TypeOK
<1>2. ASSUME NEW q \in Peers, Listen(q)
      PROVE  store'[p] \in {store[p], EmptyTable}
  BY <1>2 DEF Listen, TypeInv, TypeOK
<1>3. ASSUME NEW q \in Peers, PeerStep(q) \/ Inject(q), ~ respond_as_responsible_peer(q)
      PROVE  store' = store
  BY <1>3 DEF PeerStep, receive_handler, redirect, Enter, get_new_connection, Inject, ReceiveEOF,
     HandleMessageFault, HandleIgnored, HandleFirstJoin, HandleJoin, HandleNotify, HandleStabilize,
     HandleLookup, HandleRequestFault, HandleBrokenPipe, RelayRequest,
     RelayUnreachable, HandleUnknownResponsible, RelayAnswer, RelayReset
<1>4. ASSUME NEW c \in Clients, ClientSend(c) \/ ClientAbort(c) \/ \E q \in Peers : ClientConnect(c, q)
      PROVE  store' = store
  BY <1>4 DEF ClientSend, ClientAbort, ClientConnect
<1>5. UNCHANGED vars => store' = store
  BY DEF vars
<1> QED
  BY <1>1, <1>2, <1>3, <1>4, <1>5 DEF Next

(* A responsible peer of the ring covers the key.                          *)
LEMMA ResponsibleCovers ==
  ASSUME TypeInv, RingInv, NEW p \in Peers, Responsible(p)
  PROVE  Covers(p, RequestAt(p).key)
<1>1. PICK b \in Peers : JoinAt[b] = p
  BY RingAssumption
<1>2. RequestHash(p) \in Int /\ Id[p] \in Int
  BY HandledRequest, ProtocolAssumption, Byte16IsInt DEF Responsible
<1>3. Id[p] > RequestHash(p) /\ prev[p] # NULL
  BY <1>2 DEF Responsible, RequestFaults, id_is_between, in_range
<1>4. prev[p] = b
  BY <1>1, <1>3 DEF RingInv, JoinProgress, Progress
<1> QED
  BY <1>1, <1>4 DEF Responsible, id_is_between, Covers, RequestHash

LEMMA StoresOwnStep ==
  ASSUME TypeInv, RingInv, [Next]_vars
  PROVE  StoresOwn'
<1> SUFFICES ASSUME NEW p \in Peers, NEW k \in Keys, store'[p][k] # NULL
             PROVE  Covers(p, k)
  BY DEF StoresOwn, Covers
<1>1. CASE store'[p] \in {store[p], EmptyTable}
  BY <1>1 DEF EmptyTable, RingInv, StoresOwn
<1>2. CASE respond_as_responsible_peer(p)
  <2>1. store'[p] = After(store[p], RequestAt(p)) /\ store[p] \in Table /\ Responsible(p)
    BY <1>2 DEF respond_as_responsible_peer, TypeInv, TypeOK
  <2>2. k = RequestAt(p).key \/ store[p][k] # NULL
    BY <2>1 DEF After, AfterSet, set, delete_element, Table
  <2> QED
    BY <2>1, <2>2, ResponsibleCovers DEF RingInv, StoresOwn
<1> QED
  BY <1>1, <1>2, StoreChange

LEMMA RingInvStep ==
  ASSUME TypeInv, RingInv, RelayedTravels, [Next]_vars
  PROVE  RingInv'
BY OwnMessagesStep, QueuedOnceStep, JoinProgressStep, RunningStep, StoresOwnStep DEF RingInv

-----------------------------------------------------------------------------
(* The ring from either start: nobody runs, or everybody has joined.       *)

LEMMA SettledTypeInv == SettledInit => TypeInv
<1> SUFFICES ASSUME SettledInit PROVE TypeInv
  OBVIOUS
<1>1. << >> \in Seq(Connection) /\ << >> \in Seq(Answer)
  OBVIOUS
<1>2. EmptyTable \in Table
  BY DEF EmptyTable, Table
<1>3. next \in [Peers -> Peers \union {NULL}] /\ prev \in [Peers -> Peers \union {NULL}]
  BY RingAssumption DEF SettledInit
<1>4. TypeOK
  BY <1>1, <1>2, <1>3, PeerAssumption DEF SettledInit, TypeOK
<1>5. ServingOK
  BY DEF SettledInit, ServingOK
<1> QED
  BY <1>4, <1>5 DEF TypeInv

LEMMA RingInvInit == Init \/ SettledInit => RingInv
<1> SUFFICES ASSUME Init \/ SettledInit PROVE RingInv
  OBVIOUS
<1>1. /\ \A p \in Peers : backlog[p] = <<>> /\ serving[p] = NULL
      /\ \A p \in Peers, k \in Keys : store[p][k] = NULL
  BY DEF Init, SettledInit, EmptyTable
<1>2. ToSet(<< >>) = {} /\ \A S : Lone(S, << >>)
  BY DEF ToSet, Lone
<1>3. NULL \notin Connection /\ NULL \notin Joins /\ NULL \notin Notifies /\ NULL \notin Peers
  BY PeerAssumption DEF Joins, Notifies, Connection
<1>4. OwnMessages
  BY <1>1, <1>2, <1>3 DEF OwnMessages, At, Connection
<1>5. QueuedOnce
  BY <1>1, <1>2, <1>3 DEF QueuedOnce, AtMostOne
<1>6. JoinProgress
  <2> SUFFICES ASSUME NEW p \in Peers, NEW q \in Peers, JoinAt[p] = q
               PROVE  Progress(p, q)
    BY DEF JoinProgress
  <2>1. At(p) = {NULL} /\ At(q) = {NULL}
    BY <1>1, <1>2 DEF At
  <2>2. CASE Init
    BY <1>3, <2>1, <2>2 DEF Progress, Init
  <2>3. CASE SettledInit
    <3>1. proc[p] = "accept" /\ next[p] = JoinAt[p] /\ next[q] # NULL
      BY <1>3, <2>3, RingAssumption DEF SettledInit
    <3>2. prev[q] = p
      BY <2>3, RingAssumption DEF SettledInit
    <3> QED
      BY <1>3, <2>1, <3>1, <3>2 DEF Progress, Unstarted, Notified
  <2> QED
    BY <2>2, <2>3
<1>7. Running
  BY DEF Running, Init, SettledInit
<1>8. StoresOwn
  BY <1>1 DEF StoresOwn
<1> QED
  BY <1>4, <1>5, <1>6, <1>7, <1>8 DEF RingInv

LEMMA RingInvariant ==
  Spec \/ SettledSpec => [](TypeInv /\ RelayedTravels /\ SingleHop /\ RingInv)
<1> DEFINE Inv == TypeInv /\ RelayedTravels /\ SingleHop /\ RingInv
<1>1. Init \/ SettledInit => Inv
  <2>1. Init \/ SettledInit => TypeInv
    BY InitTypeInv, SettledTypeInv
  <2>2. Init \/ SettledInit => RelayedTravels /\ SingleHop
    BY NothingTravels DEF Init, SettledInit, Requesters
  <2> QED
    BY <2>1, <2>2, RingInvInit
<1>2. Inv /\ [Next]_vars => Inv'
  BY NextTypeInv, RelayedTravelsStep, SingleHopStep, RingInvStep
<1> QED
  BY <1>1, <1>2, PTL DEF Spec, SettledSpec

(* When every peer has handled a join and no message is left, next and     *)
(* prev agree all the way round, in whatever order the peers were started  *)
(* and the joins and notifies were handled (peer.c:133-148, 163-170).      *)
THEOREM RingForms == Spec \/ SettledSpec => []RingFormed
<1>1. TypeInv /\ RingInv => RingFormed
  <2> SUFFICES ASSUME TypeInv, RingInv, NEW p \in Peers,
                      \A q \in Peers : proc[q] = "accept" /\ backlog[q] = <<>> /\ next[q] # NULL
               PROVE  next[p] = JoinAt[p] /\ prev[JoinAt[p]] = p
    BY DEF RingFormed
  <2>1. JoinAt[p] \in Peers /\ Progress(p, JoinAt[p])
    BY RingAssumption DEF RingInv, JoinProgress
  <2>2. prev[JoinAt[p]] = p /\ Notified(p)
    BY <2>1 DEF Progress
  <2>3. ToSet(<< >>) = {}
    BY DEF ToSet
  <2>4. At(p) = {NULL}
    BY <2>3 DEF At, TypeInv, ServingOK
  <2>5. NULL \notin Notifies
    BY PeerAssumption DEF Notifies, Connection
  <2> QED
    BY <2>2, <2>4, <2>5 DEF Notified
<1> QED
  BY <1>1, RingInvariant, PTL

(* Two peers of the ring cover no key together.                            *)
LEMMA CoveredOnce ==
  ASSUME NEW p \in Peers, NEW q \in Peers, NEW k \in Keys, Covers(p, k), Covers(q, k)
  PROVE  p = q
<1>1. PICK a \in Peers : JoinAt[a] = p /\ in_range(Hash[k], Id[p], Id[a])
  BY DEF Covers
<1>2. PICK b \in Peers : JoinAt[b] = q /\ in_range(Hash[k], Id[q], Id[b])
  BY DEF Covers
<1>3. /\ Hash[k] \in Int /\ Id[p] \in Int /\ Id[q] \in Int /\ Id[a] \in Int /\ Id[b] \in Int
  BY PeerAssumption, ProtocolAssumption, Byte16IsInt
<1>4. ~ in_range(Id[b], Id[p], Id[a]) /\ ~ in_range(Id[a], Id[q], Id[b])
  BY <1>1, <1>2, RingAssumption
<1>5. Id[a] = Id[b]
  BY <1>1, <1>2, <1>3, <1>4 DEF in_range
<1> QED
  BY <1>1, <1>2, <1>5, RingAssumption

(* On the settled ring, too, a linked peer dereferences no missing         *)
(* neighbour, what a peer relays is a client's request, and no peers wait  *)
(* for each other in redirect.                                             *)
THEOREM SettledRingSafe == SettledSpec => [](LinkedPeerSurvives /\ SingleHop /\ NoWaitCycle)
<1>1. RingInv => NextImpliesPrev
  <2> SUFFICES ASSUME RingInv, NEW q \in Peers, next[q] # NULL
               PROVE  prev[q] # NULL
    BY DEF NextImpliesPrev
  <2>1. PICK p \in Peers : JoinAt[p] = q
    BY RingAssumption
  <2> QED
    BY <2>1, PeerAssumption DEF RingInv, JoinProgress, Progress
<1>2. SettledInit => RelayAscends
  BY DEF SettledInit, RelayAscends
<1>3. SettledSpec => []RelayAscends
  BY <1>2, RelayAscendsStep, RingInvariant, PTL DEF SettledSpec
<1> QED
  BY <1>1, <1>3, AscendingRelays, LinkedIsSafe, RingInvariant, PTL

==============================================================================
