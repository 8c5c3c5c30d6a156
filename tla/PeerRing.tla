------------------------------- MODULE PeerRing -------------------------------
(***************************************************************************)
(* A ring without faults of the protocol's own: every peer is told to join *)
(* the one that follows it, messages hold what was meant, and nobody but   *)
(* clients and peers takes part.  Peers may still crash, and clients may   *)
(* go away at any time.                                                    *)
(***************************************************************************)
EXTENDS Peer

(* JoinAt closes the ring, and no id lies between those of a peer and the  *)
(* one it joins.  The backlog has room for every requester, one join and   *)
(* one notify.                                                             *)
ASSUME RingAssumption ==
  /\ JoinAt \in [Peers -> Peers]
  /\ \A q \in Peers : \E p \in Peers : JoinAt[p] = q
  /\ \A p, q \in Peers : JoinAt[p] = JoinAt[q] => p = q
  /\ \A p, q \in Peers : Id[p] = Id[q] => p = q
  /\ \A p, q \in Peers : ~ in_range(Id[q], Id[JoinAt[p]], Id[p])
  /\ IsFiniteSet(Requesters)
  /\ Backlog >= Cardinality(Requesters) + 2
  /\ StackFlags \subseteq {{}}
  /\ Restartable = {}
  /\ MaxInject = 0
  /\ ~ CloseListener

(* The state a ring settles in (RingFormed).                               *)
SettledInit ==
  /\ proc      = [p \in Peers |-> "accept"]
  /\ listening = [p \in Peers |-> TRUE]
  /\ backlog   = [p \in Peers |-> <<>>]
  /\ serving   = [p \in Peers |-> NULL]
  /\ next      = JoinAt
  /\ prev      = [p \in Peers |-> CHOOSE q \in Peers : JoinAt[q] = p]
  /\ store     = [p \in Peers |-> EmptyTable]
  /\ cstate    = [c \in Clients |-> "idle"]
  /\ asked     = [x \in Requesters |-> NULL]
  /\ inbound   = [x \in Requesters |-> <<>>]
  /\ reset     = [x \in Requesters |-> FALSE]
  /\ injected  = 0

SettledSpec     == SettledInit /\ [][Next]_vars
FairSettledSpec == SettledSpec /\ Fairness

==============================================================================
