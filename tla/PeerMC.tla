------------------------------- MODULE PeerMC -------------------------------
(***************************************************************************)
(* Values for the constants of Peer.  Three peers with ids 10 < 20 < 30,   *)
(* keys whose hashes lie in the segments between them, on an id, and past  *)
(* the largest id.                                                         *)
(***************************************************************************)
EXTENDS Peer

CONSTANTS pA, pB, pC, kB, kC, kOn, kWrap, v1, v2

ThreePeers == {pA, pB, pC}

MCId == [p \in Peers |-> CASE p = pA -> 10 [] p = pB -> 20 [] p = pC -> 30]

MCHash == [k \in Keys |-> CASE k = kB -> 15 [] k = kC -> 25 [] k = kOn -> 20 [] k = kWrap -> 40]

AtBase  == [p \in Peers |-> IF p = pA THEN NULL ELSE pA]
AtNext  == [p \in Peers |-> CASE p = pA -> pB [] p = pB -> pC [] p = pC -> pA]

Clean   == {{}}
Dirty   == {{}, {"finger", "lookup"}, {"reply"}}

GetOf(k)    == [ops |-> {"get"}, key |-> k, value |-> NULL]
SetOf(k, v) == [ops |-> {"set"}, key |-> k, value |-> v]
DeleteOf(k) == [ops |-> {"delete"}, key |-> k, value |-> NULL]

Single   == UNION {{GetOf(k), DeleteOf(k)} \union {SetOf(k, v) : v \in Values} : k \in Keys}
Stores   == {SetOf(k, v) : k \in Keys, v \in Values}

(* A SET, and SETs along with other operations: several answers, and with  *)
(* them the writes to a client that is gone.                               *)
StoresAndMore ==
  Stores \union [ops : {Operations, {"set", "delete"}}, key : Keys, value : Values]

(* The messages of the harness: each flag on its own, and finger with      *)
(* lookup, from pB or pC, aimed into a segment or nowhere.                  *)
Plain ==
  [flags : {{f} : f \in Flags} \union {{}, {"finger", "lookup"}}, hashId : {15, 40}, node : {pB, pC} \intersect Peers]

NoMessages == {}

==============================================================================
