--------------------------- MODULE ResourcesProofs ---------------------------
(***************************************************************************)
(* Proofs about Resources, for every set of keys and every limit.          *)
(*                                                                         *)
(* The two facts about the hash table hang together: set looks for a key   *)
(* by the bytes hh.key points to, so that it finds the element it would    *)
(* double only if those bytes have not changed.  They have not while the   *)
(* block is allocated, and what direct_receive moves, and malloc puts to   *)
(* another use, is never an allocated block.                               *)
(***************************************************************************)
EXTENDS Resources, TLAPS

Inv == live \subseteq Blocks /\ KeysStable /\ HeldOnce

(* Allocated blocks stay allocated and stay as they are.                   *)
LiveKept == live \subseteq live' /\ live' \subseteq Blocks /\ \A b \in live : heap'[b] = heap[b]

LEMMA InitInv == Init => Inv
<1> SUFFICES ASSUME Init PROVE Inv
  OBVIOUS
<1>1. live = {} /\ DOMAIN elements = {}
  BY DEF Init
<1> QED
  BY <1>1 DEF Inv, KeysStable, HeldOnce

LEMMA OverwritesKeep ==
  ASSUME NEW h, NEW blocks, h \in Overwrites(blocks)
  PROVE  /\ DOMAIN h = Blocks
         /\ \A b \in Blocks \ blocks : h[b] = heap[b]
  BY DEF Overwrites

LEMMA ReceiveKeeps == ASSUME Inv, direct_receive PROVE LiveKept /\ UNCHANGED elements
<1>1. PICK b \in Blocks \ live : ReceiveMoved(b) \/ \E key \in Contents : Receive(b, key)
  BY DEF direct_receive
<1>2. Dangling \cap live = {}
  BY DEF Dangling
<1>3. CASE ReceiveMoved(b)
  <2>1. heap' \in Overwrites(Dangling \union {b}) /\ live' = live
    BY <1>3 DEF ReceiveMoved
  <2> QED
    BY <1>1, <1>2, <2>1, OverwritesKeep DEF LiveKept, Inv, direct_receive
<1>4. ASSUME NEW key \in Contents, Receive(b, key) PROVE LiveKept
  <2>1. PICK h \in Overwrites(Dangling \ {b}) : heap' = [h EXCEPT ![b] = key]
    BY <1>4 DEF Receive
  <2>2. \A c \in live : h[c] = heap[c] /\ c \in DOMAIN h /\ c # b
    BY <1>1, <1>2, <2>1, OverwritesKeep DEF Inv
  <2>3. live' = live \union {b}
    BY <1>4 DEF Receive
  <2> QED
    BY <1>1, <2>1, <2>2, <2>3 DEF LiveKept, Inv
<1> QED
  BY <1>1, <1>3, <1>4 DEF direct_receive

LEMMA RespondKeeps == ASSUME Inv, respond_as_responsible_peer PROVE LiveKept
<1>1. heap' \in Overwrites(Dangling) /\ live' = live
  BY DEF respond_as_responsible_peer, Finish
<1> QED
  BY <1>1, OverwritesKeep DEF Dangling, LiveKept, Inv

(* While allocated blocks stay, elements and fewer elements stay stable.   *)
LEMMA KeptElements ==
  ASSUME Inv, LiveKept, DOMAIN elements' \subseteq DOMAIN elements,
         \A a \in DOMAIN elements' : elements'[a] = elements[a]
  PROVE  Inv'
<1>1. KeysStable'
  BY DEF Inv, LiveKept, KeysStable
<1>2. HeldOnce'
  BY DEF Inv, HeldOnce
<1> QED
  BY <1>1, <1>2 DEF Inv, LiveKept

(* What set adds from an allocated block holds the key it looked for, and  *)
(* by KeysStable no element of such a block had that key.                  *)
LEMMA SetKeeps ==
  ASSUME Inv, LiveKept, set(heap[rec])
  PROVE  Inv'
<1>1. CASE Found(heap[rec]) # {}
  BY <1>1, KeptElements DEF set
<1>2. CASE Found(heap[rec]) = {}
  <2> DEFINE new == [hashed |-> heap'[rec], ptr |-> rec, held |-> rec \in live]
  <2>1. PICK a \in Blocks \ DOMAIN elements : elements' = Extended(elements, a, new)
    BY <1>2 DEF set
  <2>2. new.hashed = heap'[rec] /\ new.ptr = rec /\ new.held = (rec \in live)
    OBVIOUS
  <2> HIDE DEF new
  <2>3. /\ DOMAIN elements' = DOMAIN elements \union {a}
        /\ elements'[a] = new
        /\ \A b \in DOMAIN elements : elements'[b] = elements[b]
    BY <2>1 DEF Extended
  <2>4. new.held => new.ptr \in live' /\ heap'[new.ptr] = new.hashed
    BY <2>2 DEF LiveKept
  <2>5. KeysStable'
    BY <2>3, <2>4 DEF Inv, KeysStable, LiveKept
  <2>6. \A b \in DOMAIN elements :
          elements[b].held /\ new.held => elements[b].hashed # new.hashed
    <3> SUFFICES ASSUME NEW b \in DOMAIN elements, elements[b].held, new.held,
                        elements[b].hashed = new.hashed
                 PROVE  FALSE
      OBVIOUS
    <3>1. new.hashed = heap[rec]
      BY <2>2 DEF LiveKept
    <3>2. heap[elements[b].ptr] = elements[b].hashed
      BY DEF Inv, KeysStable
    <3>3. b \in Found(heap[rec])
      BY <3>1, <3>2 DEF Found
    <3> QED
      BY <1>2, <3>3
  <2>7. HeldOnce'
    BY <2>3, <2>6 DEF Inv, HeldOnce
  <2> QED
    BY <2>5, <2>7 DEF Inv, LiveKept
<1> QED
  BY <1>1, <1>2

LEMMA NextInv == Inv /\ [Next]_vars => Inv'
<1> SUFFICES ASSUME Inv, [Next]_vars PROVE Inv'
  OBVIOUS
<1>1. ASSUME UNCHANGED <<heap, live, elements>> PROVE Inv'
  BY <1>1 DEF Inv, KeysStable, HeldOnce
<1>2. CASE get_new_connection
  BY <1>1, <1>2 DEF get_new_connection
<1>3. CASE direct_receive
  BY <1>3, ReceiveKeeps, KeptElements
<1>4. CASE respond_as_responsible_peer
  <2>1. LiveKept
    BY <1>4, RespondKeeps
  <2>2. CASE UNCHANGED elements
    BY <2>1, <2>2, KeptElements
  <2>3. CASE set(heap[rec])
    BY <2>1, <2>3, SetKeeps
  <2>4. CASE delete_element(heap[rec])
    <3>1. PICK a \in Found(heap[rec]) : elements' = Restrict(elements, DOMAIN elements \ {a})
      BY <2>4 DEF delete_element
    <3> QED
      BY <2>1, <3>1, KeptElements DEF Restrict
  <2> QED
    BY <1>4, <2>2, <2>3, <2>4 DEF respond_as_responsible_peer
<1>5. CASE Crash
  BY <1>1, <1>5 DEF Crash
<1>6. CASE HandleQuietly
  BY <1>1, <1>6 DEF HandleQuietly, Finish
<1>7. CASE setup_as_client
  BY <1>1, <1>7 DEF setup_as_client, Finish
<1>8. CASE UNCHANGED vars
  BY <1>1, <1>8 DEF vars
<1> QED
  BY <1>2, <1>3, <1>4, <1>5, <1>6, <1>7, <1>8 DEF Next

(* The key of an element that was set from an allocated block does not     *)
(* change (hash_helper.c:15): no block that is in use is freed or moved,   *)
(* the one direct_receive moves under its caller (network.c:191) excepted. *)
THEOREM KeysAreStable == Spec => []KeysStable
<1>1. Inv => KeysStable
  BY DEF Inv
<1> QED BY InitInv, NextInv, <1>1, PTL DEF Spec

(* set does not create a second element for such a key, so that every      *)
(* duplicate comes of a moved block.                                       *)
THEOREM HeldKeysAreUnique == Spec => []HeldOnce
<1>1. Inv => HeldOnce
  BY DEF Inv
<1> QED BY InitInv, NextInv, <1>1, PTL DEF Spec

==============================================================================
