------------------------------ MODULE Resources ------------------------------
(***************************************************************************)
(* What one peer process takes from the kernel and the heap: a descriptor  *)
(* for every connection it accepts or opens, a block for every message it  *)
(* receives.  It gives back none of the descriptors, and no block that is  *)
(* still in use but one: direct_receive leaves the realloc of a full       *)
(* buffer unassigned (network.c:191), so that when the block moves, the    *)
(* handler gets the one that was freed.                                    *)
(*                                                                         *)
(* The keys of the hash table hang on that.  hash_helper.c gives uthash    *)
(* the caller's key, which points into the block of the request            *)
(* (hash_helper.c:15), and not the copy made for the element.              *)
(***************************************************************************)
EXTENDS Integers, FiniteSetsExt, Functions

CONSTANTS
  Keys,           \* the keys of requests
  Limit,          \* the descriptors a process may have
  CloseListener   \* what get_new_connection may do: see Peer

Standard == 0 .. 2  \* stdin, stdout, stderr
sock_fd  == 3       \* main's listening socket

ASSUME ResourcesAssumption ==
  /\ Limit \in Nat /\ Limit > sock_fd
  /\ CloseListener \subseteq BOOLEAN

Descriptors == 0 .. Limit - 1
Blocks == 1 .. Limit - sock_fd  \* more than there can be connections accepted
None == 0

(* What lies where a message has its key: None is no key of a request.     *)
Contents == Keys \union {None}

ASSUME KeysAssumption == None \notin Keys

VARIABLES
  closes,    \* whether accepting closes the listening socket
  pc,        \* where main's loop is
  fds,       \* the open descriptors and what they are for
  heap,      \* what lies in the blocks of messages
  live,      \* those that are allocated
  rec,       \* the block of the message being handled
  elements   \* the hash table's elements, numbered: see set

vars == <<closes, pc, fds, heap, live, rec, elements>>

Init ==
  /\ closes \in CloseListener
  /\ pc = "accept"
  /\ fds = [fd \in Standard \union {sock_fd} |-> IF fd = sock_fd THEN "listening" ELSE "standard"]
  /\ heap = [b \in Blocks |-> None]
  /\ live = {}
  /\ rec = None
  /\ elements = <<>>

(* f and a point it was not defined at.                                    *)
Extended(f, x, y) == [z \in DOMAIN f \union {x} |-> IF z = x THEN y ELSE f[z]]

Free == Descriptors \ DOMAIN fds

(* socket and accept: the lowest free number.                              *)
Opened(use) == Extended(fds, Min(Free), use)

-----------------------------------------------------------------------------
(* accept is tried until it succeeds: for ever on a number that is closed  *)
(* or belongs to a connection now, and with no number left.                *)
get_new_connection ==
  /\ pc = "accept"
  /\ Free # {}
  /\ sock_fd \in DOMAIN fds
  /\ fds[sock_fd] = "listening"
  /\ fds' = Restrict(Opened("accepted"),
                     DOMAIN Opened("accepted") \ (IF closes THEN {sock_fd} ELSE {}))
  /\ pc' = "recv"
  /\ UNCHANGED <<closes, heap, live, rec, elements>>

(* The freed blocks that something points to.                              *)
Dangling ==
  {b \in Blocks \ live : b = rec \/ \E a \in DOMAIN elements : elements[a].ptr = b}

(* malloc may use them for something else.                                 *)
Overwrites(blocks) ==
  {[b \in Blocks |-> IF b \in blocks THEN new[b] ELSE heap[b]] : new \in [blocks -> Contents]}

(* The message comes to lie in a block that is free; one of a peer holds   *)
(* no key.                                                                 *)
Receive(b, key) ==
  /\ live' = live \union {b}
  /\ \E h \in Overwrites(Dangling \ {b}) : heap' = [h EXCEPT ![b] = key]

(* One that fills BUFFER_SIZE has its block moved and freed, after which   *)
(* anything may lie there.  Nobody points to the new block.                *)
ReceiveMoved(b) ==
  /\ heap' \in Overwrites(Dangling \union {b})
  /\ UNCHANGED live

direct_receive ==
  /\ pc = "recv"
  /\ \E b \in Blocks \ live :
       /\ ReceiveMoved(b) \/ \E key \in Contents : Receive(b, key)
       /\ rec' = b
  /\ pc' = "handle"
  /\ UNCHANGED <<closes, fds, elements>>

(* Deviation: pointers are compared instead of the bytes.                  *)
Found_by_pointer(key) ==
  {a \in DOMAIN elements : elements[a].hashed = key /\ elements[a].ptr = rec}

(* HASH_FIND: the hash value, and the bytes hh.key points to.              *)
Found(key) ==
  {a \in DOMAIN elements : elements[a].hashed = key /\ heap[elements[a].ptr] = key}

(* HASH_ADD_KEYPTR with the caller's pointer: the element is hashed by     *)
(* what lies there when it has been allocated.  That its block was held    *)
(* then is remembered for the properties.                                  *)
set(key) ==
  IF Found(key) # {} THEN UNCHANGED elements
  ELSE LET element == [hashed |-> heap'[rec], ptr |-> rec, held |-> rec \in live]
       IN \E a \in Blocks \ DOMAIN elements :
            1 .. a - 1 \subseteq DOMAIN elements /\ elements' = Extended(elements, a, element)

(* One of those found, the first in its chain, is removed.                 *)
delete_element(key) ==
  \E a \in Found(key) : elements' = Restrict(elements, DOMAIN elements \ {a})

(* Deviation: the message's block is freed.                                *)
Finish_frees_message ==
  /\ pc' = "accept"
  /\ rec' = None
  /\ live' = live \ {rec}
  /\ UNCHANGED closes

(* The handler returns; neither the block nor the descriptor is released.  *)
Finish ==
  /\ pc' = "accept"
  /\ rec' = None
  /\ UNCHANGED <<closes, live>>

(* A request with several operation bits has one of these effects, too.    *)
(* All of them allocate or free something.                                 *)
respond_as_responsible_peer ==
  /\ pc = "handle"
  /\ heap[rec] # None
  /\ heap' \in Overwrites(Dangling)
  /\ \/ UNCHANGED elements  \* GET
     \/ set(heap[rec])
     \/ delete_element(heap[rec])
  /\ Finish
  /\ UNCHANGED fds

(* A message that ends the process: a NULL neighbour or element, a send to *)
(* a client that is gone, a block freed twice.  When is for Peer and       *)
(* Exchange to say.                                                        *)
Crash ==
  /\ pc \in {"recv", "handle"}
  /\ pc' = "crashed"
  /\ UNCHANGED <<closes, fds, heap, live, rec, elements>>

(* Deviation: the connections that were served are closed.                 *)
HandleQuietly_closes ==
  /\ pc = "handle"
  /\ heap[rec] = None
  /\ Finish
  /\ fds' = Restrict(fds, {fd \in DOMAIN fds : fds[fd] # "accepted"})
  /\ UNCHANGED <<heap, elements>>

(* A message that is only looked at.                                       *)
HandleQuietly ==
  /\ pc = "handle"
  /\ heap[rec] = None
  /\ Finish
  /\ UNCHANGED <<fds, heap, elements>>

(* A message or request that makes the peer open a connection, direct_send *)
(* or a relay.  With no number left setup_as_client returns -1, which      *)
(* nobody looks at.                                                        *)
setup_as_client ==
  /\ pc = "handle"
  /\ fds' = IF Free = {} THEN fds ELSE Opened("opened")
  /\ Finish
  /\ UNCHANGED <<heap, elements>>

Next ==
  \/ get_new_connection
  \/ direct_receive
  \/ respond_as_responsible_peer
  \/ Crash
  \/ HandleQuietly
  \/ setup_as_client

(* As long as connections and messages keep coming.                        *)
Spec == Init /\ [][Next]_vars /\ WF_vars(Next)

-----------------------------------------------------------------------------
(* Properties.                                                             *)

(* The memory an element's hh.key points to (hash_helper.c:15) stays the   *)
(* block of the request that set it, with the key in it that it was hashed *)
(* by and a later get compares with, if direct_receive gave that request   *)
(* to the handler in a block that was still allocated: through whatever is *)
(* set, deleted, received, moved and freed after it.                       *)
KeysStable ==
  \A a \in DOMAIN elements :
    LET e == elements[a] IN e.held => e.ptr \in live /\ heap[e.ptr] = e.hashed

(* So of two elements of one key, one was set by a request whose block had *)
(* been moved: a set from an allocated block finds the element that such   *)
(* a set has made, whatever the keys in freed blocks have become.          *)
HeldOnce ==
  \A a, b \in DOMAIN elements :
    elements[a].held /\ elements[b].held /\ elements[a].hashed = elements[b].hashed => a = b

(* main's loop never closes new_sock (peer.c:300-301): if connections keep *)
(* coming, the peer ends up deaf, spinning in accept or dead.              *)
Deaf ==
  \/ pc = "crashed"
  \/ pc = "accept" /\ (Free = {} \/ sock_fd \notin DOMAIN fds \/ fds[sock_fd] # "listening")

GoesDeaf == <>[] Deaf

==============================================================================
