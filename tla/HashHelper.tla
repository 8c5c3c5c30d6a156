----------------------------- MODULE HashHelper -----------------------------
(***************************************************************************)
(* hash_helper.c on top of the macros of uthash.h: one element per key,    *)
(* linked in the order of insertion and chained in a bucket chosen by the  *)
(* low bits of its hash, and buckets that are doubled when a chain gets    *)
(* long.  HashTable is what the rest of the program sees of it.            *)
(*                                                                         *)
(* A linked list is the sequence of its elements, an element is its key    *)
(* (set adds none for a key that get finds).  The handle points to the key *)
(* in the caller's receive buffer and not to the copy set makes; peer.c    *)
(* never frees that buffer, so the key an element is found by is constant. *)
(***************************************************************************)
EXTENDS HashTable, Integers, Sequences, SequencesExt, FiniteSets

CONSTANTS
  HashOf,          \* HashOf[k]: the 32-bit hash of k
  InitialBuckets,  \* HASH_INITIAL_NUM_BUCKETS
  Thresh,          \* HASH_BKT_CAPACITY_THRESH
  MaxBuckets,      \* bound: nothing is added to a table that could grow beyond
  MaxElements      \* bound: the elements in the table

ASSUME HashHelperAssumption ==
  /\ HashOf \in [Keys -> Nat]
  /\ InitialBuckets \in Nat \ {0}
  /\ Thresh \in Nat \ {0}
  /\ MaxBuckets \in Nat
  /\ MaxElements \in Nat

VARIABLES
  order,   \* the elements in insertion order, from hash_table_head: empty when that is NULL
  tbl,     \* the UT_hash_table it points to, if any
  value,   \* the value of each element
  crashed  \* NULL was dereferenced

vars == <<order, tbl, value, crashed>>

Init ==
  /\ order = <<>>
  /\ tbl = NULL
  /\ value = [k \in Keys |-> NULL]
  /\ crashed = FALSE

-----------------------------------------------------------------------------
(* uthash.h.                                                               *)

(* The mask num_bkts - 1, of a power of two.                               *)
HASH_TO_BKT(key, num_bkts) == HashOf[key] % num_bkts

HASH_FIND(key) == order # <<>> /\ key \in ToSet(tbl.buckets[HASH_TO_BKT(key, tbl.num_buckets)].chain)

EmptyBuckets(n) == [b \in 0 .. n - 1 |-> [chain |-> <<>>, count |-> 0, expand_mult |-> 0]]

HASH_MAKE_TABLE ==
  [buckets |-> EmptyBuckets(InitialBuckets), num_buckets |-> InitialBuckets,
   num_items |-> 0, ideal_chain_maxlen |-> 0, ineff_expands |-> 0, noexpand |-> FALSE]

(* What is left of an empty chain when those elements of another that go   *)
(* to bucket b of n are pushed on it, head first.                          *)
Pushed(chain, b, n) ==
  LET pushed[i \in 0 .. Len(chain)] ==
        IF i = 0 THEN <<>>
        ELSE (IF HASH_TO_BKT(chain[i], n) = b THEN <<chain[i]>> ELSE <<>>) \o pushed[i - 1]
  IN pushed[Len(chain)]

(* The expand_mult of a bucket that has been given count elements: each    *)
(* one beyond the ideal, and beyond the multiple so far, raises it.        *)
Multiple(count, ideal_chain_maxlen) ==
  LET expand_mult[c \in 0 .. count] ==
        IF c = 0 THEN 0
        ELSE IF c > ideal_chain_maxlen /\ c > expand_mult[c - 1] * ideal_chain_maxlen
             THEN expand_mult[c - 1] + 1 ELSE expand_mult[c - 1]
  IN expand_mult[count]

(* The chains are moved to twice as many buckets: what comes to one of     *)
(* these comes from a single one, as hashes that are equal modulo 2n are   *)
(* equal modulo n.  A second expansion in a row that leaves most elements  *)
(* beyond the ideal length of their chain is the last one.                 *)
HASH_EXPAND_BUCKETS(t) ==
  LET n == 2 * t.num_buckets
      ideal_chain_maxlen == t.num_items \div n + (IF t.num_items % n # 0 THEN 1 ELSE 0)
      Moved(b) == Pushed(t.buckets[b % t.num_buckets].chain, b, n)
      buckets == [b \in 0 .. n - 1 |->
                    [chain |-> Moved(b), count |-> Len(Moved(b)),
                     expand_mult |-> Multiple(Len(Moved(b)), ideal_chain_maxlen)]]
      nonideal_items == UNION {{b} \X (ideal_chain_maxlen + 1 .. buckets[b].count) : b \in 0 .. n - 1}
      ineff == IF Cardinality(nonideal_items) > t.num_items \div 2 THEN t.ineff_expands + 1 ELSE 0
  IN [t EXCEPT !.buckets = buckets, !.num_buckets = n,
               !.ideal_chain_maxlen = ideal_chain_maxlen, !.ineff_expands = ineff, !.noexpand = @ \/ ineff > 1]

(* num_items and the head of the chain, as HASH_ADD_TO_BKT begins.         *)
Chained(t, key) ==
  LET b == HASH_TO_BKT(key, t.num_buckets)
  IN [t EXCEPT !.num_items = @ + 1, !.buckets[b].chain = <<key>> \o @, !.buckets[b].count = @ + 1]

(* Deviation: a chain may reach its limit before the buckets are doubled.  *)
HASH_ADD_TO_TABLE_late(t, key) ==
  LET added == Chained(t, key)
      bucket == added.buckets[HASH_TO_BKT(key, t.num_buckets)]
  IN IF bucket.count > (bucket.expand_mult + 1) * Thresh /\ ~ t.noexpand
     THEN HASH_EXPAND_BUCKETS(added)
     ELSE added

(* With HASH_ADD_TO_BKT, which pushes on the chain and may expand.         *)
HASH_ADD_TO_TABLE(t, key) ==
  LET added == Chained(t, key)
      bucket == added.buckets[HASH_TO_BKT(key, t.num_buckets)]
  IN IF bucket.count >= (bucket.expand_mult + 1) * Thresh /\ ~ t.noexpand
     THEN HASH_EXPAND_BUCKETS(added)
     ELSE added

(* The first element makes the table.                                      *)
HASH_ADD_KEYPTR(key) ==
  /\ tbl' = HASH_ADD_TO_TABLE(IF order = <<>> THEN HASH_MAKE_TABLE ELSE tbl, key)
  /\ order' = Append(order, key)

(* num_items and the chain, of an element that is not the only one.        *)
Unchained(t, key) ==
  LET b == HASH_TO_BKT(key, t.num_buckets)
  IN [t EXCEPT !.num_items = @ - 1, !.buckets[b].chain = RemoveFirst(@, key), !.buckets[b].count = @ - 1]

(* Deviation: the table is freed with whichever element is at its head.    *)
HASH_DELETE_head_frees(key) ==
  IF Head(order) = key
  THEN tbl' = NULL /\ order' = <<>>
  ELSE tbl' = Unchained(tbl, key) /\ order' = RemoveFirst(order, key)

(* Deviation: the element leaves the list, and stays in its chain.         *)
HASH_DELETE_leaves_chained(key) ==
  IF order = <<key>>
  THEN tbl' = NULL /\ order' = <<>>
  ELSE tbl' = [tbl EXCEPT !.num_items = @ - 1] /\ order' = RemoveFirst(order, key)

(* The last element takes the table with it.                               *)
HASH_DELETE(key) ==
  IF order = <<key>>
  THEN tbl' = NULL /\ order' = <<>>
  ELSE tbl' = Unchained(tbl, key) /\ order' = RemoveFirst(order, key)

-----------------------------------------------------------------------------
(* hash_helper.c.  get changes nothing: it is HASH_FIND.                   *)

Set(key, v) ==
  /\ ~ crashed
  /\ IF HASH_FIND(key)
     THEN UNCHANGED <<tbl, order>>
     ELSE /\ Len(order) < MaxElements
          /\ order # <<>> => tbl.num_buckets < MaxBuckets \/ tbl.noexpand
          /\ HASH_ADD_KEYPTR(key)
  /\ value' = [value EXCEPT ![key] = v]
  /\ UNCHANGED crashed

Delete(key) ==
  /\ ~ crashed
  /\ HASH_FIND(key)
  /\ HASH_DELETE(key)
  /\ value' = [value EXCEPT ![key] = NULL]
  /\ UNCHANGED crashed

DeleteAbsent(key) ==
  /\ ~ crashed
  /\ ~ HASH_FIND(key)
  /\ crashed' = TRUE
  /\ UNCHANGED <<tbl, order, value>>

Next == \E key \in Keys : Delete(key) \/ DeleteAbsent(key) \/ \E v \in Values : Set(key, v)

Spec == Init /\ [][Next]_vars

-----------------------------------------------------------------------------
(* What get returns for each key.                                          *)
Contents == [k \in Keys |-> IF HASH_FIND(k) THEN value[k] ELSE NULL]

(* set and delete_element do to what get returns what HashTable's do,      *)
(* through every insertion, expansion and freeing of the table, and        *)
(* delete_element fails exactly where HashTable says it has no result.     *)
ActsOnTable ==
  [][\A key \in Keys :
       /\ \A v \in Values : Set(key, v) => Contents' = set(Contents, key, v)
       /\ Delete(key) => Deletable(Contents, key) /\ Contents' = delete_element(Contents, key)
       /\ DeleteAbsent(key) => ~ Deletable(Contents, key)]_vars

(* HASH_FSCK (uthash.h:526-573), which HASH_DEBUG would run after every    *)
(* change: counts, chains and the insertion order agree, and an element is *)
(* linked once, in the bucket it is looked for in.                         *)
Consistent ==
  IF order = <<>>
  THEN tbl = NULL
  ELSE /\ tbl.num_items = Len(order)
       /\ IsInjective(order)
       /\ \A b \in 0 .. tbl.num_buckets - 1 :
            /\ IsInjective(tbl.buckets[b].chain)
            /\ tbl.buckets[b].count = Len(tbl.buckets[b].chain)
            /\ ToSet(tbl.buckets[b].chain)
                 = {k \in ToSet(order) : HASH_TO_BKT(k, tbl.num_buckets) = b}

(* "a longer yet-still-bounded value" (uthash.h, at expand_mult): unless   *)
(* expansion is given up, a chain stays below the multiple of the          *)
(* threshold its bucket stands for, or within the same multiple of what    *)
(* was ideal when the buckets were last doubled, whatever elements come    *)
(* and go between expansions.                                              *)
ChainsBounded ==
  order # <<>> /\ ~ tbl.noexpand =>
    \A bucket \in Range(tbl.buckets) :
      \/ bucket.count < (bucket.expand_mult + 1) * Thresh
      \/ bucket.count <= (bucket.expand_mult + 1) * tbl.ideal_chain_maxlen

=============================================================================
