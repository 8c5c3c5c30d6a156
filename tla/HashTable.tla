------------------------------ MODULE HashTable ------------------------------
(***************************************************************************)
(* hash_helper.c as its caller sees it: one table per process, from keys   *)
(* to values.  An absent key maps to NULL, which is what get returns.      *)
(***************************************************************************)
CONSTANTS
  Keys,
  Values,
  NULL

ASSUME TableAssumption == NULL \notin Values

Table == [Keys -> Values \union {NULL}]

EmptyTable == [k \in Keys |-> NULL]

get(table, key) == table[key]

set(table, key, value) == [table EXCEPT ![key] = value]

(* HASH_DEL dereferences the element it is given, so delete_element has a  *)
(* result only for a key that is present; for another it is a NULL         *)
(* dereference.                                                            *)
Deletable(table, key) == get(table, key) # NULL

(* Deviation: the element stays in the table.                              *)
delete_element_keeps(table, key) == table

delete_element(table, key) == [table EXCEPT ![key] = NULL]

==============================================================================
