--------------------------- MODULE KeyValueService ---------------------------
(***************************************************************************)
(* What the network of peers promises its clients: one table, to which     *)
(* each request is applied in one step, at most once, at some moment       *)
(* between the client's sending it and the client's reading the answer,    *)
(* and whose answer is the table's at that moment.  A request may also     *)
(* never be applied.                                                       *)
(***************************************************************************)
CONSTANTS
  Clients,
  Keys,
  Values,
  NULL,
  Requests  \* requests of one operation each

VARIABLES
  kv,       \* the table
  pending,  \* the request each client has sent
  answer    \* what it was, or will be, answered

vars == <<kv, pending, answer>>

Init ==
  /\ kv      = [k \in Keys |-> NULL]
  /\ pending = [c \in Clients |-> NULL]
  /\ answer  = [c \in Clients |-> NULL]

Ask(c) ==
  /\ pending[c] = NULL
  /\ \E r \in Requests : pending' = [pending EXCEPT ![c] = r]
  /\ UNCHANGED <<kv, answer>>

Reply(c, op, value) == answer' = [answer EXCEPT ![c] = [op |-> op, value |-> value]]

Execute(c) ==
  LET r == pending[c]
  IN /\ r # NULL
     /\ answer[c] = NULL
     /\ \/ /\ r.ops = {"get"}
           /\ Reply(c, "get", kv[r.key])
           /\ UNCHANGED kv
        \/ /\ r.ops = {"set"}
           /\ Reply(c, "set", NULL)
           /\ kv' = [kv EXCEPT ![r.key] = r.value]
        \/ /\ r.ops = {"delete"}
           /\ Reply(c, "delete", NULL)
           /\ kv' = [kv EXCEPT ![r.key] = NULL]
     /\ UNCHANGED pending

Next == \E c \in Clients : Ask(c) \/ Execute(c)

Spec == Init /\ [][Next]_vars

==============================================================================
