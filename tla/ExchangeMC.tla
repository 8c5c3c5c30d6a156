------------------------------ MODULE ExchangeMC ------------------------------
(***************************************************************************)
(* Bytes below 2, so that a key length is one below 4 and a value length   *)
(* one below 16, and buffers of 10 bytes: requests and answers that fit,   *)
(* that fill buffers exactly, and that take two and three of them.         *)
(***************************************************************************)
EXTENDS Exchange, TLC

(* The next peer has the keys that begin with 0; one is a third peer's.    *)
MCOwner(key) ==
  IF key \in {<<>>, <<1, 1>>} THEN "elsewhere" ELSE IF key[1] = 1 THEN "peer" ELSE "next"

Value(n) == [i \in 1 .. n |-> i % 2]

MCInitial ==
  [peer |-> (<<1>> :> Value(15)) @@ (<<1, 0>> :> <<>>),
   next |-> (<<0>> :> Value(2)) @@ (<<0, 1>> :> Value(5))]

LongKey(b) == [i \in 1 .. 5 |-> b]

Get(key)        == [op |-> "get", key |-> key, value |-> <<>>]
Delete(key)     == [op |-> "delete", key |-> key, value |-> <<>>]
Set(key, value) == [op |-> "set", key |-> key, value |-> value]

(* Requests whose request and answer take less than a buffer ...           *)
ShortRequests ==
  {Get(<<1, 0>>), Get(<<0, 0>>), Set(<<1>>, Value(1)), Set(<<0, 1>>, <<>>),
   Delete(<<1>>), Delete(<<0, 0>>), Delete(<<0, 1>>), Set(<<1, 1>>, <<>>),
   [op |-> "put", key |-> <<0>>, value |-> <<>>]}

(* ... more than one; or that fill one; and a key cut to its first byte.   *)
LongRequests ==
  {Get(<<1>>), Get(<<0, 1>>), Get(<<0>>), Get(<<1, 0, 1>>), Get(LongKey(1)), Set(<<1, 0>>, Value(11)),
   Set(<<0, 1>>, Value(13)), Set(LongKey(0), Value(4)), Set(<<1, 1>>, Value(3))}

MCRequests == ShortRequests \union LongRequests

==============================================================================
