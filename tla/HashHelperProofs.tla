--------------------------- MODULE HashHelperProofs ---------------------------
(***************************************************************************)
(* That uthash, as hash_helper.c uses it, is the table HashTable describes *)
(* and keeps its chains as short as it promises, whatever the hashes are   *)
(* and however often it expands.                                           *)
(***************************************************************************)
EXTENDS HashHelper, SequenceTheorems, WellFoundedInduction, TLAPS

-----------------------------------------------------------------------------
(* Induction on the naturals, for a set of them.                           *)

Below == {pair \in Nat \X Nat : pair[1] < pair[2]}

LEMMA BelowIsWellFounded == IsWellFoundedOn(Below, Nat)
<1>1. Below = OpToRel(<, Nat)
  BY Zenon DEF Below, OpToRel
<1> QED
  BY <1>1, NatLessThanWellFounded, Zenon

LEMMA NaturalsInSet ==
  ASSUME NEW S, 0 \in S, \A n \in Nat : n \in S => n + 1 \in S
  PROVE  Nat \subseteq S
<1> DEFINE T == Nat \ S
<1> SUFFICES ASSUME T # {}
             PROVE  FALSE
  OBVIOUS
<1>1. PICK n \in T : \A k \in T : <<k, n>> \notin Below
  <2>1. T \subseteq Nat
    OBVIOUS
  <2> HIDE DEF T
  <2> QED
    BY <2>1, BelowIsWellFounded, WFMin, Zenon
<1>2. n \in Nat /\ n # 0 /\ n \notin S
  OBVIOUS
<1>3. n - 1 \in Nat /\ n - 1 < n /\ (n - 1) + 1 = n
  BY <1>2
<1>4. n - 1 \in S
  <2>1. CASE n - 1 \in T
    <3>1. <<n - 1, n>> \in Below
      BY <1>2, <1>3 DEF Below
    <3> QED
      BY <1>1, <2>1, <3>1
  <2> QED
    BY <1>3, <2>1
<1> QED
  BY <1>2, <1>3, <1>4

(* f is what base and the steps up to n define by recursion.               *)
Solves(f, n, V, base, step) ==
  f \in [0 .. n -> V] /\ f[0] = base /\ \A i \in 1 .. n : f[i] = step[i][f[i - 1]]

LEMMA Recursion ==
  ASSUME NEW n \in Nat, NEW V, NEW base \in V, NEW step \in [1 .. n -> [V -> V]]
  PROVE  \E f : Solves(f, n, V, base, step)
<1> DEFINE S == {m \in Nat : m <= n => \E f : Solves(f, m, V, base, step)}
<1>1. 0 \in S
  <2> DEFINE f == [i \in 0 .. 0 |-> base]
  <2>1. Solves(f, 0, V, base, step)
    BY DEF Solves
  <2> QED
    BY <2>1
<1>2. ASSUME NEW m \in Nat, m \in S
      PROVE  m + 1 \in S
  <2> SUFFICES ASSUME m + 1 <= n
               PROVE  \E f : Solves(f, m + 1, V, base, step)
    OBVIOUS
  <2>1. PICK f : Solves(f, m, V, base, step)
    BY <1>2
  <2> DEFINE g == [i \in 0 .. m + 1 |-> IF i = m + 1 THEN step[m + 1][f[m]] ELSE f[i]]
  <2>2. step[m + 1][f[m]] \in V
    <3>1. m + 1 \in 1 .. n /\ f[m] \in V
      BY <2>1 DEF Solves
    <3> QED
      BY <3>1
  <2>3. g \in [0 .. m + 1 -> V] /\ g[0] = base
    BY <2>1, <2>2 DEF Solves
  <2>4. ASSUME NEW i \in 1 .. m + 1
        PROVE  g[i] = step[i][g[i - 1]]
    <3>1. CASE i = m + 1
      <4>1. g[i] = step[m + 1][f[m]] /\ i - 1 = m /\ g[m] = f[m]
        BY <3>1
      <4> QED
        BY <3>1, <4>1
    <3>2. CASE i # m + 1
      <4>1. i \in 1 .. m /\ g[i] = f[i]
        BY <3>2
      <4>2. i - 1 \in 0 .. m + 1 /\ i - 1 # m + 1 /\ g[i - 1] = f[i - 1]
        BY <4>1
      <4>3. f[i] = step[i][f[i - 1]]
        BY <2>1, <4>1 DEF Solves
      <4> HIDE DEF g
      <4> QED
        BY <4>1, <4>2, <4>3
    <3> QED
      BY <3>1, <3>2
  <2>5. Solves(g, m + 1, V, base, step)
    <3> HIDE DEF g
    <3> QED
      BY <2>3, <2>4 DEF Solves
  <2> QED
    BY <2>5
<1>3. Nat \subseteq S
  <2> HIDE DEF S
  <2> QED
    BY <1>1, <1>2, NaturalsInSet
<1> QED
  BY <1>3

(* Another function with that recursion has the same values.               *)
Follows(g, f, n, base, step) ==
  g[0] = base /\ \A i \in 1 .. n : f[i - 1] = g[i - 1] => g[i] = step[i][g[i - 1]]

LEMMA RecursionUnique ==
  ASSUME NEW n \in Nat, NEW V, NEW base, NEW step, NEW f, NEW g,
         Solves(f, n, V, base, step), Follows(g, f, n, base, step)
  PROVE  g[n] = f[n]
<1> DEFINE S == {i \in Nat : i <= n => g[i] = f[i]}
<1>1. 0 \in S
  BY DEF Solves, Follows
<1>2. ASSUME NEW i \in Nat, i \in S
      PROVE  i + 1 \in S
  <2> SUFFICES ASSUME i + 1 <= n
               PROVE  g[i + 1] = f[i + 1]
    OBVIOUS
  <2>1. g[i] = f[i] /\ i + 1 \in 1 .. n /\ (i + 1) - 1 = i
    BY <1>2
  <2>2. f[i + 1] = step[i + 1][f[i]]
    BY <2>1 DEF Solves
  <2>3. f[(i + 1) - 1] = g[(i + 1) - 1]
    BY <2>1
  <2>4. g[i + 1] = step[i + 1][g[i]]
    BY <2>1, <2>3 DEF Follows
  <2> QED
    BY <2>1, <2>2, <2>4
<1>3. Nat \subseteq S
  <2> HIDE DEF S
  <2> QED
    BY <1>1, <1>2, NaturalsInSet
<1> QED
  BY <1>3

-----------------------------------------------------------------------------
(* Lists of elements that are linked once.                                 *)

LEMMA Elements ==
  ASSUME NEW T, NEW s \in Seq(T)
  PROVE  /\ ToSet(s) = {s[i] : i \in 1 .. Len(s)} /\ ToSet(s) \subseteq T
         /\ IsInjective(s) <=> \A i, j \in 1 .. Len(s) : s[i] = s[j] => i = j
         /\ s = <<>> <=> ToSet(s) = {}
<1>1. DOMAIN s = 1 .. Len(s) /\ Len(s) \in Nat /\ \A i \in 1 .. Len(s) : s[i] \in T
  OBVIOUS
<1>2. s # <<>> => Len(s) # 0
  BY EmptySeq
<1>3. s # <<>> => 1 \in 1 .. Len(s)
  BY <1>1, <1>2
<1> QED
  BY <1>1, <1>3 DEF ToSet, IsInjective

(* A new first element ...                                                 *)
LEMMA Prepended ==
  ASSUME NEW T, NEW s \in Seq(T), NEW e \in T
  PROVE  /\ <<e>> \o s \in Seq(T) /\ Len(<<e>> \o s) = Len(s) + 1
         /\ ToSet(<<e>> \o s) = ToSet(s) \union {e}
         /\ IsInjective(s) /\ e \notin ToSet(s) => IsInjective(<<e>> \o s)
<1> DEFINE t == <<e>> \o s
<1>1. Len(s) \in Nat /\ \A i \in 1 .. Len(s) : s[i] \in T
  OBVIOUS
<1>2. <<e>> \in Seq(T) /\ Len(<<e>>) = 1 /\ <<e>>[1] = e
  OBVIOUS
<1>3. t \in Seq(T) /\ Len(t) = Len(s) + 1
  BY <1>1, <1>2, ConcatProperties
<1>4. \A i \in 1 .. Len(s) + 1 : t[i] = IF i = 1 THEN e ELSE s[i - 1]
  BY <1>1, <1>2, ConcatProperties
<1> HIDE DEF t
<1>5. ToSet(t) = ToSet(s) \union {e}
  <2>1. ASSUME NEW x \in ToSet(t)
        PROVE  x \in ToSet(s) \union {e}
    <3>1. PICK i \in 1 .. Len(s) + 1 : x = t[i]
      BY <1>3, Elements
    <3>2. CASE i = 1
      BY <1>4, <3>1, <3>2
    <3>3. CASE i # 1
      <4>1. i - 1 \in 1 .. Len(s) /\ x = s[i - 1]
        BY <1>1, <1>4, <3>1, <3>3
      <4> QED
        BY <4>1, Elements
    <3> QED
      BY <3>2, <3>3
  <2>2. e \in ToSet(t)
    <3>1. 1 \in 1 .. Len(s) + 1 /\ t[1] = e
      BY <1>1, <1>4
    <3> QED
      BY <1>3, <3>1, Elements
  <2>3. ASSUME NEW x \in ToSet(s)
        PROVE  x \in ToSet(t)
    <3>1. PICK i \in 1 .. Len(s) : x = s[i]
      BY Elements
    <3>2. i + 1 \in 1 .. Len(s) + 1 /\ t[i + 1] = x
      BY <1>1, <1>4, <3>1
    <3> QED
      BY <1>3, <3>2, Elements
  <2> QED
    BY <2>1, <2>2, <2>3
<1>6. ASSUME IsInjective(s), e \notin ToSet(s)
      PROVE  IsInjective(t)
  <2>1. \A i, j \in 1 .. Len(s) : s[i] = s[j] => i = j
    BY <1>6, Elements
  <2>2. \A i \in 1 .. Len(s) : s[i] # e
    BY <1>6, Elements
  <2>3. ASSUME NEW i \in 1 .. Len(t), NEW j \in 1 .. Len(t), t[i] = t[j]
        PROVE  i = j
    <3>1. CASE i = 1
      <4>1. j # 1 => j - 1 \in 1 .. Len(s) /\ s[j - 1] = e
        BY <1>1, <1>3, <1>4, <2>3, <3>1
      <4> QED
        BY <2>2, <3>1, <4>1
    <3>2. CASE j = 1
      <4>1. i # 1 => i - 1 \in 1 .. Len(s) /\ s[i - 1] = e
        BY <1>1, <1>3, <1>4, <2>3, <3>2
      <4> QED
        BY <2>2, <3>2, <4>1
    <3>3. CASE i # 1 /\ j # 1
      <4>1. i - 1 \in 1 .. Len(s) /\ j - 1 \in 1 .. Len(s) /\ s[i - 1] = s[j - 1]
        BY <1>1, <1>3, <1>4, <2>3, <3>3
      <4>2. i - 1 = j - 1
        BY <2>1, <4>1
      <4> QED
        BY <4>2
    <3> QED
      BY <3>1, <3>2, <3>3
  <2> QED
    BY <1>3, <2>3, Elements
<1> QED
  BY <1>3, <1>5, <1>6 DEF t

(* ... a new last one ...                                                  *)
LEMMA Appended ==
  ASSUME NEW T, NEW s \in Seq(T), NEW e \in T
  PROVE  /\ Append(s, e) \in Seq(T) /\ Len(Append(s, e)) = Len(s) + 1 /\ Append(s, e) # <<>>
         /\ ToSet(Append(s, e)) = ToSet(s) \union {e}
         /\ IsInjective(s) /\ e \notin ToSet(s) => IsInjective(Append(s, e))
<1> DEFINE t == Append(s, e)
<1>1. Len(s) \in Nat /\ \A i \in 1 .. Len(s) : s[i] \in T
  OBVIOUS
<1>2. /\ t \in Seq(T) /\ Len(t) = Len(s) + 1 /\ t # <<>>
      /\ \A i \in 1 .. Len(s) + 1 : t[i] = IF i = Len(s) + 1 THEN e ELSE s[i]
  BY <1>1, AppendProperties
<1> HIDE DEF t
<1>3. ToSet(t) = ToSet(s) \union {e}
  <2>1. ToSet(t) = {t[i] : i \in 1 .. Len(s) + 1} /\ ToSet(s) = {s[i] : i \in 1 .. Len(s)}
    BY <1>2, Elements
  <2>2. Len(s) + 1 \in 1 .. Len(s) + 1 /\ \A i \in 1 .. Len(s) : i \in 1 .. Len(s) + 1 /\ i # Len(s) + 1
    BY <1>1
  <2>3. \A i \in 1 .. Len(s) + 1 : i = Len(s) + 1 \/ i \in 1 .. Len(s)
    BY <1>1
  <2> QED
    BY <1>2, <2>1, <2>2, <2>3
<1>4. ASSUME IsInjective(s), e \notin ToSet(s)
      PROVE  IsInjective(t)
  <2>1. \A i, j \in 1 .. Len(s) : s[i] = s[j] => i = j
    BY <1>4, Elements
  <2>2. \A i \in 1 .. Len(s) : s[i] # e
    BY <1>4, Elements
  <2>3. \A i, j \in 1 .. Len(s) + 1 : t[i] = t[j] => i = j
    BY <1>1, <1>2, <2>1, <2>2
  <2> QED
    BY <1>2, <2>3, Elements
<1> QED
  BY <1>2, <1>3, <1>4 DEF t

-----------------------------------------------------------------------------
(* Buckets.                                                                *)

(* Every key has a bucket.                                                 *)
LEMMA BucketOf ==
  ASSUME NEW key \in Keys, NEW n \in Nat \ {0}
  PROVE  HASH_TO_BKT(key, n) \in 0 .. n - 1
<1>1. HashOf[key] \in Nat
  BY HashHelperAssumption
<1> QED
  BY <1>1 DEF HASH_TO_BKT

(* What is in a bucket after the buckets are doubled was in one before.    *)
LEMMA BucketBefore ==
  ASSUME NEW key \in Keys, NEW n \in Nat \ {0}
  PROVE  HASH_TO_BKT(key, 2 * n) % n = HASH_TO_BKT(key, n)
<1> DEFINE h == HashOf[key]
           q == h \div (2 * n)
           r == h % (2 * n)
<1>1. h \in Nat /\ 2 * n \in Nat \ {0}
  BY HashHelperAssumption
<1> HIDE DEF h
<1>2. q \in Int /\ r \in Int /\ 0 <= r /\ h = (2 * n) * q + r
  BY <1>1
<1>3. PICK c \in Int, d \in 0 .. n - 1 : r = n * c + d
  <2> HIDE DEF r
  <2>1. r = n * (r \div n) + (r % n) /\ r \div n \in Int /\ r % n \in 0 .. n - 1
    BY <1>2
  <2> QED
    BY <2>1
<1>4. h = n * (2 * q + c) + d
  <2> HIDE DEF q, r
  <2>1. (2 * n) * q = n * (2 * q)
    BY <1>2
  <2>2. n * (2 * q + c) = n * (2 * q) + n * c
    BY <1>2, <1>3
  <2> QED
    BY <1>2, <1>3, <2>1, <2>2
<1>5. \A x, y \in Int : \A z \in 0 .. n - 1 : x = n * y + z => x % n = z
  OBVIOUS
<1>6. r % n = d /\ h % n = d
  <2> HIDE DEF q, r
  <2> QED
    BY <1>1, <1>2, <1>3, <1>4, <1>5
<1> QED
  BY <1>6 DEF h, HASH_TO_BKT

(* Pushed, step by step.                                                   *)
PushStep(chain, b, n) ==
  [i \in 1 .. Len(chain) |-> [rest \in Seq(Keys) |->
     (IF HASH_TO_BKT(chain[i], n) = b THEN <<chain[i]>> ELSE <<>>) \o rest]]

LEMMA PushedStepwise ==
  ASSUME NEW chain \in Seq(Keys), NEW b, NEW n
  PROVE  \E f : /\ Solves(f, Len(chain), Seq(Keys), <<>>, PushStep(chain, b, n))
                /\ Pushed(chain, b, n) = f[Len(chain)]
<1> DEFINE First(i) == IF HASH_TO_BKT(chain[i], n) = b THEN <<chain[i]>> ELSE <<>>
           step == PushStep(chain, b, n)
           pushed == CHOOSE f : f = [i \in 0 .. Len(chain) |-> IF i = 0 THEN <<>> ELSE First(i) \o f[i - 1]]
<1>1. Len(chain) \in Nat /\ <<>> \in Seq(Keys)
  OBVIOUS
<1>2. ASSUME NEW i \in 1 .. Len(chain)
      PROVE  First(i) \in Seq(Keys)
  OBVIOUS
<1>3. step \in [1 .. Len(chain) -> [Seq(Keys) -> Seq(Keys)]]
  <2> SUFFICES ASSUME NEW i \in 1 .. Len(chain), NEW rest \in Seq(Keys)
               PROVE  First(i) \o rest \in Seq(Keys)
    BY DEF PushStep
  <2> HIDE DEF First
  <2> QED
    BY <1>2, ConcatProperties
<1> HIDE DEF step
<1>4. PICK f : Solves(f, Len(chain), Seq(Keys), <<>>, step)
  BY <1>1, <1>3, Recursion
<1>5. f \in [0 .. Len(chain) -> Seq(Keys)] /\ f[0] = <<>>
  BY <1>4 DEF Solves
<1>6. ASSUME NEW i \in 1 .. Len(chain), NEW rest \in Seq(Keys)
      PROVE  step[i][rest] = First(i) \o rest
  BY DEF PushStep, step
<1> HIDE DEF First
<1>7. ASSUME NEW i \in 1 .. Len(chain)
      PROVE  f[i] = First(i) \o f[i - 1]
  <2>1. f[i - 1] \in Seq(Keys)
    BY <1>1, <1>5
  <2> QED
    BY <1>4, <1>6, <2>1 DEF Solves
<1>8. f = [i \in 0 .. Len(chain) |-> IF i = 0 THEN <<>> ELSE First(i) \o f[i - 1]]
  <2>1. ASSUME NEW i \in 0 .. Len(chain)
        PROVE  f[i] = IF i = 0 THEN <<>> ELSE First(i) \o f[i - 1]
    BY <1>1, <1>5, <1>7
  <2> QED
    BY <1>5, <2>1
<1>9. pushed = [i \in 0 .. Len(chain) |-> IF i = 0 THEN <<>> ELSE First(i) \o pushed[i - 1]]
  BY <1>8, Zenon
<1> HIDE DEF pushed
<1>10. pushed[0] = <<>>
  BY <1>1, <1>9
<1>11. ASSUME NEW i \in 1 .. Len(chain), f[i - 1] = pushed[i - 1]
       PROVE  pushed[i] = step[i][pushed[i - 1]]
  <2>1. f[i - 1] \in Seq(Keys)
    BY <1>1, <1>5
  <2>2. i \in 0 .. Len(chain) /\ i # 0
    BY <1>1
  <2>3. pushed[i] = First(i) \o pushed[i - 1]
    BY <1>9, <2>2, Zenon
  <2> QED
    BY <1>6, <1>11, <2>1, <2>3
<1>12. pushed[Len(chain)] = f[Len(chain)]
  <2>1. Follows(pushed, f, Len(chain), <<>>, step)
    BY <1>10, <1>11 DEF Follows
  <2> QED
    BY <1>1, <1>4, <2>1, RecursionUnique
<1>13. Pushed(chain, b, n) = pushed[Len(chain)]
  BY DEF Pushed, pushed, First
<1> QED
  BY <1>1, <1>4, <1>12, <1>13 DEF step

(* The elements of the chain that go to that bucket, each once.            *)
LEMMA PushedChain ==
  ASSUME NEW chain \in Seq(Keys), IsInjective(chain), NEW b, NEW n
  PROVE  /\ Pushed(chain, b, n) \in Seq(Keys)
         /\ IsInjective(Pushed(chain, b, n))
         /\ ToSet(Pushed(chain, b, n)) = {k \in ToSet(chain) : HASH_TO_BKT(k, n) = b}
<1> DEFINE len == Len(chain)
           Upto(i) == {k \in {chain[j] : j \in 1 .. i} : HASH_TO_BKT(k, n) = b}
<1>1. len \in Nat /\ \A i \in 1 .. len : chain[i] \in Keys
  OBVIOUS
<1>2. PICK f : Solves(f, len, Seq(Keys), <<>>, PushStep(chain, b, n)) /\ Pushed(chain, b, n) = f[len]
  BY PushedStepwise
<1>3. f \in [0 .. len -> Seq(Keys)] /\ f[0] = <<>>
  BY <1>2 DEF Solves
<1>4. ASSUME NEW i \in 1 .. len
      PROVE  f[i] = (IF HASH_TO_BKT(chain[i], n) = b THEN <<chain[i]>> ELSE <<>>) \o f[i - 1]
  <2>1. f[i - 1] \in Seq(Keys)
    BY <1>1, <1>3
  <2> QED
    BY <1>2, <2>1 DEF Solves, PushStep
<1> DEFINE S == {i \in Nat : i <= len => IsInjective(f[i]) /\ ToSet(f[i]) = Upto(i)}
<1>5. 0 \in S
  <2>1. <<>> \in Seq(Keys) /\ Len(<<>>) = 0
    OBVIOUS
  <2>2. IsInjective(<<>>) /\ ToSet(<<>>) = {}
    <3>1. 1 .. Len(<<>>) = {}
      BY <2>1
    <3>2. ToSet(<<>>) = {}
      BY <2>1, Elements, Zenon
    <3>3. \A i, j \in 1 .. Len(<<>>) : <<>>[i] = <<>>[j] => i = j
      BY <3>1
    <3> QED
      BY <2>1, <3>2, <3>3, Elements, Zenon
  <2>3. Upto(0) = {}
    OBVIOUS
  <2> QED
    BY <1>3, <2>2, <2>3
<1>6. ASSUME NEW i \in Nat, i \in S
      PROVE  i + 1 \in S
  <2> SUFFICES ASSUME i + 1 <= len
               PROVE  IsInjective(f[i + 1]) /\ ToSet(f[i + 1]) = Upto(i + 1)
    OBVIOUS
  <2> DEFINE e == chain[i + 1]
             rest == f[i]
  <2>1. i \in 0 .. len /\ i + 1 \in 1 .. len /\ (i + 1) - 1 = i
    BY <1>1
  <2>2. e \in Keys /\ rest \in Seq(Keys) /\ IsInjective(rest) /\ ToSet(rest) = Upto(i)
    BY <1>1, <1>3, <1>6, <2>1
  <2>3. f[i + 1] = (IF HASH_TO_BKT(e, n) = b THEN <<e>> ELSE <<>>) \o rest
    BY <1>4, <2>1
  <2>4. e \notin Upto(i)
    <3>1. ASSUME NEW j \in 1 .. i, chain[j] = e
          PROVE  FALSE
      <4>1. j \in 1 .. len /\ j # i + 1
        BY <1>1, <2>1
      <4> QED
        BY <2>1, <3>1, <4>1, Elements
    <3> QED
      BY <3>1
  <2>5. {chain[j] : j \in 1 .. i + 1} = {chain[j] : j \in 1 .. i} \union {e}
    <3>1. \A j \in 1 .. i + 1 : j \in 1 .. i \/ j = i + 1
      OBVIOUS
    <3>2. i + 1 \in 1 .. i + 1 /\ \A j \in 1 .. i : j \in 1 .. i + 1
      OBVIOUS
    <3> QED
      BY <3>1, <3>2
  <2>6. CASE HASH_TO_BKT(e, n) = b
    <3>1. f[i + 1] = <<e>> \o rest
      BY <2>3, <2>6
    <3>2. Upto(i + 1) = Upto(i) \union {e}
      BY <2>5, <2>6
    <3> HIDE DEF e, rest, Upto
    <3>3. e \notin ToSet(rest)
      BY <2>2, <2>4
    <3>4. IsInjective(<<e>> \o rest) /\ ToSet(<<e>> \o rest) = ToSet(rest) \union {e}
      BY <2>2, <3>3, Prepended
    <3> QED
      BY <2>2, <3>1, <3>2, <3>4
  <2>7. CASE HASH_TO_BKT(e, n) # b
    <3>1. f[i + 1] = rest
      <4>1. f[i + 1] = <<>> \o rest
        BY <2>3, <2>7
      <4> HIDE DEF rest
      <4> QED
        BY <2>2, <4>1, ConcatEmptySeq
    <3>2. Upto(i + 1) = Upto(i)
      BY <2>5, <2>7
    <3> HIDE DEF e, rest, Upto
    <3> QED
      BY <2>2, <3>1, <3>2
  <2> QED
    BY <2>6, <2>7, Zenon
<1>7. Nat \subseteq S
  <2> HIDE DEF S
  <2> QED
    BY <1>5, <1>6, NaturalsInSet
<1>8. IsInjective(f[len]) /\ ToSet(f[len]) = Upto(len)
  BY <1>1, <1>7
<1>9. Upto(len) = {k \in ToSet(chain) : HASH_TO_BKT(k, n) = b}
  BY Elements
<1>10. f[len] \in Seq(Keys)
  BY <1>1, <1>3
<1> HIDE DEF Upto
<1> QED
  BY <1>2, <1>8, <1>9, <1>10

(* The multiple is large enough for what the bucket was given.             *)
MultipleStep(count, ideal_chain_maxlen) ==
  [c \in 1 .. count |-> [mult \in Nat |->
     IF c > ideal_chain_maxlen /\ c > mult * ideal_chain_maxlen THEN mult + 1 ELSE mult]]

LEMMA MultipleStepwise ==
  ASSUME NEW count \in Nat, NEW ideal \in Nat
  PROVE  \E f : /\ Solves(f, count, Nat, 0, MultipleStep(count, ideal))
                /\ Multiple(count, ideal) = f[count]
<1> DEFINE Raised(c, mult) == IF c > ideal /\ c > mult * ideal THEN mult + 1 ELSE mult
           step == MultipleStep(count, ideal)
           expand_mult == CHOOSE f : f = [c \in 0 .. count |-> IF c = 0 THEN 0 ELSE Raised(c, f[c - 1])]
<1>1. ASSUME NEW c, NEW mult \in Nat
      PROVE  Raised(c, mult) \in Nat
  OBVIOUS
<1>2. step \in [1 .. count -> [Nat -> Nat]]
  <2> SUFFICES ASSUME NEW c \in 1 .. count, NEW mult \in Nat
               PROVE  Raised(c, mult) \in Nat
    BY DEF MultipleStep
  <2> HIDE DEF Raised
  <2> QED
    BY <1>1
<1> HIDE DEF step
<1>3. PICK f : Solves(f, count, Nat, 0, step)
  BY <1>2, Recursion
<1>4. f \in [0 .. count -> Nat] /\ f[0] = 0
  BY <1>3 DEF Solves
<1>5. ASSUME NEW c \in 1 .. count, NEW mult \in Nat
      PROVE  step[c][mult] = Raised(c, mult)
  BY DEF MultipleStep, step
<1> HIDE DEF Raised
<1>6. ASSUME NEW c \in 1 .. count
      PROVE  f[c] = Raised(c, f[c - 1])
  <2>1. f[c - 1] \in Nat
    BY <1>4
  <2> QED
    BY <1>3, <1>5, <2>1 DEF Solves
<1>7. f = [c \in 0 .. count |-> IF c = 0 THEN 0 ELSE Raised(c, f[c - 1])]
  <2>1. ASSUME NEW c \in 0 .. count
        PROVE  f[c] = IF c = 0 THEN 0 ELSE Raised(c, f[c - 1])
    BY <1>4, <1>6
  <2> QED
    BY <1>4, <2>1
<1>8. expand_mult = [c \in 0 .. count |-> IF c = 0 THEN 0 ELSE Raised(c, expand_mult[c - 1])]
  BY <1>7, Zenon
<1> HIDE DEF expand_mult
<1>9. expand_mult[0] = 0
  <2>1. 0 \in 0 .. count
    OBVIOUS
  <2> QED
    BY <1>8, <2>1, Zenon
<1>10. ASSUME NEW c \in 1 .. count, f[c - 1] = expand_mult[c - 1]
       PROVE  expand_mult[c] = step[c][expand_mult[c - 1]]
  <2>1. f[c - 1] \in Nat
    BY <1>4
  <2>2. c \in 0 .. count /\ c # 0
    OBVIOUS
  <2>3. expand_mult[c] = Raised(c, expand_mult[c - 1])
    BY <1>8, <2>2, Zenon
  <2> QED
    BY <1>5, <1>10, <2>1, <2>3
<1>11. expand_mult[count] = f[count]
  <2>1. Follows(expand_mult, f, count, 0, step)
    BY <1>9, <1>10 DEF Follows
  <2> QED
    BY <1>3, <2>1, RecursionUnique
<1>12. Multiple(count, ideal) = expand_mult[count]
  BY DEF Multiple, expand_mult, Raised
<1> QED
  BY <1>3, <1>11, <1>12 DEF step

LEMMA MultipleSuffices ==
  ASSUME NEW count \in Nat, NEW ideal \in Nat \ {0}
  PROVE  Multiple(count, ideal) \in Nat /\ count <= (Multiple(count, ideal) + 1) * ideal
<1>1. PICK f : Solves(f, count, Nat, 0, MultipleStep(count, ideal)) /\ Multiple(count, ideal) = f[count]
  BY MultipleStepwise
<1>2. f \in [0 .. count -> Nat] /\ f[0] = 0
  BY <1>1 DEF Solves
<1> DEFINE S == {c \in Nat : c <= count => c <= (f[c] + 1) * ideal}
<1>3. 0 \in S
  BY <1>2
<1>4. ASSUME NEW c \in Nat, c \in S
      PROVE  c + 1 \in S
  <2> SUFFICES ASSUME c + 1 <= count
               PROVE  c + 1 <= (f[c + 1] + 1) * ideal
    OBVIOUS
  <2>1. c \in 0 .. count /\ c + 1 \in 1 .. count /\ (c + 1) - 1 = c
    OBVIOUS
  <2>2. f[c] \in Nat /\ c <= (f[c] + 1) * ideal
    BY <1>2, <1>4, <2>1
  <2>3. f[c + 1] = IF c + 1 > ideal /\ c + 1 > f[c] * ideal THEN f[c] + 1 ELSE f[c]
    BY <1>1, <2>1, <2>2 DEF Solves, MultipleStep
  <2> DEFINE m == f[c]
             d == m * ideal
  <2>4. d \in Nat /\ (m + 1) * ideal = d + ideal /\ ((m + 1) + 1) * ideal = d + ideal + ideal
    BY <2>2
  <2>5. CASE c + 1 > ideal /\ c + 1 > d
    <3>1. f[c + 1] = m + 1
      BY <2>3, <2>5
    <3> HIDE DEF m, d
    <3> QED
      BY <2>2, <2>4, <3>1 DEF m
  <2>6. CASE ~ (c + 1 > ideal /\ c + 1 > d)
    <3>1. f[c + 1] = m
      BY <2>3, <2>6
    <3> HIDE DEF m, d
    <3> QED
      BY <2>2, <2>4, <2>6, <3>1 DEF m
  <2> QED
    BY <2>5, <2>6
<1>5. Nat \subseteq S
  <2> HIDE DEF S
  <2> QED
    BY <1>3, <1>4, NaturalsInSet
<1> QED
  BY <1>1, <1>2, <1>5

(* Taking an element from a list it is once in.                            *)
LEMMA Removed ==
  ASSUME NEW T, NEW s \in Seq(T), IsInjective(s), NEW e \in ToSet(s)
  PROVE  /\ RemoveFirst(s, e) \in Seq(T) /\ Len(RemoveFirst(s, e)) = Len(s) - 1
         /\ IsInjective(RemoveFirst(s, e))
         /\ ToSet(RemoveFirst(s, e)) = ToSet(s) \ {e}
<1>1. /\ Len(s) \in Nat
      /\ \A i \in 1 .. Len(s) : s[i] \in T
      /\ \A i, j \in 1 .. Len(s) : s[i] = s[j] => i = j
  BY Elements
<1>2. PICK p \in 1 .. Len(s) : s[p] = e
  BY Elements
<1> DEFINE at == {i \in 1 .. Len(s) : s[i] = e}
           front == SubSeq(s, 1, p - 1)
           back == SubSeq(s, p + 1, Len(s))
           t == front \o back
<1>3. at = {p}
  BY <1>1, <1>2
<1>4. Min(at) = p
  <2>1. Min({p}) = p
    BY DEF Min
  <2> QED
    BY <1>3, <2>1
<1>5. RemoveFirst(s, e) = t
  <2>1. SelectInSeq(s, LAMBDA v : v = e) = Min(at)
    BY <1>3 DEF SelectInSeq
  <2>2. RemoveFirst(s, e) = RemoveAt(s, SelectInSeq(s, LAMBDA v : v = e))
    BY <1>2 DEF RemoveFirst
  <2> HIDE DEF at
  <2> QED
    BY <1>4, <2>1, <2>2 DEF RemoveAt
<1>6. /\ front \in Seq(T) /\ Len(front) = p - 1
      /\ \A i \in 1 .. p - 1 : front[i] = s[i]
  <2>1. \A i \in 1 .. p - 1 : s[i] \in T
    BY <1>1, <1>2
  <2> QED
    BY <1>1, <1>2, <2>1, SubSeqProperties
<1>7. /\ back \in Seq(T) /\ Len(back) = Len(s) - p
      /\ \A i \in 1 .. Len(s) - p : back[i] = s[i + p]
  <2>1. \A i \in p + 1 .. Len(s) : s[i] \in T
    BY <1>1, <1>2
  <2> QED
    BY <1>1, <1>2, <2>1, SubSeqProperties
<1> HIDE DEF front, back, t
<1>8. t \in Seq(T) /\ Len(t) = Len(s) - 1
  <2>1. t \in Seq(T) /\ Len(t) = Len(front) + Len(back)
    BY <1>6, <1>7, ConcatProperties DEF t
  <2>2. (p - 1) + (Len(s) - p) = Len(s) - 1
    BY <1>1, <1>2
  <2> QED
    BY <1>6, <1>7, <2>1, <2>2
<1>9. \A i \in 1 .. Len(s) - 1 : t[i] = IF i < p THEN s[i] ELSE s[i + 1]
  <2> SUFFICES ASSUME NEW i \in 1 .. Len(s) - 1
               PROVE  t[i] = IF i < p THEN s[i] ELSE s[i + 1]
    OBVIOUS
  <2>1. t[i] = IF i <= Len(front) THEN front[i] ELSE back[i - Len(front)]
    <3>1. i \in 1 .. Len(front) + Len(back)
      BY <1>1, <1>2, <1>6, <1>7
    <3> QED
      BY <1>6, <1>7, <3>1, ConcatProperties DEF t
  <2>2. CASE i < p
    <3>1. i \in 1 .. p - 1
      BY <1>2, <2>2
    <3> QED
      BY <1>6, <2>1, <2>2, <3>1
  <2>3. CASE ~ i < p
    <3>1. i - (p - 1) \in 1 .. Len(s) - p /\ (i - (p - 1)) + p = i + 1 /\ ~ i <= p - 1
      BY <1>1, <1>2, <2>3
    <3> QED
      BY <1>6, <1>7, <2>1, <2>3, <3>1
  <2> QED
    BY <2>2, <2>3
<1>10. IsInjective(t)
  <2>1. ASSUME NEW i \in 1 .. Len(s) - 1, NEW j \in 1 .. Len(s) - 1, t[i] = t[j]
        PROVE  i = j
    <3> DEFINE Was(k) == IF k < p THEN k ELSE k + 1
    <3>1. Was(i) \in 1 .. Len(s) /\ Was(j) \in 1 .. Len(s)
      BY <1>1, <1>2
    <3>2. s[Was(i)] = s[Was(j)]
      BY <1>9, <2>1
    <3>3. Was(i) = Was(j)
      <4> HIDE DEF Was
      <4> QED
        BY <1>1, <3>1, <3>2
    <3> QED
      BY <1>2, <3>3
  <2> QED
    BY <1>8, <2>1, Elements
<1>11. ToSet(t) = ToSet(s) \ {e}
  <2>1. ASSUME NEW x \in ToSet(t)
        PROVE  x \in ToSet(s) \ {e}
    <3>1. PICK i \in 1 .. Len(s) - 1 : x = t[i]
      BY <1>8, Elements
    <3> DEFINE k == IF i < p THEN i ELSE i + 1
    <3>2. k \in 1 .. Len(s) /\ k # p /\ x = s[k]
      BY <1>1, <1>2, <1>9, <3>1
    <3> HIDE DEF k
    <3> QED
      BY <1>1, <1>2, <3>2, Elements
  <2>2. ASSUME NEW x \in ToSet(s) \ {e}
        PROVE  x \in ToSet(t)
    <3>1. PICK k \in 1 .. Len(s) : x = s[k]
      BY Elements
    <3>2. k # p
      BY <1>2, <3>1
    <3> DEFINE i == IF k < p THEN k ELSE k - 1
    <3>3. i \in 1 .. Len(s) - 1 /\ x = t[i]
      BY <1>1, <1>2, <1>9, <3>1, <3>2
    <3> HIDE DEF i
    <3> QED
      BY <1>8, <3>3, Elements
  <2> QED
    BY <2>1, <2>2
<1> QED
  BY <1>5, <1>8, <1>10, <1>11

-----------------------------------------------------------------------------
(* Tables.                                                                 *)

Bucket == [chain : Seq(Keys), count : Nat, expand_mult : Nat]

IsTable(t) ==
  /\ t.num_buckets \in Nat \ {0}
  /\ t \in [buckets : [0 .. t.num_buckets - 1 -> Bucket], num_buckets : Nat, num_items : Nat,
            ideal_chain_maxlen : Nat, ineff_expands : Nat, noexpand : BOOLEAN]

(* Each of the elements is in the chain it is looked for in, once, and     *)
(* nothing else is.                                                        *)
Holds(bucket, b, elements, n) ==
  /\ IsInjective(bucket.chain)
  /\ bucket.count = Len(bucket.chain)
  /\ ToSet(bucket.chain) = {k \in elements : HASH_TO_BKT(k, n) = b}

Links(t, elements) == \A b \in 0 .. t.num_buckets - 1 : Holds(t.buckets[b], b, elements, t.num_buckets)

Short(bucket, ideal_chain_maxlen) ==
  \/ bucket.count < (bucket.expand_mult + 1) * Thresh
  \/ bucket.count <= (bucket.expand_mult + 1) * ideal_chain_maxlen

Bounded(t) ==
  ~ t.noexpand => \A b \in 0 .. t.num_buckets - 1 : Short(t.buckets[b], t.ideal_chain_maxlen)

(* HASH_FIND finds what is linked, wherever its hash puts it.              *)
LEMMA Found ==
  ASSUME IsTable(tbl), Links(tbl, ToSet(order)), order \in Seq(Keys), NEW key \in Keys
  PROVE  order # <<>> => (HASH_FIND(key) <=> key \in ToSet(order))
<1> DEFINE b == HASH_TO_BKT(key, tbl.num_buckets)
<1>1. b \in 0 .. tbl.num_buckets - 1
  BY BucketOf DEF IsTable
<1>2. ToSet(tbl.buckets[b].chain) = {k \in ToSet(order) : HASH_TO_BKT(k, tbl.num_buckets) = b}
  <2> HIDE DEF b
  <2> QED
    BY <1>1 DEF Links, Holds
<1>3. key \in ToSet(tbl.buckets[b].chain) <=> key \in ToSet(order)
  BY <1>2, Zenon
<1> HIDE DEF b
<1> QED
  BY <1>3 DEF HASH_FIND, b

LEMMA Made ==
  IsTable(HASH_MAKE_TABLE) /\ Links(HASH_MAKE_TABLE, {}) /\ HASH_MAKE_TABLE.num_items = 0 /\ Bounded(HASH_MAKE_TABLE)
<1> DEFINE t == HASH_MAKE_TABLE
           empty == [chain |-> <<>>, count |-> 0, expand_mult |-> 0]
<1>1. InitialBuckets \in Nat \ {0} /\ Thresh \in Nat \ {0}
  BY HashHelperAssumption
<1>2. <<>> \in Seq(Keys) /\ Len(<<>>) = 0
  OBVIOUS
<1>3. ToSet(<<>>) = {} /\ IsInjective(<<>>)
  <2>1. \A i, j \in 1 .. Len(<<>>) : <<>>[i] = <<>>[j] => i = j
    BY <1>2
  <2>2. ToSet(<<>>) = {}
    BY <1>2, Elements, Zenon
  <2> QED
    BY <1>2, <2>1, <2>2, Elements, Zenon
<1>4. empty \in Bucket
  BY <1>2 DEF Bucket
<1>5. /\ t.num_buckets = InitialBuckets /\ t.num_items = 0 /\ t.ideal_chain_maxlen = 0
      /\ t.ineff_expands = 0 /\ t.noexpand = FALSE /\ t.buckets = EmptyBuckets(InitialBuckets)
  BY DEF HASH_MAKE_TABLE
<1>6. \A b \in 0 .. InitialBuckets - 1 : t.buckets[b] = empty
  BY <1>5 DEF EmptyBuckets
<1>7. t.buckets \in [0 .. InitialBuckets - 1 -> Bucket]
  <2> HIDE DEF empty
  <2> QED
    BY <1>4, <1>5 DEF EmptyBuckets, empty
<1>8. IsTable(t)
  BY <1>1, <1>5, <1>7 DEF IsTable, HASH_MAKE_TABLE
<1>9. Links(t, {})
  BY <1>2, <1>3, <1>5, <1>6 DEF Links, Holds
<1>10. Bounded(t)
  <2>1. (0 + 1) * Thresh = Thresh
    BY <1>1
  <2>2. Short(empty, 0)
    BY <1>1, <2>1 DEF Short
  <2> HIDE DEF empty
  <2> QED
    BY <1>5, <1>6, <2>2 DEF Bounded
<1> QED
  BY <1>5, <1>8, <1>9, <1>10

(* One chain and num_items change.                                         *)
Rechained(t, b, chain, count, num_items) ==
  [t EXCEPT !.num_items = num_items, !.buckets[b].chain = chain, !.buckets[b].count = count]

LEMMA Changed ==
  ASSUME NEW t, NEW b, NEW chain, NEW count, NEW num_items
  PROVE  LET u == Rechained(t, b, chain, count, num_items)
         IN IsTable(t) /\ b \in 0 .. t.num_buckets - 1 /\ chain \in Seq(Keys) /\ count \in Nat /\ num_items \in Nat
            => /\ IsTable(u) /\ u.num_buckets = t.num_buckets /\ u.num_items = num_items
               /\ u.ideal_chain_maxlen = t.ideal_chain_maxlen /\ u.noexpand = t.noexpand
               /\ u.buckets[b].chain = chain /\ u.buckets[b].count = count
               /\ u.buckets[b].expand_mult = t.buckets[b].expand_mult
               /\ \A c \in 0 .. t.num_buckets - 1 : c # b => u.buckets[c] = t.buckets[c]
<1> DEFINE u == Rechained(t, b, chain, count, num_items)
           bucket == [t.buckets[b] EXCEPT !.chain = chain, !.count = count]
<1> SUFFICES ASSUME IsTable(t), b \in 0 .. t.num_buckets - 1, chain \in Seq(Keys), count \in Nat, num_items \in Nat
             PROVE  /\ IsTable(u) /\ u.num_buckets = t.num_buckets /\ u.num_items = num_items
                    /\ u.ideal_chain_maxlen = t.ideal_chain_maxlen /\ u.noexpand = t.noexpand
                    /\ u.buckets[b].chain = chain /\ u.buckets[b].count = count
                    /\ u.buckets[b].expand_mult = t.buckets[b].expand_mult
                    /\ \A c \in 0 .. t.num_buckets - 1 : c # b => u.buckets[c] = t.buckets[c]
  OBVIOUS
<1>1. t.buckets \in [0 .. t.num_buckets - 1 -> Bucket] /\ t.buckets[b] \in Bucket
  BY DEF IsTable
<1>2. /\ bucket \in Bucket /\ bucket.chain = chain /\ bucket.count = count
      /\ bucket.expand_mult = t.buckets[b].expand_mult
  <2> DEFINE old == t.buckets[b]
  <2>1. old \in [chain : Seq(Keys), count : Nat, expand_mult : Nat]
    BY <1>1 DEF Bucket
  <2> HIDE DEF old
  <2> QED
    BY <2>1 DEF Bucket, old
<1>3. u = [t EXCEPT !.num_items = num_items, !.buckets = [t.buckets EXCEPT ![b] = bucket]]
  BY <1>1, <1>2 DEF IsTable, Rechained
<1> HIDE DEF bucket, u
<1>4. [t.buckets EXCEPT ![b] = bucket] \in [0 .. t.num_buckets - 1 -> Bucket]
  BY <1>1, <1>2
<1>5. /\ u.num_buckets = t.num_buckets /\ u.num_items = num_items
      /\ u.ideal_chain_maxlen = t.ideal_chain_maxlen /\ u.noexpand = t.noexpand /\ u.ineff_expands = t.ineff_expands
      /\ u.buckets = [t.buckets EXCEPT ![b] = bucket]
  BY <1>3 DEF IsTable
<1>6. IsTable(u)
  BY <1>3, <1>4, <1>5 DEF IsTable
<1> QED
  BY <1>1, <1>2, <1>5, <1>6

(* A new element in its chain.                                             *)
LEMMA ChainedTable ==
  ASSUME NEW t, IsTable(t), NEW elements, elements \subseteq Keys, Links(t, elements), NEW key \in Keys \ elements
  PROVE  LET u == Chained(t, key)
             b == HASH_TO_BKT(key, t.num_buckets)
         IN /\ IsTable(u) /\ Links(u, elements \union {key})
            /\ u.num_buckets = t.num_buckets /\ u.num_items = t.num_items + 1
            /\ u.ideal_chain_maxlen = t.ideal_chain_maxlen /\ u.noexpand = t.noexpand
            /\ \A c \in 0 .. t.num_buckets - 1 : c # b => u.buckets[c] = t.buckets[c]
<1> DEFINE u == Chained(t, key)
           n == t.num_buckets
           b == HASH_TO_BKT(key, n)
           old == t.buckets[b]
           chain == <<key>> \o old.chain
<1>1. n \in Nat \ {0} /\ b \in 0 .. n - 1
  BY BucketOf DEF IsTable
<1>2. old.chain \in Seq(Keys) /\ old.count \in Nat /\ t.num_items \in Nat
  <2>1. t.buckets \in [0 .. n - 1 -> Bucket] /\ t.num_items \in Nat
    BY DEF IsTable
  <2> HIDE DEF b, n
  <2> QED
    BY <1>1, <2>1 DEF Bucket
<1>3. Holds(old, b, elements, n)
  <2> HIDE DEF b
  <2> QED
    BY <1>1 DEF Links
<1>4. u = Rechained(t, b, chain, old.count + 1, t.num_items + 1)
  BY DEF Chained, Rechained
<1>5. key \notin ToSet(old.chain)
  BY <1>3 DEF Holds
<1>6. /\ chain \in Seq(Keys) /\ Len(chain) = Len(old.chain) + 1
      /\ ToSet(chain) = ToSet(old.chain) \union {key} /\ IsInjective(chain)
  <2> HIDE DEF old
  <2> QED
    BY <1>2, <1>3, <1>5, Prepended DEF Holds
<1>7. old.count + 1 \in Nat /\ t.num_items + 1 \in Nat
  <2> HIDE DEF old
  <2> QED
    BY <1>2
<1>8. /\ IsTable(u) /\ u.num_buckets = n /\ u.num_items = t.num_items + 1
      /\ u.ideal_chain_maxlen = t.ideal_chain_maxlen /\ u.noexpand = t.noexpand
      /\ u.buckets[b].chain = chain /\ u.buckets[b].count = old.count + 1
      /\ \A c \in 0 .. n - 1 : c # b => u.buckets[c] = t.buckets[c]
  <2> HIDE DEF u, b, chain, old
  <2> QED
    BY <1>1, <1>4, <1>6, <1>7, Changed
<1> HIDE DEF u, chain
<1>9. ASSUME NEW c \in 0 .. n - 1
      PROVE  Holds(u.buckets[c], c, elements \union {key}, n)
  <2>1. CASE c = b
    <3>1. ToSet(chain) = {k \in elements \union {key} : HASH_TO_BKT(k, n) = b}
      <4>1. ToSet(old.chain) = {k \in elements : HASH_TO_BKT(k, n) = b}
        BY <1>3 DEF Holds
      <4>2. HASH_TO_BKT(key, n) = b
        OBVIOUS
      <4> HIDE DEF b, old
      <4> QED
        BY <1>6, <4>1, <4>2
    <3>2. u.buckets[b].count = Len(chain)
      <4> HIDE DEF old, b
      <4> QED
        BY <1>3, <1>6, <1>8 DEF Holds
    <3> HIDE DEF old, b
    <3> QED
      BY <1>6, <1>8, <2>1, <3>1, <3>2 DEF Holds
  <2>2. CASE c # b
    <3>1. u.buckets[c] = t.buckets[c] /\ Holds(t.buckets[c], c, elements, n)
      <4> HIDE DEF b
      <4> QED
        BY <1>8, <2>2 DEF Links
    <3>2. {k \in elements \union {key} : HASH_TO_BKT(k, n) = c} = {k \in elements : HASH_TO_BKT(k, n) = c}
      BY <2>2
    <3> QED
      BY <3>1, <3>2 DEF Holds
  <2> QED
    BY <2>1, <2>2
<1>10. Links(u, elements \union {key})
  BY <1>8, <1>9 DEF Links
<1> QED
  BY <1>8, <1>10 DEF u

(* An element out of its chain, which makes no bucket fuller.              *)
LEMMA UnchainedTable ==
  ASSUME NEW t, IsTable(t), NEW elements, elements \subseteq Keys, Links(t, elements), NEW key \in elements,
         t.num_items # 0, Bounded(t)
  PROVE  LET u == Unchained(t, key)
         IN IsTable(u) /\ Links(u, elements \ {key}) /\ u.num_items = t.num_items - 1 /\ Bounded(u)
<1> DEFINE u == Unchained(t, key)
           n == t.num_buckets
           b == HASH_TO_BKT(key, n)
           old == t.buckets[b]
           chain == RemoveFirst(old.chain, key)
<1>1. n \in Nat \ {0} /\ b \in 0 .. n - 1
  BY BucketOf DEF IsTable
<1>2. old.chain \in Seq(Keys) /\ old.count \in Nat /\ old.expand_mult \in Nat /\ t.num_items \in Nat
  <2>1. t.buckets \in [0 .. n - 1 -> Bucket] /\ t.num_items \in Nat
    BY DEF IsTable
  <2> HIDE DEF b, n
  <2> QED
    BY <1>1, <2>1 DEF Bucket
<1>3. Holds(old, b, elements, n)
  <2> HIDE DEF b
  <2> QED
    BY <1>1 DEF Links
<1>4. u = Rechained(t, b, chain, old.count - 1, t.num_items - 1)
  BY DEF Unchained, Rechained
<1>5. key \in ToSet(old.chain)
  BY <1>3 DEF Holds
<1>6. /\ chain \in Seq(Keys) /\ Len(chain) = Len(old.chain) - 1
      /\ ToSet(chain) = ToSet(old.chain) \ {key} /\ IsInjective(chain)
  <2> HIDE DEF old
  <2> QED
    BY <1>2, <1>3, <1>5, Removed DEF Holds
<1>7. old.count - 1 \in Nat /\ t.num_items - 1 \in Nat /\ old.count = Len(old.chain)
  <2>1. old.count = Len(old.chain)
    BY <1>3 DEF Holds
  <2>2. Len(chain) \in Nat /\ Len(old.chain) \in Nat
    <3> HIDE DEF chain, old
    <3> QED
      BY <1>2, <1>6
  <2> HIDE DEF chain, old
  <2> QED
    BY <1>2, <1>6, <2>1, <2>2
<1>8. /\ IsTable(u) /\ u.num_buckets = n /\ u.num_items = t.num_items - 1
      /\ u.ideal_chain_maxlen = t.ideal_chain_maxlen /\ u.noexpand = t.noexpand
      /\ u.buckets[b].chain = chain /\ u.buckets[b].count = old.count - 1
      /\ u.buckets[b].expand_mult = old.expand_mult
      /\ \A c \in 0 .. n - 1 : c # b => u.buckets[c] = t.buckets[c]
  <2> HIDE DEF u, b, chain
  <2>1. old.count - 1 \in Nat /\ t.num_items - 1 \in Nat
    BY <1>7
  <2> QED
    BY <1>1, <1>4, <1>6, <2>1, Changed
<1> HIDE DEF u, chain
<1>9. ASSUME NEW c \in 0 .. n - 1
      PROVE  Holds(u.buckets[c], c, elements \ {key}, n)
  <2>1. CASE c = b
    <3>1. ToSet(chain) = {k \in elements \ {key} : HASH_TO_BKT(k, n) = b}
      <4>1. ToSet(old.chain) = {k \in elements : HASH_TO_BKT(k, n) = b}
        BY <1>3 DEF Holds
      <4> HIDE DEF b, old
      <4> QED
        BY <1>6, <4>1
    <3>2. u.buckets[b].count = Len(chain)
      <4> HIDE DEF old, b
      <4> QED
        BY <1>6, <1>7, <1>8
    <3> HIDE DEF old, b
    <3> QED
      BY <1>6, <1>8, <2>1, <3>1, <3>2 DEF Holds
  <2>2. CASE c # b
    <3>1. u.buckets[c] = t.buckets[c] /\ Holds(t.buckets[c], c, elements, n)
      <4> HIDE DEF b
      <4> QED
        BY <1>8, <2>2 DEF Links
    <3>2. {k \in elements \ {key} : HASH_TO_BKT(k, n) = c} = {k \in elements : HASH_TO_BKT(k, n) = c}
      BY <2>2
    <3> QED
      BY <3>1, <3>2 DEF Holds
  <2> QED
    BY <2>1, <2>2
<1>10. Links(u, elements \ {key})
  BY <1>8, <1>9 DEF Links
<1>11. Bounded(u)
  <2> SUFFICES ASSUME ~ t.noexpand, NEW c \in 0 .. n - 1
               PROVE  Short(u.buckets[c], t.ideal_chain_maxlen)
    BY <1>8 DEF Bounded
  <2>1. Short(t.buckets[c], t.ideal_chain_maxlen)
    BY DEF Bounded
  <2>2. CASE c = b
    <3> DEFINE limit1 == (old.expand_mult + 1) * Thresh
               limit2 == (old.expand_mult + 1) * t.ideal_chain_maxlen
    <3>1. t.ideal_chain_maxlen \in Nat /\ Thresh \in Nat
      BY HashHelperAssumption DEF IsTable
    <3>2. limit1 \in Nat /\ limit2 \in Nat
      <4> HIDE DEF old
      <4> QED
        BY <1>2, <3>1
    <3>3. old.count < limit1 \/ old.count <= limit2
      BY <2>1, <2>2 DEF Short
    <3>4. old.count - 1 < limit1 \/ old.count - 1 <= limit2
      <4> HIDE DEF limit1, limit2, old
      <4> QED
        BY <1>2, <3>2, <3>3
    <3> HIDE DEF b, old
    <3> QED
      BY <1>8, <2>2, <3>4 DEF Short
  <2>3. CASE c # b
    <3> HIDE DEF b
    <3> QED
      BY <1>8, <2>1, <2>3
  <2> QED
    BY <2>2, <2>3
<1> QED
  BY <1>8, <1>10, <1>11 DEF u

(* The ideal length of a chain of a table that is not empty.               *)
LEMMA Ideal ==
  ASSUME NEW num_items \in Nat \ {0}, NEW n \in Nat \ {0}
  PROVE  num_items \div n + (IF num_items % n # 0 THEN 1 ELSE 0) \in Nat \ {0}
<1> DEFINE q == num_items \div n
           r == num_items % n
<1>1. q \in Int /\ r \in 0 .. n - 1 /\ num_items = n * q + r
  OBVIOUS
<1> HIDE DEF q, r
<1>2. q >= 0
  <2> SUFFICES ASSUME q <= -1
               PROVE  FALSE
    BY <1>1
  <2>1. n * q <= n * (-1)
    BY <1>1
  <2> QED
    BY <1>1, <2>1
<1>3. r = 0 => q # 0
  BY <1>1
<1>4. q + (IF r # 0 THEN 1 ELSE 0) \in Nat \ {0}
  BY <1>1, <1>2, <1>3
<1> QED
  BY <1>4 DEF q, r

(* Doubling the buckets loses no element, and leaves each chain within the *)
(* multiple of the ideal that its bucket has been given.                   *)
LEMMA Expanded ==
  ASSUME NEW t, IsTable(t), NEW elements, elements \subseteq Keys, Links(t, elements), t.num_items # 0
  PROVE  LET u == HASH_EXPAND_BUCKETS(t)
         IN IsTable(u) /\ Links(u, elements) /\ u.num_items = t.num_items /\ Bounded(u)
<1> DEFINE u == HASH_EXPAND_BUCKETS(t)
           m == t.num_buckets
           n == 2 * t.num_buckets
           ideal == t.num_items \div n + (IF t.num_items % n # 0 THEN 1 ELSE 0)
           From(b) == t.buckets[b % m]
           Moved(b) == Pushed(t.buckets[b % m].chain, b, n)
           New(b) == [chain |-> Moved(b), count |-> Len(Moved(b)), expand_mult |-> Multiple(Len(Moved(b)), ideal)]
<1>1. m \in Nat \ {0} /\ n \in Nat \ {0} /\ t.num_items \in Nat \ {0} /\ t.ineff_expands \in Nat /\ t.noexpand \in BOOLEAN
  BY DEF IsTable
<1>2. ideal \in Nat \ {0}
  BY <1>1, Ideal
<1>3. PICK ineff \in Nat :
        u = [t EXCEPT !.buckets = [b \in 0 .. n - 1 |-> New(b)], !.num_buckets = n,
                      !.ideal_chain_maxlen = ideal, !.ineff_expands = ineff, !.noexpand = t.noexpand \/ ineff > 1]
  <2> DEFINE buckets == [b \in 0 .. n - 1 |-> New(b)]
             nonideal_items == UNION {{b} \X (ideal + 1 .. buckets[b].count) : b \in 0 .. n - 1}
             ineff == IF Cardinality(nonideal_items) > t.num_items \div 2 THEN t.ineff_expands + 1 ELSE 0
  <2>1. ineff \in Nat
    <3> HIDE DEF nonideal_items
    <3> QED
      BY <1>1
  <2>2. u = [t EXCEPT !.buckets = [b \in 0 .. n - 1 |-> New(b)], !.num_buckets = n,
                      !.ideal_chain_maxlen = ideal, !.ineff_expands = ineff, !.noexpand = t.noexpand \/ ineff > 1]
    BY DEF HASH_EXPAND_BUCKETS
  <2> HIDE DEF ineff, u
  <2> QED
    BY <2>1, <2>2
<1>4. ASSUME NEW b \in 0 .. n - 1
      PROVE  New(b) \in Bucket /\ Holds(New(b), b, elements, n) /\ Short(New(b), ideal)
  <2> DEFINE old == t.buckets[b % m]
             chain == Moved(b)
  <2>1. b % m \in 0 .. m - 1
    BY <1>1
  <2>2. old \in Bucket /\ Holds(old, b % m, elements, m)
    BY <2>1 DEF IsTable, Links
  <2>3. old.chain \in Seq(Keys) /\ IsInjective(old.chain)
    <3> HIDE DEF old
    <3> QED
      BY <2>2 DEF Bucket, Holds
  <2>4. chain \in Seq(Keys) /\ IsInjective(chain) /\ ToSet(chain) = {k \in ToSet(old.chain) : HASH_TO_BKT(k, n) = b}
    <3> HIDE DEF old, n
    <3> QED
      BY <2>3, PushedChain DEF old
  <2>5. {k \in ToSet(old.chain) : HASH_TO_BKT(k, n) = b} = {k \in elements : HASH_TO_BKT(k, n) = b}
    <3>1. ASSUME NEW k \in elements, HASH_TO_BKT(k, n) = b
          PROVE  HASH_TO_BKT(k, m) = b % m
      BY <1>1, <3>1, BucketBefore
    <3>2. ToSet(old.chain) = {k \in elements : HASH_TO_BKT(k, m) = b % m}
      <4> HIDE DEF old, m
      <4> QED
        BY <2>2 DEF Holds
    <3> HIDE DEF old, m, n
    <3> QED
      BY <3>1, <3>2
  <2> HIDE DEF Moved
  <2>6. Len(chain) \in Nat
    BY <2>4
  <2>7. /\ Multiple(Len(chain), ideal) \in Nat
        /\ Len(chain) <= (Multiple(Len(chain), ideal) + 1) * ideal
    <3> HIDE DEF ideal
    <3> QED
      BY <1>2, <2>6, MultipleSuffices
  <2>8. New(b).chain = chain /\ New(b).count = Len(chain) /\ New(b).expand_mult = Multiple(Len(chain), ideal)
    OBVIOUS
  <2>9. New(b) \in Bucket
    BY <2>4, <2>6, <2>7 DEF Bucket
  <2>10. Holds(New(b), b, elements, n)
    <3> HIDE DEF New, n, old
    <3> QED
      BY <2>4, <2>5, <2>8 DEF Holds
  <2>11. Short(New(b), ideal)
    <3> HIDE DEF New, ideal
    <3> QED
      BY <2>7, <2>8 DEF Short
  <2> QED
    BY <2>9, <2>10, <2>11
<1> HIDE DEF New, u, ideal
<1>5. /\ u.num_buckets = n /\ u.buckets = [b \in 0 .. n - 1 |-> New(b)] /\ u.num_items = t.num_items
      /\ u.ideal_chain_maxlen = ideal
  BY <1>3 DEF IsTable
<1>6. [b \in 0 .. n - 1 |-> New(b)] \in [0 .. n - 1 -> Bucket]
  BY <1>4
<1>7. IsTable(u)
  <2> DEFINE buckets == [b \in 0 .. n - 1 |-> New(b)]
  <2>1. buckets \in [0 .. n - 1 -> Bucket]
    BY <1>6
  <2> HIDE DEF buckets
  <2> QED
    BY <1>1, <1>2, <1>3, <1>5, <2>1 DEF IsTable, buckets
<1>8. Links(u, elements)
  BY <1>4, <1>5 DEF Links
<1>9. Bounded(u)
  BY <1>4, <1>5 DEF Bounded
<1> QED
  BY <1>5, <1>7, <1>8, <1>9 DEF u

(* Adding to the table, with or without expansion.                         *)
LEMMA Added ==
  ASSUME NEW t, IsTable(t), NEW elements, elements \subseteq Keys, Links(t, elements), Bounded(t),
         NEW key \in Keys \ elements
  PROVE  LET u == HASH_ADD_TO_TABLE(t, key)
         IN IsTable(u) /\ Links(u, elements \union {key}) /\ u.num_items = t.num_items + 1 /\ Bounded(u)
<1> DEFINE u == HASH_ADD_TO_TABLE(t, key)
           added == Chained(t, key)
           b == HASH_TO_BKT(key, t.num_buckets)
<1> HIDE DEF added, b
<1>1. /\ IsTable(added) /\ Links(added, elements \union {key})
      /\ added.num_buckets = t.num_buckets /\ added.num_items = t.num_items + 1
      /\ added.ideal_chain_maxlen = t.ideal_chain_maxlen /\ added.noexpand = t.noexpand
      /\ \A c \in 0 .. t.num_buckets - 1 : c # b => added.buckets[c] = t.buckets[c]
  BY ChainedTable DEF added, b
<1>2. t.num_items \in Nat /\ t.noexpand \in BOOLEAN
  BY DEF IsTable
<1>3. CASE added.buckets[b].count >= (added.buckets[b].expand_mult + 1) * Thresh /\ ~ t.noexpand
  <2>1. u = HASH_EXPAND_BUCKETS(added)
    BY <1>3 DEF HASH_ADD_TO_TABLE, added, b
  <2>2. added.num_items # 0 /\ elements \union {key} \subseteq Keys
    BY <1>1, <1>2
  <2> QED
    BY <1>1, <2>1, <2>2, Expanded
<1>4. CASE ~ (added.buckets[b].count >= (added.buckets[b].expand_mult + 1) * Thresh /\ ~ t.noexpand)
  <2>1. u = added
    BY <1>4 DEF HASH_ADD_TO_TABLE, added, b
  <2>2. Bounded(added)
    <3> SUFFICES ASSUME ~ t.noexpand, NEW c \in 0 .. t.num_buckets - 1
                 PROVE  Short(added.buckets[c], t.ideal_chain_maxlen)
      BY <1>1 DEF Bounded
    <3>1. CASE c = b
      <4> DEFINE bucket == added.buckets[b]
                 limit == (bucket.expand_mult + 1) * Thresh
      <4>1. added.buckets \in [0 .. t.num_buckets - 1 -> Bucket]
        BY <1>1 DEF IsTable
      <4>2. bucket \in Bucket
        BY <3>1, <4>1
      <4>3. bucket.count \in Nat /\ bucket.expand_mult \in Nat
        <5> HIDE DEF bucket
        <5> QED
          BY <4>2 DEF Bucket
      <4>4. limit \in Nat
        <5> HIDE DEF bucket
        <5> QED
          BY <4>3, HashHelperAssumption
      <4>5. bucket.count < limit
        <5>1. ~ bucket.count >= limit
          BY <1>4
        <5> HIDE DEF limit, bucket
        <5> QED
          BY <4>3, <4>4, <5>1
      <4> QED
        BY <3>1, <4>5 DEF Short
    <3>2. CASE c # b
      BY <1>1, <3>2 DEF Bounded
    <3> QED
      BY <3>1, <3>2
  <2> QED
    BY <1>1, <2>1, <2>2
<1> QED
  BY <1>3, <1>4

-----------------------------------------------------------------------------
(* The reachable states.  The values take part because what get returns is *)
(* said of them: an element has one as long as it is linked.               *)

TypeOK ==
  /\ order \in Seq(Keys)
  /\ value \in Table
  /\ crashed \in BOOLEAN
  /\ order # <<>> => IsTable(tbl)

Linked ==
  /\ order = <<>> => tbl = NULL
  /\ order # <<>> => tbl.num_items = Len(order) /\ Links(tbl, ToSet(order))
  /\ IsInjective(order)

Inv ==
  /\ TypeOK
  /\ Linked
  /\ order # <<>> => Bounded(tbl)
  /\ \A k \in Keys : value[k] # NULL <=> k \in ToSet(order)

(* In them HASH_FIND finds the elements there are, and get their values.   *)
LEMMA FindsElements ==
  ASSUME Inv, NEW key \in Keys
  PROVE  HASH_FIND(key) <=> key \in ToSet(order)
<1>1. CASE order = <<>>
  <2>1. ToSet(order) = {}
    BY <1>1, Elements DEF Inv, TypeOK
  <2> QED
    BY <1>1, <2>1 DEF HASH_FIND
<1>2. CASE order # <<>>
  BY <1>2, Found DEF Inv, TypeOK, Linked
<1> QED
  BY <1>1, <1>2

LEMMA GetsValues ==
  Inv => Contents = value
<1> SUFFICES ASSUME Inv
             PROVE  Contents = value
  OBVIOUS
<1>1. value \in [Keys -> Values \union {NULL}]
  BY DEF Inv, TypeOK, Table
<1>2. ASSUME NEW k \in Keys
      PROVE  Contents[k] = value[k]
  <2>1. Contents[k] = IF HASH_FIND(k) THEN value[k] ELSE NULL
    BY DEF Contents
  <2>2. HASH_FIND(k) <=> k \in ToSet(order)
    BY FindsElements
  <2>3. value[k] # NULL <=> k \in ToSet(order)
    BY DEF Inv
  <2> QED
    BY <2>1, <2>2, <2>3
<1>3. Contents = [k \in Keys |-> Contents[k]]
  BY DEF Contents
<1> QED
  BY <1>1, <1>2, <1>3

LEMMA InvInit == Init => Inv
<1> SUFFICES ASSUME Init
             PROVE  Inv
  OBVIOUS
<1>1. order = <<>> /\ tbl = NULL /\ crashed = FALSE /\ value = [k \in Keys |-> NULL]
  BY DEF Init
<1>2. <<>> \in Seq(Keys) /\ Len(<<>>) = 0
  OBVIOUS
<1>3. ToSet(<<>>) = {} /\ IsInjective(<<>>)
  <2>1. \A i, j \in 1 .. Len(<<>>) : <<>>[i] = <<>>[j] => i = j
    BY <1>2
  <2>2. ToSet(<<>>) = {}
    BY <1>2, Elements, Zenon
  <2> QED
    BY <1>2, <2>1, <2>2, Elements, Zenon
<1> QED
  BY <1>1, <1>2, <1>3 DEF Inv, TypeOK, Linked, Table

(* An element more or less leaves the others and their values.             *)
LEMMA InvSet ==
  ASSUME Inv, NEW key \in Keys, NEW v \in Values, Set(key, v)
  PROVE  Inv'
<1> DEFINE elements == ToSet(order)
<1>1. /\ order \in Seq(Keys) /\ elements \subseteq Keys /\ value \in Table /\ crashed' \in BOOLEAN
      /\ \A k \in Keys : value[k] # NULL <=> k \in elements
  BY Elements DEF Inv, TypeOK, Set
<1>2. value' = [value EXCEPT ![key] = v] /\ v # NULL
  BY TableAssumption DEF Set
<1>3. value' \in Table /\ \A k \in Keys : value'[k] # NULL <=> k \in elements \union {key}
  BY <1>1, <1>2 DEF Table
<1>4. CASE HASH_FIND(key)
  <2>1. order' = order /\ tbl' = tbl
    BY <1>4 DEF Set
  <2>2. key \in elements
    BY <1>4, FindsElements
  <2>3. elements \union {key} = elements
    BY <2>2
  <2> QED
    BY <1>1, <1>3, <2>1, <2>3 DEF Inv, TypeOK, Linked
<1>5. CASE ~ HASH_FIND(key)
  <2> DEFINE t == IF order = <<>> THEN HASH_MAKE_TABLE ELSE tbl
  <2>1. key \in Keys \ elements
    BY <1>5, FindsElements
  <2>2. tbl' = HASH_ADD_TO_TABLE(t, key) /\ order' = Append(order, key)
    BY <1>5 DEF Set, HASH_ADD_KEYPTR
  <2>3. IsTable(t) /\ Links(t, elements) /\ t.num_items = Len(order) /\ Bounded(t)
    <3>1. CASE order = <<>>
      <4>1. elements = {} /\ Len(order) = 0
        BY <1>1, <3>1, Elements
      <4> QED
        BY <3>1, <4>1, Made
    <3>2. CASE order # <<>>
      BY <3>2 DEF Inv, TypeOK, Linked
    <3> QED
      BY <3>1, <3>2
  <2> HIDE DEF t
  <2>4. /\ IsTable(tbl') /\ Links(tbl', elements \union {key}) /\ tbl'.num_items = Len(order) + 1 /\ Bounded(tbl')
    BY <1>1, <2>1, <2>2, <2>3, Added
  <2>5. /\ order' \in Seq(Keys) /\ Len(order') = Len(order) + 1 /\ order' # <<>>
        /\ ToSet(order') = elements \union {key} /\ IsInjective(order')
    <3>1. IsInjective(order)
      BY DEF Inv, Linked
    <3> QED
      BY <1>1, <2>1, <2>2, <3>1, Appended
  <2> HIDE DEF elements
  <2>6. TypeOK'
    BY <1>1, <1>3, <2>4, <2>5 DEF TypeOK
  <2>7. Linked'
    BY <2>4, <2>5 DEF Linked
  <2>8. \A k \in Keys : value'[k] # NULL <=> k \in ToSet(order')
    BY <1>3, <2>5
  <2> QED
    BY <2>4, <2>6, <2>7, <2>8 DEF Inv
<1> QED
  BY <1>4, <1>5

LEMMA InvDelete ==
  ASSUME Inv, NEW key \in Keys, Delete(key)
  PROVE  Inv'
<1> DEFINE elements == ToSet(order)
<1>1. /\ order \in Seq(Keys) /\ elements \subseteq Keys /\ value \in Table /\ crashed' \in BOOLEAN
      /\ IsInjective(order) /\ \A k \in Keys : value[k] # NULL <=> k \in elements
  BY Elements DEF Inv, TypeOK, Linked, Delete
<1>2. value' = [value EXCEPT ![key] = NULL] /\ key \in elements
  BY FindsElements DEF Delete
<1>3. value' \in Table /\ \A k \in Keys : value'[k] # NULL <=> k \in elements \ {key}
  BY <1>1, <1>2 DEF Table
<1>4. order # <<>>
  BY <1>1, <1>2, Elements
<1>5. CASE order = <<key>>
  <2>1. tbl' = NULL /\ order' = <<>>
    BY <1>5 DEF Delete, HASH_DELETE
  <2>2. elements = {key}
    <3>1. <<key>> \in Seq(Keys) /\ Len(<<key>>) = 1 /\ <<key>>[1] = key /\ 1 .. 1 = {1}
      OBVIOUS
    <3>2. ToSet(<<key>>) = {<<key>>[i] : i \in 1 .. Len(<<key>>)}
      BY <3>1, Elements, Zenon
    <3> QED
      BY <1>5, <3>1, <3>2
  <2>3. <<>> \in Seq(Keys) /\ Len(<<>>) = 0
    OBVIOUS
  <2>4. ToSet(<<>>) = {} /\ IsInjective(<<>>)
    <3>1. \A i, j \in 1 .. Len(<<>>) : <<>>[i] = <<>>[j] => i = j
      BY <2>3
    <3>2. ToSet(<<>>) = {}
      BY <2>3, Elements, Zenon
    <3> QED
      BY <2>3, <3>1, <3>2, Elements, Zenon
  <2> HIDE DEF elements
  <2>5. \A k \in Keys : value'[k] # NULL <=> k \in ToSet(order')
    BY <1>3, <2>1, <2>2, <2>4
  <2> QED
    BY <1>1, <1>3, <2>1, <2>3, <2>4, <2>5 DEF Inv, TypeOK, Linked
<1>6. CASE order # <<key>>
  <2>1. tbl' = Unchained(tbl, key) /\ order' = RemoveFirst(order, key)
    BY <1>6 DEF Delete, HASH_DELETE
  <2>2. /\ order' \in Seq(Keys) /\ Len(order') = Len(order) - 1 /\ IsInjective(order')
        /\ ToSet(order') = elements \ {key}
    BY <1>1, <1>2, <2>1, Removed
  <2>3. IsTable(tbl) /\ Links(tbl, elements) /\ tbl.num_items = Len(order) /\ Bounded(tbl)
    BY <1>4 DEF Inv, TypeOK, Linked
  <2>4. Len(order) # 0
    BY <1>1, <1>4, EmptySeq
  <2>5. IsTable(tbl') /\ Links(tbl', elements \ {key}) /\ tbl'.num_items = Len(order) - 1 /\ Bounded(tbl')
    BY <1>1, <1>2, <2>1, <2>3, <2>4, UnchainedTable
  <2>6. order' # <<>>
    <3> SUFFICES ASSUME order' = <<>>
                 PROVE  FALSE
      OBVIOUS
    <3>1. Len(order) = 1
      BY <1>1, <2>2
    <3>2. order[1] = key
      <4>1. PICK i \in 1 .. Len(order) : order[i] = key
        BY <1>1, <1>2, Elements
      <4> QED
        BY <3>1, <4>1
    <3>3. order = <<key>>
      BY <1>1, <3>1, <3>2
    <3> QED
      BY <1>6, <3>3
  <2> HIDE DEF elements
  <2>7. TypeOK'
    BY <1>1, <1>3, <2>2, <2>5 DEF TypeOK
  <2>8. Linked'
    BY <2>2, <2>5, <2>6 DEF Linked
  <2>9. \A k \in Keys : value'[k] # NULL <=> k \in ToSet(order')
    BY <1>3, <2>2
  <2> QED
    BY <2>5, <2>7, <2>8, <2>9 DEF Inv
<1> QED
  BY <1>5, <1>6

LEMMA InvNext == Inv /\ [Next]_vars => Inv'
<1> SUFFICES ASSUME Inv, [Next]_vars
             PROVE  Inv'
  OBVIOUS
<1>1. ASSUME NEW key \in Keys, NEW v \in Values, Set(key, v)
      PROVE  Inv'
  BY <1>1, InvSet
<1>2. ASSUME NEW key \in Keys, Delete(key)
      PROVE  Inv'
  BY <1>2, InvDelete
<1>3. ASSUME NEW key \in Keys, DeleteAbsent(key)
      PROVE  Inv'
  <2>1. UNCHANGED <<tbl, order, value>> /\ crashed' = TRUE
    BY <1>3 DEF DeleteAbsent
  <2> QED
    BY <2>1 DEF Inv, TypeOK, Linked
<1>4. CASE UNCHANGED vars
  BY <1>4 DEF vars, Inv, TypeOK, Linked
<1> QED
  BY <1>1, <1>2, <1>3, <1>4 DEF Next

LEMMA InvAlways == Spec => []Inv
<1> QED
  BY InvInit, InvNext, PTL DEF Spec

-----------------------------------------------------------------------------

(* Whatever is set and deleted, the counts, the chains and the insertion   *)
(* order agree as HASH_FSCK would ask, across every expansion and every    *)
(* freeing of the table.                                                   *)
THEOREM HashHelperConsistent == Spec => []Consistent
<1>1. Inv => Consistent
  <2> SUFFICES ASSUME Inv
               PROVE  Consistent
    OBVIOUS
  <2>1. order = <<>> => tbl = NULL
    BY DEF Inv, Linked
  <2>2. order # <<>> => tbl.num_items = Len(order) /\ Links(tbl, ToSet(order))
    BY DEF Inv, Linked
  <2>3. IsInjective(order)
    BY DEF Inv, Linked
  <2> QED
    BY <2>1, <2>2, <2>3 DEF Consistent, Links, Holds
<1> QED
  BY <1>1, InvAlways, PTL

(* What "a longer yet-still-bounded value" at expand_mult promises of the  *)
(* chains holds of every table, whatever the hashes and the thresholds.    *)
THEOREM HashHelperChainsBounded == Spec => []ChainsBounded
<1>1. Inv => ChainsBounded
  <2> SUFFICES ASSUME Inv, order # <<>>, ~ tbl.noexpand, NEW bucket \in Range(tbl.buckets)
               PROVE  Short(bucket, tbl.ideal_chain_maxlen)
    BY DEF ChainsBounded, Short
  <2>1. DOMAIN tbl.buckets = 0 .. tbl.num_buckets - 1
    BY DEF Inv, TypeOK, IsTable
  <2>2. PICK b \in 0 .. tbl.num_buckets - 1 : bucket = tbl.buckets[b]
    BY <2>1 DEF Range
  <2> QED
    BY <2>2 DEF Inv, Bounded
<1> QED
  BY <1>1, InvAlways, PTL

(* set, get and delete_element are what HashTable says, and delete_element *)
(* dereferences NULL exactly for the keys get does not find.               *)
THEOREM HashHelperActsOnTable == Spec => ActsOnTable
<1> DEFINE Acts ==
      \A key \in Keys :
        /\ \A v \in Values : Set(key, v) => Contents' = set(Contents, key, v)
        /\ Delete(key) => Deletable(Contents, key) /\ Contents' = delete_element(Contents, key)
        /\ DeleteAbsent(key) => ~ Deletable(Contents, key)
<1>1. Inv /\ Inv' /\ [Next]_vars => [Acts]_vars
  <2> SUFFICES ASSUME Inv, Inv', NEW key \in Keys
               PROVE  /\ \A v \in Values : Set(key, v) => Contents' = set(Contents, key, v)
                      /\ Delete(key) => Deletable(Contents, key) /\ Contents' = delete_element(Contents, key)
                      /\ DeleteAbsent(key) => ~ Deletable(Contents, key)
    OBVIOUS
  <2>1. Contents = value
    BY GetsValues
  <2>2. Contents' = value'
    <3>1. Inv' => (Contents = value)'
      BY GetsValues, PTL
    <3> QED
      BY <3>1
  <2>3. value[key] # NULL <=> HASH_FIND(key)
    BY FindsElements DEF Inv
  <2> HIDE DEF Contents
  <2> QED
    BY <2>1, <2>2, <2>3 DEF Set, Delete, DeleteAbsent, set, delete_element, Deletable, get
<1> QED
  BY <1>1, InvAlways, PTL DEF Spec, ActsOnTable

=============================================================================
