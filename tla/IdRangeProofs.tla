---------------------------- MODULE IdRangeProofs ----------------------------
(***************************************************************************)
(* What id_is_between covers of the ring, for every identifier.            *)
(***************************************************************************)
EXTENDS IdRange, TLAPS

(* The members of byte16; the bound is named so that no step has to        *)
(* reason about an interval with a large literal end.                      *)
LEMMA Byte16Range == \A n : n \in byte16 <=> n \in Int /\ 0 <= n /\ n <= 65535
<1>1. ASSUME NEW m \in Int, m = 65535
      PROVE  \A n : n \in byte16 <=> n \in Int /\ 0 <= n /\ n <= m
  <2>1. byte16 = 0 .. m
    BY <1>1, SMT DEF byte16
  <2> QED
    BY <2>1, SMT
<1>2. \A m \in Int : m = 65535 => \A n : n \in byte16 <=> n \in Int /\ 0 <= n /\ n <= m
  BY <1>1
<1> QED
  BY <1>2, SMT

(* Ids and hashes are integers.                                            *)
LEMMA Byte16IsInt ==
  ASSUME NEW n \in byte16
  PROVE  n \in Int /\ 0 <= n /\ n <= 65535
BY Byte16Range

(* The distance walked upwards, without the modulo.                        *)
LEMMA DistanceCases ==
  ASSUME NEW from \in byte16, NEW to \in byte16
  PROVE  Distance(from, to) = IF from <= to THEN to - from ELSE to - from + 65536
<1>1. from \in Int /\ to \in Int /\ 0 <= from /\ from <= 65535 /\ 0 <= to /\ to <= 65535
  BY Byte16IsInt
<1>2. CASE from <= to
  BY <1>1, <1>2 DEF Distance
<1>3. CASE ~ (from <= to)
  BY <1>1, <1>3 DEF Distance
<1> QED
  BY <1>2, <1>3

(* id_is_between says yes to the interior of the Chord interval            *)
(* ]prev, this] when that does not wrap, and to nothing else: the peer's   *)
(* own id and the wrapping segment of the ring have no responsible peer.   *)
THEOREM InRangeCoversInterior ==
  ASSUME NEW value \in byte16, NEW upper \in byte16, NEW lower \in byte16
  PROVE  CoversInteriorOnly(value, upper, lower)
<1>1. /\ value \in Int /\ upper \in Int /\ lower \in Int
      /\ 0 <= value /\ value <= 65535 /\ 0 <= upper /\ upper <= 65535 /\ 0 <= lower /\ lower <= 65535
  BY Byte16IsInt
<1>2. CASE upper <= lower
  BY <1>1, <1>2 DEF CoversInteriorOnly, in_range, Uncovered
<1>3. CASE lower < upper
  <2>1. Distance(lower, upper) = upper - lower
    BY <1>1, <1>3, DistanceCases
  <2>2. Distance(lower, value) = IF lower <= value THEN value - lower ELSE value - lower + 65536
    BY DistanceCases
  <2>3. ChordCovers(value, upper, lower) <=> lower < value /\ value <= upper
    BY <1>1, <1>3, <2>1, <2>2 DEF ChordCovers
  <2> QED
    BY <1>1, <1>3, <2>3 DEF CoversInteriorOnly, in_range, Uncovered
<1> QED
  BY <1>1, <1>2, <1>3

==============================================================================
