------------------------------- MODULE IdRange -------------------------------
(***************************************************************************)
(* The arithmetic of peer identifiers: `id_is_between` (data_helper.c) and *)
(* the macro `in_range` it expands to (extended_math.h), next to the       *)
(* interval of a Chord ring that a responsible peer is meant to cover.     *)
(***************************************************************************)
EXTENDS Integers

byte16 == 0 .. 65535

(* Deviation: the lower end, which is the previous peer's own id, is in.   *)
in_range_with_lower(value, upper, lower) == upper > value /\ lower <= value

(* in_range(value, upper, lower): both ends are excluded.                  *)
in_range(value, upper, lower) == upper > value /\ lower < value

-----------------------------------------------------------------------------
(* The reference: the half-open interval ]lower, upper] of the ring of     *)
(* 2^16 identifiers, walked upwards from lower.  It wraps when upper is    *)
(* not above lower, and is the whole ring when both are equal.             *)
Distance(from, to) == (to - from) % 65536

ChordCovers(value, upper, lower) ==
  IF upper = lower
  THEN TRUE
  ELSE Distance(lower, value) # 0 /\ Distance(lower, value) <= Distance(lower, upper)

(* What in_range leaves out of the interval: the upper end, and everything *)
(* when the interval wraps past 65535.                                     *)
Uncovered(value, upper, lower) == value = upper \/ upper <= lower

(* in_range holds of the interior of an interval that does not wrap, and   *)
(* of nothing else.                                                        *)
CoversInteriorOnly(value, upper, lower) ==
  in_range(value, upper, lower)
    <=> ChordCovers(value, upper, lower) /\ ~ Uncovered(value, upper, lower)

==============================================================================
