---------------------------- MODULE HashHelperMC ----------------------------
(***************************************************************************)
(* Values for the constants of HashHelper: four keys with one hash, which  *)
(* no expansion separates, and two pairs with others.                      *)
(***************************************************************************)
EXTENDS HashHelper

CONSTANTS kSame1, kSame2, kSame3, kSame4, kOdd1, kOdd2, kFar1, kFar2

SameKeys == {kSame1, kSame2, kSame3, kSame4}
OddKeys == {kOdd1, kOdd2}
FarKeys == {kFar1, kFar2}

MCKeys == SameKeys \union OddKeys \union FarKeys

(* The far keys share the bucket of the same ones until there are eight.   *)
MCHashOf == [k \in MCKeys |-> CASE k \in SameKeys -> 0 [] k \in OddKeys -> 1 [] k \in FarKeys -> 4]

(* Keys with the same hash, and values, are alike.                         *)
MCSymmetry ==
  Permutations(SameKeys) \union Permutations(OddKeys) \union Permutations(FarKeys) \union Permutations(Values)

=============================================================================
