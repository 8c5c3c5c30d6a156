------------------------------- MODULE HashJen -------------------------------
(***************************************************************************)
(* HASH_JEN of uthash.h, the hash by which a key is placed on the ring     *)
(* (its lower 16 bits, hash_helper.c:58-62) and in the hash table.  A word *)
(* of 32 bits is the pair of its halves, as TLC counts no further.         *)
(*                                                                         *)
(* A key is a pointer into a received message, where the value, or         *)
(* whatever the heap holds, follows it: memory is the key and the bytes    *)
(* behind it, keylen says where the key ends.                              *)
(***************************************************************************)
EXTENDS Integers, Sequences, SequencesExt

CONSTANT Xor16(_, _)  \* the operator ^ on halves

Half == 65536

Plus(x, y) ==
  LET low == x[2] + y[2]
  IN <<(x[1] + y[1] + low \div Half) % Half, low % Half>>

Minus(x, y) ==
  LET low == x[2] - y[2]
  IN <<(x[1] - y[1] + low \div Half) % Half, low % Half>>

Xor32(x, y) == <<Xor16(x[1], y[1]), Xor16(x[2], y[2])>>

Right(x, n) ==
  <<x[1] \div 2 ^ n, (x[1] % 2 ^ n) * 2 ^ (16 - n) + x[2] \div 2 ^ n>>

Left(x, n) ==
  IF n = 16 THEN <<x[2], 0>>
  ELSE <<(x[1] % 2 ^ (16 - n)) * 2 ^ n + x[2] \div 2 ^ (16 - n), (x[2] * 2 ^ n) % Half>>

(* To the left by n, or to the right by -n.                                *)
Shifted(x, n) == IF n > 0 THEN Left(x, n) ELSE Right(x, -n)

(* A line of the macro, x -= y; x -= z; x ^= z shifted by n.  The next one *)
(* is the same of y, z and x.                                              *)
Line(s, n) == <<s[2], s[3], Xor32(Minus(Minus(s[1], s[2]), s[3]), Shifted(s[3], n))>>

(* Nine lines, after which a, b and c are in their places again.           *)
HASH_JEN_MIX(s) == FoldLeft(Line, s, <<-13, 8, -13, -12, 16, -5, -3, 10, -15>>)

(* Deviation: whole words are read at the end of the key, too.             *)
Word_whole(memory, at, size) ==
  LET B(k) == memory[at + k]
  IN <<B(4) * 256 + B(3), B(2) * 256 + B(1)>>

(* The word at an offset, of which only the first size bytes are read.     *)
Word(memory, at, size) ==
  LET B(k) == IF k <= size THEN memory[at + k] ELSE 0
  IN <<B(4) * 256 + B(3), B(2) * 256 + B(1)>>

(* i, j and hashv.                                                         *)
Start == <<<<40503, 31161>>, <<40503, 31161>>, <<65261, 48879>>>>

(* The three words at an offset.                                          *)
Words(memory, at, size) ==
  <<Word(memory, at, size), Word(memory, at + 4, size - 4), Word(memory, at + 8, size - 8)>>

Block(s, words) ==
  HASH_JEN_MIX(<<Plus(s[1], words[1]), Plus(s[2], words[2]), Plus(s[3], words[3])>>)

(* Deviation: the loop leaves twelve bytes to a switch that knows eleven.  *)
Blocks_beyond_12(keylen) == IF keylen = 0 THEN 0 ELSE (keylen - 1) \div 12

Blocks(keylen) == keylen \div 12

Whole(memory, keylen) == [n \in 1 .. Blocks(keylen) |-> Words(memory, 12 * (n - 1), 12)]

(* The switch falls through from the last byte to the first.  Of hashv the *)
(* lowest byte is left to the length.                                      *)
Rest(memory, keylen) ==
  LET at == 12 * Blocks(keylen)
      words == Words(memory, at, keylen - at)
  IN [words EXCEPT ![3] = Left(words[3], 8)]

(* Deviation: the length is not added.                                     *)
Digest_without_length(whole, rest, keylen) == Block(FoldLeft(Block, Start, whole), rest)[3]

Digest(whole, rest, keylen) ==
  Block([FoldLeft(Block, Start, whole) EXCEPT ![3] = Plus(@, <<0, keylen>>)], rest)[3]

HASH_JEN(memory, keylen) == Digest(Whole(memory, keylen), Rest(memory, keylen), keylen)

(* What byte16 hashId keeps of the result.                                 *)
get_hash_value(memory, keylen) == HASH_JEN(memory, keylen)[2]

==============================================================================
