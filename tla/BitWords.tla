------------------------------ MODULE BitWords ------------------------------
(***************************************************************************)
(* WordUnit (bitweaving-lib/include/bitweaving/types.h): a machine word of *)
(* kNumBitsPerWord bits, here the set of the numbers of its 1-bits, 0 the  *)
(* least significant.  AND is \cap and OR is \cup.                         *)
(***************************************************************************)
EXTENDS Integers, Sequences, FiniteSets, FiniteSetsExt

CONSTANTS kNumBitsPerWord,   \* 64 in the code
          kNumCodesPerBlock, \* 2^20 in the code, a multiple of the word
          kNumBitsPerGroup   \* 4 in the code: bits of a code kept together

ASSUME BitWordsAssumption ==
  /\ kNumBitsPerWord \in Nat \ {0}
  /\ kNumCodesPerBlock \in Nat \ {0}
  /\ kNumCodesPerBlock % kNumBitsPerWord = 0
  /\ kNumBitsPerGroup \in 1..kNumBitsPerWord

Bits == 0..(kNumBitsPerWord - 1)
Word == SUBSET Bits

NOT(w) == Bits \ w
XOR(v, w) == (v \ w) \cup (w \ v)
SHL(w, n) == {b + n : b \in w} \cap Bits
SHR(w, n) == {b - n : b \in {c \in w : c >= n}}

Pow2[n \in 0..kNumBitsPerWord] == IF n = 0 THEN 1 ELSE 2 * Pow2[n - 1]

\* A number after shifts to the right: Halvings(n)[k] is n >> k.
Halvings(n) ==
  LET h[k \in 0..kNumBitsPerWord] == IF k = 0 THEN n ELSE h[k - 1] \div 2
  IN  h

\* The number of n bits whose 1-bits are at the places ones, and back: place 0
\* is that of the highest bit, as a loop meets them that shifts to the left.
ShiftedIn(ones) ==
  LET v[k \in 0..kNumBitsPerWord] ==
        IF k = 0 THEN 0
        ELSE 2 * v[k - 1] + (IF k - 1 \in ones THEN 1 ELSE 0)
  IN  v
Number(n, ones) == ShiftedIn(ones)[n]
Ones(n, number) ==
  {i \in 0..(n - 1) : Halvings(number)[n - 1 - i] % 2 = 1}

ValueOf == [w \in Word |-> Number(kNumBitsPerWord,
                                  {kNumBitsPerWord - 1 - b : b \in w})]
WordOf == [n \in 0..(Pow2[kNumBitsPerWord] - 1) |->
             {kNumBitsPerWord - 1 - i : i \in Ones(kNumBitsPerWord, n)}]

\* Unsigned addition wraps around.
Add(v, w) == WordOf[(ValueOf[v] + ValueOf[w]) % Pow2[kNumBitsPerWord]]

\* The members of a set of numbers that are below n, from the least on.
Ascending(S, n) ==
  LET seq[i \in 0..n] ==
        IF i = 0 THEN <<>>
        ELSE IF i - 1 \in S THEN Append(seq[i - 1], i - 1) ELSE seq[i - 1]
  IN  seq[n]

CEIL(x, y) == (x + y - 1) \div y

\* Position 0 of a bit vector is the most significant bit of its first word.
BitAt(pos) == kNumBitsPerWord - 1 - (pos % kNumBitsPerWord)
WordAt(pos) == pos \div kNumBitsPerWord

\* What a scan does with the bits it finds: replace, filter or extend.
Combine(opt, old, found) ==
  CASE opt = "kSet" -> found
    [] opt = "kAnd" -> found \cap old
    [] opt = "kOr"  -> found \cup old
=============================================================================
