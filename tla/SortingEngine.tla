--------------------------- MODULE SortingEngine ---------------------------
(***************************************************************************)
(* sort() of src/SortingEngine: an insertion sort of short arrays and an   *)
(* in-place radix sort of the others, by one dimension.  An array is a     *)
(* function from positions to elements, key[e] the value of element e on   *)
(* the dimension.                                                          *)
(***************************************************************************)
EXTENDS Integers, SequencesExt

CONSTANTS LOG2_OF_NUMBER_OF_BINS,
          INTROSORT_SWITCH  \* shorter arrays are not sorted by radix

NUMBER_OF_BINS == 2^LOG2_OF_NUMBER_OF_BINS
Digits == 0..(NUMBER_OF_BINS - 1)

\* The elements data[begin], ..., data[begin + n - 1].
Part(data, begin, n) == [i \in 0..(n - 1) |-> data[begin + i]]
Length(data) == Cardinality(DOMAIN data)

\* introsort is the insertion sort: equal elements stay in their order.
introsort(data, key) ==
  LET n == Length(data)
      less(i, j) == \/ key[data[i]] < key[data[j]]
                    \/ key[data[i]] = key[data[j]] /\ i < j
      order == SortSeq([i \in 1..n |-> i - 1], less)
  IN  [i \in 0..(n - 1) |-> data[order[i + 1]]]

Digit(value, shifter) == (value \div 2^shifter) % NUMBER_OF_BINS

\* The array, the ends of the bins, and where the loops over it are.
States(data) == [data : [DOMAIN data -> Range(data)], end : [Digits -> Nat],
                 current : Nat, nextBin : Nat]

\* The element in hand is swapped into the end of its bin, until one belongs
\* to the position that the cycle has begun with.
Cycle(p, key, shifter) ==
  LET cycle[q \in States(p.data), tid \in Range(p.data)] ==
        LET digit == Digit(key[tid], shifter)
            place == q.end[digit]
            r == [q EXCEPT !.data[place] = tid, !.end[digit] = @ + 1]
        IN  IF place = q.current THEN r ELSE cycle[r, q.data[place]]
  IN  cycle[p, p.data[p.current]]

\* nextBin goes past the bins that begin before current and those that are
\* full, and current to the end of the bin before it.
Advance(p, start) ==
  LET current == p.current + 1
      begun == Max({p.nextBin} \cup {b + 1 : b \in {c \in Digits :
                 \A e \in p.nextBin..c : current >= start[e]}})
      nextBin == Max({begun} \cup {b + 1 : b \in {c \in Digits :
                 c >= begun /\ \A e \in begun..c : p.end[e - 1] = start[e]}})
  IN  [p EXCEPT !.current = Max({current, p.end[nextBin - 1]}),
                !.nextBin = nextBin]

Permute(p, start, key, shifter) ==
  LET permute[q \in States(p.data)] ==
        IF q.current \notin DOMAIN q.data THEN q.data
        ELSE permute[Advance(Cycle(q, key, shifter), start)]
  IN  permute[p]

\* One digit, and then each bin by the digit below it, as long as there is one.
\* radix[n, shifter] is the call for arrays of n elements.
radixSort(all, key, highest) ==
  LET radix[n \in 0..Length(all), shifter \in 0..highest] ==
        [data \in [0..(n - 1) -> Range(all)] |->
           LET digit(i) == Digit(key[data[i]], shifter)
               start == [b \in Digits |->
                           Cardinality({i \in DOMAIN data : digit(i) < b})]
               size == [b \in Digits |->
                          Cardinality({i \in DOMAIN data : digit(i) = b})]
               moved == Permute([data |-> data, end |-> start, current |-> 0,
                                 nextBin |-> 0], start, key, shifter)
               bin(b) == Part(moved, start[b], size[b])
               below == shifter - LOG2_OF_NUMBER_OF_BINS
               sorted == [b \in Digits |->
                            IF size[b] >= INTROSORT_SWITCH
                            THEN radix[size[b], below][bin(b)]
                            ELSE introsort(bin(b), key)]
           IN  IF shifter = 0 THEN moved
               ELSE [i \in DOMAIN data |->
                       LET b == Digit(key[moved[i]], shifter)
                       IN  sorted[b][i - start[b]]]]
  IN  radix[Length(all), highest][all]

BitLength(limit) ==
  CHOOSE r \in 1..32 : limit < 2^r /\ \A k \in 1..(r - 1) : limit >= 2^k

\* sort(): the first digit is the one that the largest value reaches into.
sort(data, key, limit) ==
  IF Length(data) < 2 THEN data
  ELSE IF Length(data) < INTROSORT_SWITCH THEN introsort(data, key)
  ELSE radixSort(data, key,
                 (BitLength(limit) \div LOG2_OF_NUMBER_OF_BINS)
                   * LOG2_OF_NUMBER_OF_BINS)
=============================================================================
