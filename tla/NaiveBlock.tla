----------------------------- MODULE NaiveBlock -----------------------------
(***************************************************************************)
(* NaiveColumnBlock (bitweaving-lib/src/naive_column_block.cpp): a block   *)
(* of a column as a plain array of kNumCodesPerBlock codes, of which num   *)
(* are in use.  The array is not initialized: junk is what it holds.       *)
(***************************************************************************)
EXTENDS BitVector

NewNaiveBlock(size, junk) ==
  [type |-> "kNaive", size |-> size, num |-> 0,
   data |-> [p \in 0..(kNumCodesPerBlock - 1) |-> junk]]

NaiveGetCode(block, pos) == block.data[pos]
NaiveSetCode(block, pos, code) == [block EXCEPT !.data[pos] = code]

Compare(cmp, code, other) ==
  CASE cmp = "kEqual"        -> code = other
    [] cmp = "kInequal"      -> code # other
    [] cmp = "kGreater"      -> code > other
    [] cmp = "kLess"         -> code < other
    [] cmp = "kGreaterEqual" -> code >= other
    [] cmp = "kLessEqual"    -> code <= other

\* The bits of word w that stand for positions in holding.
Found(w, holding) == {BitAt(p) : p \in {q \in holding : WordAt(q) = w}}

\* The loop of every scan, which finds the positions in holding: words past the
\* num codes are cleared, whatever opt is.
NaiveScanWords(num, bv, opt, holding) ==
  [bv EXCEPT !.words =
     [w \in DOMAIN @ |-> IF w < NumWords(num)
                         THEN Combine(opt, @[w], Found(w, holding))
                         ELSE {}]]

\* Scan and Scan_between with literals check nothing.
NaiveScan(block, cmp, literal, bv, opt) ==
  [ok |-> TRUE,
   bv |-> NaiveScanWords(block.num, bv, opt,
            {p \in 0..(block.num - 1) : Compare(cmp, block.data[p], literal)})]

NaiveScanBetween(block, literal1, literal2, bv, opt) ==
  [ok |-> TRUE,
   bv |-> NaiveScanWords(block.num, bv, opt,
            {p \in 0..(block.num - 1) :
               literal1 <= block.data[p] /\ block.data[p] <= literal2})]

\* Scan with a block of any type, whose codes are others.  The loop is over the
\* smaller block, but a word it has begun it takes to its own end.
NaiveScanColumn(block, cmp, otherNum, others, bv, opt) ==
  IF bv.num # block.num THEN [ok |-> FALSE, bv |-> bv]
  ELSE LET words == NumWords(Min({block.num, otherNum}))
           num == Min({block.num, words * kNumBitsPerWord})
       IN  [ok |-> TRUE,
            bv |-> NaiveScanWords(num, bv, opt,
                     {p \in 0..(num - 1) :
                        Compare(cmp, block.data[p], others[p])})]
=============================================================================
