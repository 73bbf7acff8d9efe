------------------------------ MODULE BwHBlock ------------------------------
(***************************************************************************)
(* BwHColumnBlock (bitweaving-lib/src/bwh_column_block.cpp), BitWeaving/H: *)
(* a word holds several codes, each below a delimiter bit that is 0 and    *)
(* that takes the carry of an addition, which compares all of them.        *)
(* Neighbouring codes are in neighbouring words, so that the results of    *)
(* the words of a segment interleave.                                      *)
(***************************************************************************)
EXTENDS BitVector

HBitsPerCode(size) == size + 1
HWordsPerSegment(size) == size + 1
HCodesPerWord(size) == kNumBitsPerWord \div HBitsPerCode(size)
HEmptyBits(size) == kNumBitsPerWord - HCodesPerWord(size) * HBitsPerCode(size)
HCodesPerSegment(size) == HWordsPerSegment(size) * HCodesPerWord(size)
HSegments(num, size) == CEIL(num, HCodesPerSegment(size))

NewHBlock(size) ==
  [type |-> "kBitWeavingH", size |-> size, num |-> 0,
   data |-> [w \in 0..(HSegments(kNumCodesPerBlock, size)
                         * HWordsPerSegment(size) - 1) |-> {}]]

HWordOf(size, pos) ==
  (pos \div HCodesPerSegment(size)) * HWordsPerSegment(size)
    + ((pos % HCodesPerSegment(size)) % HWordsPerSegment(size))
HShiftOf(size, pos) ==
  (HCodesPerWord(size) - 1
     - (pos % HCodesPerSegment(size)) \div HWordsPerSegment(size))
    * HBitsPerCode(size)

CodeBits(size) == 0..(size - 1)

HGetCode(block, pos) ==
  ValueOf[SHR(block.data[HWordOf(block.size, pos)],
              HShiftOf(block.size, pos)) \cap CodeBits(block.size)]

\* SetCode only adds bits: nothing clears those of the code before.
HSetCode(block, pos, code) ==
  [block EXCEPT !.data[HWordOf(block.size, pos)] =
     @ \cup SHL(WordOf[code], HShiftOf(block.size, pos))]
-----------------------------------------------------------------------------
\* base_mask times a code: the code in the place of every code of a word.
Spread(size, bits) ==
  {j * HBitsPerCode(size) + b : j \in 0..(HCodesPerWord(size) - 1), b \in bits}
base_mask(size) == Spread(size, {0})
complement_mask(size) == Spread(size, CodeBits(size))
result_mask(size) == Spread(size, {size})

\* A word of codes d against the codes o: the delimiters of those that match.
HMatches(cmp, size, d, o) ==
  LET compl == complement_mask(size)
      sum == CASE cmp \in {"kEqual", "kInequal"}     -> Add(XOR(d, o), compl)
               [] cmp \in {"kGreater", "kLessEqual"} -> Add(d, XOR(o, compl))
               [] cmp \in {"kLess", "kGreaterEqual"} -> Add(o, XOR(d, compl))
  IN  result_mask(size) \cap (IF cmp \in {"kInequal", "kGreater", "kLess"}
                              THEN sum ELSE NOT(sum))

\* With a literal, equality has a sum of its own.
HMatchesLiteral(cmp, size, d, literal) ==
  IF cmp = "kEqual"
  THEN result_mask(size) \cap
         Add(XOR(d, Spread(size, CodeBits(size) \ WordOf[literal])),
             base_mask(size))
  ELSE HMatches(cmp, size, d, Spread(size, WordOf[literal]))

\* The codes from literal1 to literal2, in one pass.
HMatchesBetween(size, d, literal1, literal2) ==
  LET compl == complement_mask(size)
  IN  result_mask(size)
        \cap NOT(Add(Spread(size, WordOf[literal1]), XOR(d, compl)))
        \cap NOT(Add(d, XOR(Spread(size, WordOf[literal2]), compl)))

\* The loop of every scan: the matches of a segment, gathered in the order of
\* the codes, are appended to the word that is being put out, and a word that
\* is full is written.  m.offset bits of m.output are there.
HScanWords(block, bv, opt, matches) ==
  LET k == block.size
      segments == HSegments(block.num, k)
      gathered(s) ==
        UNION {SHR(matches[s * HWordsPerSegment(k) + w], w) :
                 w \in 0..(HWordsPerSegment(k) - 1)}
      Write(m, out) ==
        [m.words EXCEPT ![m.word] = Combine(opt, @, out)]
      Segment(m, s) ==
        LET out == m.output \cup SHR(SHL(gathered(s), HEmptyBits(k)), m.offset)
            offset == m.offset + HCodesPerSegment(k)
            left == offset - kNumBitsPerWord
        IN  IF left < 0 THEN [m EXCEPT !.output = out, !.offset = offset]
            ELSE [words |-> Write(m, out), word |-> m.word + 1, offset |-> left,
                  output |-> SHL(gathered(s), kNumBitsPerWord - left)]
      after[s \in 0..segments] ==
        IF s = 0
        THEN [words |-> bv.words, word |-> 0, offset |-> 0, output |-> {}]
        ELSE Segment(after[s - 1], s - 1)
      last == after[segments]
      unused == segments * HCodesPerSegment(k) - block.num
  IN  Finalize([bv EXCEPT !.words =
        IF last.offset > unused THEN Write(last, last.output) ELSE last.words])

HScan(block, cmp, literal, bv, opt) ==
  IF bv.num # block.num \/ literal >= Pow2[block.size] THEN [ok |-> FALSE, bv |-> bv]
  ELSE [ok |-> TRUE,
        bv |-> HScanWords(block, bv, opt,
                 [w \in DOMAIN block.data |->
                    HMatchesLiteral(cmp, block.size, block.data[w], literal)])]

HScanBetween(block, literal1, literal2, bv, opt) ==
  IF \/ bv.num # block.num
     \/ literal1 >= Pow2[block.size]
     \/ literal2 >= Pow2[block.size]
  THEN [ok |-> FALSE, bv |-> bv]
  ELSE [ok |-> TRUE,
        bv |-> HScanWords(block, bv, opt,
                 [w \in DOMAIN block.data |->
                    HMatchesBetween(block.size, block.data[w],
                                    literal1, literal2)])]

HScanColumn(block, cmp, other, bv, opt) ==
  IF \/ bv.num # block.num
     \/ other.num # block.num
     \/ other.type # block.type
     \/ other.size # block.size
  THEN [ok |-> FALSE, bv |-> bv]
  ELSE [ok |-> TRUE,
        bv |-> HScanWords(block, bv, opt,
                 [w \in DOMAIN block.data |->
                    HMatches(cmp, block.size, block.data[w], other.data[w])])]
=============================================================================
