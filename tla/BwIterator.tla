----------------------------- MODULE BwIterator -----------------------------
(***************************************************************************)
(* Iterator, BitVectorIterator and the column iterators of the library     *)
(* (bitweaving-lib/src/iterator.cpp, bitvector_iterator.cpp,               *)
(* bwv_column_iterator.cpp, bwh_column_iterator.cpp): a walk over the      *)
(* tuples that a bit vector selects, on which codes are read and written.  *)
(***************************************************************************)
EXTENDS BwTable

\* Iterator(bitvector) makes an iterator of the column of every id below the
\* maximum: it dereferences NULL when an id is free.
IteratorIsSafe(table) ==
  \A id \in 0..(GetMaxColumnId(table) - 1) : HasColumn(table, id)

\* The places of the 1-bits of a word, from the leftmost on.
Places(word) ==
  Ascending({i \in Bits : BitAt(i) \in word}, kNumBitsPerWord)

\* Variant: pushed from the leftmost on.
WordPositionsReversed(word, offset) ==
  [i \in DOMAIN Places(word) |-> offset + Reverse(Places(word))[i]]

\* The positions of the 1-bits of a word: they are pushed from the rightmost
\* on and popped from the leftmost on.
WordPositions(word, offset) ==
  [i \in DOMAIN Places(word) |-> offset + Places(word)[i]]

BlockPositions(block, offset) ==
  LET seq[w \in 0..NumWords(block.num)] ==
        IF w = 0 THEN <<>>
        ELSE seq[w - 1] \o WordPositions(block.words[w - 1],
                                         offset + (w - 1) * kNumBitsPerWord)
  IN  seq[NumWords(block.num)]

\* What GetPosition returns after each Next that returns true: a block begins
\* where the ones before it end.
Walk(bv) ==
  LET offset[i \in 0..Len(bv.blocks)] ==
        IF i = 0 THEN 0 ELSE offset[i - 1] + bv.blocks[i].num
      seq[i \in 0..Len(bv.blocks)] ==
        IF i = 0 THEN <<>>
        ELSE seq[i - 1] \o BlockPositions(bv.blocks[i], offset[i - 1])
  IN  seq[Len(bv.blocks)]
-----------------------------------------------------------------------------
\* Where a column iterator stands: the block, the segment, the place in it.
NewSeek == [last |-> 0, block |-> 1, segment |-> 0, inSegment |-> 0,
            inBlock |-> 0]

CodesPerSegment(column) ==
  IF column.type = "kBitWeavingH" THEN HCodesPerSegment(column.size)
                                  ELSE kNumBitsPerWord

\* Segments that are reached by addition: the H iterator tries the next two.
SegmentsAhead(column) == IF column.type = "kBitWeavingH" THEN 2 ELSE 0

\* Variant: the place in the block is not reduced when the block changes.
SeekKeepsPlace(column, s, id) ==
  LET cps == CodesPerSegment(column)
      inBlock == s.inBlock + id - s.last
      place == inBlock % kNumCodesPerBlock
  IN  [last |-> id,
       block |-> IF inBlock < 0 THEN 0
                 ELSE s.block + inBlock \div kNumCodesPerBlock,
       inBlock |-> inBlock, segment |-> place \div cps, inSegment |-> place % cps]

\* Seek (Seed in the V iterator) works with the distance from the last tuple.
\* Distances are unsigned: a step back within a block divides, one to a block
\* before yields a block that does not exist.
Seek(column, s, id) ==
  LET cps == CodesPerSegment(column)
      delta == id - s.last
      inBlock == s.inBlock + delta
      ahead == (delta + s.inSegment) \div cps
      place == inBlock % kNumCodesPerBlock
      near == inBlock \in 0..(kNumCodesPerBlock - 1)
      step == near /\ ahead \in 0..SegmentsAhead(column)
  IN  [last |-> id,
       block |-> IF near THEN s.block
                 ELSE IF inBlock < 0 THEN 0
                 ELSE s.block + inBlock \div kNumCodesPerBlock,
       inBlock |-> IF near THEN inBlock ELSE place,
       segment |-> IF step THEN s.segment + ahead ELSE place \div cps,
       inSegment |-> IF step THEN s.inSegment + delta - ahead * cps
                             ELSE place % cps]

\* The H iterator clears the code before it sets it.
HReplaceCode(block, pos, code) ==
  HSetCode([block EXCEPT !.data[HWordOf(block.size, pos)] =
              @ \ SHL(CodeBits(block.size), HShiftOf(block.size, pos))],
           pos, code)

\* SetCode of a column iterator that stands at s.  The V iterator sets the
\* code a second time through the column, a naive column does only that.
SetCodeAt(column, s, code) ==
  LET pos == s.segment * CodesPerSegment(column) + s.inSegment
  IN  CASE column.type = "kNaive" -> ColumnSetCode(column, s.last, code)
        [] column.type = "kBitWeavingH" ->
             [column EXCEPT !.blocks[s.block] = HReplaceCode(@, pos, code)]
        [] column.type = "kBitWeavingV" ->
             ColumnSetCode([column EXCEPT !.blocks[s.block] =
                              VSetCode(@, pos, code)], s.last, code)

\* The loop "while (iter->Next()) iter->SetCode(column, code)" over ids.  It
\* ends when a seek has left the blocks of the column.
IteratorSetCodes(column, seek, ids, code) ==
  LET Step(m, id) ==
        LET s == Seek(m.column, m.seek, id)
        IN  IF ~m.ok THEN m
            ELSE IF m.column.type # "kNaive" /\ s.block \notin DOMAIN m.column.blocks
            THEN [m EXCEPT !.ok = FALSE]
            ELSE [ok |-> TRUE, seek |-> s,
                  column |-> SetCodeAt(m.column, s, code)]
      after[i \in 0..Len(ids)] ==
        IF i = 0 THEN [ok |-> TRUE, seek |-> seek, column |-> column]
        ELSE Step(after[i - 1], ids[i])
  IN  after[Len(ids)]
=============================================================================
