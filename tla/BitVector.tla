------------------------------ MODULE BitVector ------------------------------
(***************************************************************************)
(* BitVector and BitVectorBlock (bitweaving-lib/src/bitvector.cpp and      *)
(* bitvector_block.cpp): the result of a scan, one bit for each tuple, in  *)
(* blocks of kNumCodesPerBlock bits.  A block is its length and its words. *)
(***************************************************************************)
EXTENDS BitWords, SequencesExt

\* BitVectorBlock(num) and Finalize, which clears the bits past the end.
NumWords(num) == CEIL(num, kNumBitsPerWord)

\* Variant: the bits past the end stay.
FinalizeNothing(block) == block

Finalize(block) ==
  IF block.num % kNumBitsPerWord = 0 THEN block
  ELSE [block EXCEPT !.words[WordAt(block.num)] =
          {b \in @ : b >= kNumBitsPerWord - (block.num % kNumBitsPerWord)}]

FilledBlock(num, word) ==
  Finalize([num |-> num, words |-> [i \in 0..(NumWords(num) - 1) |-> word]])

\* SetZeros, SetOnes, Complement and Count of a block.
BlockSetZeros(block) == FilledBlock(block.num, {})
BlockSetOnes(block) == FilledBlock(block.num, Bits)
BlockComplement(block) ==
  Finalize([block EXCEPT !.words = [i \in DOMAIN @ |-> NOT(@[i])]])
BlockCount(block) ==
  MapThenSumSet(LAMBDA i : Cardinality(block.words[i]), DOMAIN block.words)

\* And and Or of two blocks do nothing when the lengths differ.
BlockOp(opt, block, other) ==
  IF other.num # block.num THEN block
  ELSE Finalize([block EXCEPT !.words =
         [i \in DOMAIN @ |-> Combine(opt, @[i], other.words[i])]])

BlockGetBit(block, pos) == BitAt(pos) \in block.words[WordAt(pos)]
BlockSetBit(block, pos, bit) ==
  [block EXCEPT !.words[WordAt(pos)] =
     (@ \ {BitAt(pos)}) \cup (IF bit THEN {BitAt(pos)} ELSE {})]
-----------------------------------------------------------------------------
\* The length of each of the blocks that hold num codes or bits.
BlockSizes(num) ==
  [i \in 1..CEIL(num, kNumCodesPerBlock) |->
     Min({kNumCodesPerBlock, num - (i - 1) * kNumCodesPerBlock})]

\* Variant: as long as its blocks could be.
NewBitVectorFull(num) ==
  [num |-> Len(BlockSizes(num)) * kNumCodesPerBlock,
   blocks |-> [i \in DOMAIN BlockSizes(num) |->
                 FilledBlock(BlockSizes(num)[i], Bits)]]

\* BitVector(table): one bit for each tuple the table has now, all set.
NewBitVector(num) ==
  [num |-> num,
   blocks |-> [i \in DOMAIN BlockSizes(num) |->
                 FilledBlock(BlockSizes(num)[i], Bits)]]

MapBlocks(bv, Op(_)) ==
  [bv EXCEPT !.blocks = [i \in DOMAIN @ |-> Op(@[i])]]

SetZeros(bv) == MapBlocks(bv, BlockSetZeros)
SetOnes(bv) == MapBlocks(bv, BlockSetOnes)
Complement(bv) == MapBlocks(bv, BlockComplement)
CountOnes(bv) ==
  MapThenSumSet(LAMBDA i : BlockCount(bv.blocks[i]), DOMAIN bv.blocks)

\* And and Or: the blocks of bv, with as many blocks of the other.
VectorOp(opt, bv, other) ==
  [bv EXCEPT !.blocks =
     [i \in DOMAIN @ |-> BlockOp(opt, @[i], other.blocks[i])]]

VectorBlock(pos) == pos \div kNumCodesPerBlock + 1

SetBit(bv, id, bit) ==
  IF id >= bv.num THEN bv
  ELSE [bv EXCEPT !.blocks[VectorBlock(id)] =
          BlockSetBit(@, id % kNumCodesPerBlock, bit)]

\* GetBit writes what the caller's bit happens to be into the vector.
GetBit(bv, id, bit) == SetBit(bv, id, bit)

\* toTids numbers the bits of every block from 0.
BlockTids(block) ==
  Ascending({p \in 0..(block.num - 1) : BlockGetBit(block, p)}, block.num)
toTids(bv) ==
  LET tids[i \in 0..Len(bv.blocks)] ==
        IF i = 0 THEN <<>> ELSE tids[i - 1] \o BlockTids(bv.blocks[i])
  IN  tids[Len(bv.blocks)]

\* The tuples that a vector stands for.
Selected(bv) ==
  UNION {{(i - 1) * kNumCodesPerBlock + p :
            p \in {p \in 0..(bv.blocks[i].num - 1) :
                     BlockGetBit(bv.blocks[i], p)}} : i \in DOMAIN bv.blocks}
=============================================================================
