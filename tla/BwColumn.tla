------------------------------ MODULE BwColumn ------------------------------
(***************************************************************************)
(* Column (bitweaving-lib/src/column.cpp): the codes of a column, in       *)
(* blocks of kNumCodesPerBlock that one of the three block classes keeps.  *)
(* A predicate is a literal, a pair of literals or a column to compare     *)
(* with; a scan of a block returns its status and what it leaves of the    *)
(* vector, that of a column only the vector, as nobody asks for its status.*)
(***************************************************************************)
EXTENDS NaiveBlock, BwVBlock, BwHBlock

\* A column of any of the three formats with codes of a few bits.
FormatOK(type, size) ==
  /\ type \in {"kNaive", "kBitWeavingH", "kBitWeavingV"}
  /\ size \in 1..(kNumBitsPerWord - 1)

\* CreateColumnBlock: junk is what the memory of a naive block holds.
CreateColumnBlock(type, size, junk) ==
  CASE type = "kNaive"       -> NewNaiveBlock(size, junk)
    [] type = "kBitWeavingH" -> NewHBlock(size)
    [] type = "kBitWeavingV" -> NewVBlock(size)

BlockResize(block, num) == [block EXCEPT !.num = num]

BlockGetCode(block, pos) ==
  CASE block.type = "kNaive"       -> NaiveGetCode(block, pos)
    [] block.type = "kBitWeavingH" -> HGetCode(block, pos)
    [] block.type = "kBitWeavingV" -> VGetCode(block, pos)

\* A position past the codes of the block is refused.
BlockSetCode(block, pos, code) ==
  IF pos >= block.num THEN block
  ELSE CASE block.type = "kNaive"       -> NaiveSetCode(block, pos, code)
         [] block.type = "kBitWeavingH" -> HSetCode(block, pos, code)
         [] block.type = "kBitWeavingV" -> VSetCode(block, pos, code)

\* Bulkload of a block: its codes from position start.
BlockBulkload(block, codes, start) ==
  LET b[i \in 0..Len(codes)] ==
        IF i = 0 THEN block
        ELSE BlockSetCode(b[i - 1], start + i - 1, codes[i])
  IN  b[Len(codes)]

BlockScanColumn(block, cmp, other, bv, opt) ==
  CASE block.type = "kNaive" ->
         NaiveScanColumn(block, cmp, other.num,
                         [p \in 0..(kNumCodesPerBlock - 1) |->
                            BlockGetCode(other, p)], bv, opt)
    [] block.type = "kBitWeavingH" -> HScanColumn(block, cmp, other, bv, opt)
    [] block.type = "kBitWeavingV" -> VScanColumn(block, cmp, other, bv, opt)

BlockScan(block, p, bv, opt) ==
  CASE p.kind = "literal" /\ block.type = "kNaive" ->
         NaiveScan(block, p.cmp, p.literal, bv, opt)
    [] p.kind = "literal" /\ block.type = "kBitWeavingH" ->
         HScan(block, p.cmp, p.literal, bv, opt)
    [] p.kind = "literal" /\ block.type = "kBitWeavingV" ->
         VScan(block, p.cmp, p.literal, bv, opt)
    [] p.kind = "between" /\ block.type = "kNaive" ->
         NaiveScanBetween(block, p.literal, p.literal2, bv, opt)
    [] p.kind = "between" /\ block.type = "kBitWeavingH" ->
         HScanBetween(block, p.literal, p.literal2, bv, opt)
    [] p.kind = "between" /\ block.type = "kBitWeavingV" ->
         VScanBetween(block, p.literal, p.literal2, bv, opt)
-----------------------------------------------------------------------------
\* Column(table, id, type, code_size), before it has the table's size.
NewColumn(id, type, size) ==
  [id |-> id, type |-> type, size |-> size, blocks |-> <<>>]

\* The block of a tuple and its place there.
BlockOf(pos) == pos \div kNumCodesPerBlock + 1
PlaceOf(pos) == pos % kNumCodesPerBlock
PlacesOf(tids) == [i \in DOMAIN tids |-> PlaceOf(tids[i])]

\* A tuple is readable when it is below the number of codes of its block.
Readable(column, pos) ==
  /\ BlockOf(pos) \in DOMAIN column.blocks
  /\ PlaceOf(pos) < column.blocks[BlockOf(pos)].num

\* A block before the last is not full, as Load leaves it of a file that ends
\* too early.
HasGap(column) == \E i \in 1..(Len(column.blocks) - 1) :
                    column.blocks[i].num # kNumCodesPerBlock

ColumnGetCode(column, pos) ==
  BlockGetCode(column.blocks[BlockOf(pos)], PlaceOf(pos))

ColumnSetCode(column, pos, code) ==
  [column EXCEPT !.blocks[BlockOf(pos)] = BlockSetCode(@, PlaceOf(pos), code)]

\* Variant: what was the last block is not filled up.
ColumnResizeLast(column, num, junk) ==
  LET wanted == CEIL(num, kNumCodesPerBlock)
      fresh == BlockResize(CreateColumnBlock(column.type, column.size, junk),
                           kNumCodesPerBlock)
      block(i) == IF i \in DOMAIN column.blocks THEN column.blocks[i] ELSE fresh
  IN  [column EXCEPT !.blocks =
         [i \in 1..wanted |->
            IF i = wanted THEN BlockResize(block(i), num % kNumCodesPerBlock)
                          ELSE block(i)]]

\* Resize: blocks are added full or dropped, and the last block gets what is
\* left of num, which is nothing when the blocks are exactly full.
ColumnResize(column, num, junk) ==
  LET wanted == CEIL(num, kNumCodesPerBlock)
      own == Len(column.blocks)
      fresh == BlockResize(CreateColumnBlock(column.type, column.size, junk),
                           kNumCodesPerBlock)
      block(i) == CASE i > own -> fresh
                    [] i = own /\ own < wanted ->
                         BlockResize(column.blocks[i], kNumCodesPerBlock)
                    [] OTHER -> column.blocks[i]
  IN  [column EXCEPT !.blocks =
         [i \in 1..wanted |->
            IF i = wanted THEN BlockResize(block(i), num % kNumCodesPerBlock)
                          ELSE block(i)]]

\* The loop of Bulkload once the table is large enough: a block takes what it
\* has room for, and the rest of the codes goes to the next one.  ok is that
\* its assertions hold: the loop stays within the blocks, and what a block is
\* given fits it.  (The room is unsigned: a block that ends before the place
\* is given everything.)
ColumnBulkload(column, codes, pos) ==
  LET place(i) == IF i = BlockOf(pos) THEN PlaceOf(pos) ELSE 0
      given(i, done) ==
        LET left == Len(codes) - done
            room == column.blocks[i].num - place(i)
        IN  IF i < BlockOf(pos) THEN 0
            ELSE IF room < 0 \/ left < room THEN left ELSE room
      done[i \in 0..Len(column.blocks)] ==
        IF i = 0 THEN 0 ELSE done[i - 1] + given(i, done[i - 1])
      size(i) == given(i, done[i - 1])
  IN  [ok |-> /\ done[Len(column.blocks)] = Len(codes)
              /\ \A i \in DOMAIN column.blocks :
                   size(i) > 0 => place(i) + size(i) <= column.blocks[i].num,
       column |-> [column EXCEPT !.blocks =
         [i \in DOMAIN @ |->
            BlockBulkload(@[i], SubSeq(codes, done[i - 1] + 1, done[i]),
                          place(i))]]]
-----------------------------------------------------------------------------
\* The loop of the scans over n blocks: ScanBlock(i, b) scans with block i of
\* the column into block b of the vector, if the column HasBlock i.  The first
\* refusal ends it, and without a block all codes are NULL.
OverBlocks(n, bv, opt, HasBlock(_), ScanBlock(_, _)) ==
  LET refuses(i) == HasBlock(i) /\ ~ScanBlock(i, bv.blocks[i]).ok
      reached(i) == i <= n /\ \A j \in 1..(i - 1) : ~refuses(j)
  IN  [bv EXCEPT !.blocks =
         [i \in DOMAIN @ |->
            CASE reached(i) /\ HasBlock(i)  -> ScanBlock(i, @[i]).bv
              [] reached(i) /\ ~HasBlock(i) -> IF opt = "kOr" THEN @[i]
                                               ELSE BlockSetZeros(@[i])
              [] ~reached(i) -> @[i]]]

\* Scan with a literal, Scan_between: over the blocks of the vector.
ColumnScan(column, p, opt, bv) ==
  OverBlocks(Len(bv.blocks), bv, opt, LAMBDA i : i \in DOMAIN column.blocks,
             LAMBDA i, b : BlockScan(column.blocks[i], p, b, opt))

\* Scan with another column: over the blocks of this one.
ColumnScanColumn(column, cmp, other, opt, bv) ==
  OverBlocks(Len(column.blocks), bv, opt,
             LAMBDA i : i \in DOMAIN column.blocks \cap DOMAIN other.blocks,
             LAMBDA i, b : BlockScanColumn(column.blocks[i], cmp,
                                           other.blocks[i], b, opt))
=============================================================================
