------------------------------ MODULE BwVBlock ------------------------------
(***************************************************************************)
(* BwVColumnBlock (bitweaving-lib/src/bwv_column_block.cpp), BitWeaving/V: *)
(* a word holds one bit of as many codes as it has bits, the words of      *)
(* kNumBitsPerGroup bits of a code lie together, and what remains of a     *)
(* code is in a last group of its own.  Bit 0 is the first, the highest.   *)
(***************************************************************************)
EXTENDS BitVector

VFullGroups(size) == size \div kNumBitsPerGroup
VBitsOfGroup(size, group) ==
  IF group < VFullGroups(size) THEN kNumBitsPerGroup
  ELSE size % kNumBitsPerGroup

VSegments == kNumCodesPerBlock \div kNumBitsPerWord

NewVBlock(size) ==
  [type |-> "kBitWeavingV", size |-> size, num |-> 0,
   data |-> [group \in 0..(CEIL(size, kNumBitsPerGroup) - 1) |->
               [w \in 0..(VSegments * VBitsOfGroup(size, group) - 1) |-> {}]]]

\* Where bit i of the codes of a segment is.
VGroupOf(i) == i \div kNumBitsPerGroup
VWordOf(size, segment, i) ==
  segment * VBitsOfGroup(size, VGroupOf(i)) + (i % kNumBitsPerGroup)
VWord(block, segment, i) ==
  block.data[VGroupOf(i)][VWordOf(block.size, segment, i)]

CodeBit(size, code, i) == i \in Ones(size, code)

VGetCode(block, pos) ==
  Number(block.size, {i \in 0..(block.size - 1) :
                        BitAt(pos) \in VWord(block, WordAt(pos), i)})

\* Variant: the bit is set and never cleared.
VSetCodeOnly(block, pos, code) ==
  [block EXCEPT !.data =
     [group \in DOMAIN @ |->
        LET bits == VBitsOfGroup(block.size, group)
        IN  [w \in DOMAIN @[group] |->
               IF /\ w \div bits = WordAt(pos)
                  /\ CodeBit(block.size, code,
                             group * kNumBitsPerGroup + (w % bits))
               THEN @[group][w] \cup {BitAt(pos)} ELSE @[group][w]]]]

\* SetCode clears the bit of each word and sets it to the bit of the code.
VSetCode(block, pos, code) ==
  LET written(i, word) ==
        IF CodeBit(block.size, code, i) THEN word \cup {BitAt(pos)}
                                        ELSE word \ {BitAt(pos)}
  IN  [block EXCEPT !.data =
         [group \in DOMAIN @ |->
            LET bits == VBitsOfGroup(block.size, group)
            IN  [w \in DOMAIN @[group] |->
                   IF w \div bits = WordAt(pos)
                   THEN written(group * kNumBitsPerGroup + (w % bits),
                                @[group][w])
                   ELSE @[group][w]]]]
-----------------------------------------------------------------------------
\* The bits of a code group by group, the last group last.
VGroups(size) ==
  [group \in 1..CEIL(size, kNumBitsPerGroup) |->
     [i \in 1..VBitsOfGroup(size, group - 1) |->
        (group - 1) * kNumBitsPerGroup + i - 1]]

\* The scans go on to the next group only while the outcome is open.
VOverGroups(size, masks, Open(_), Iteration(_, _)) ==
  FoldLeft(LAMBDA m, group : IF Open(m) THEN FoldLeft(Iteration, m, group)
                             ELSE m,
           masks, VGroups(size))

\* Only codes whose bit in the vector can still change are compared.
VInitialMask(opt, old) ==
  CASE opt = "kSet" -> Bits
    [] opt = "kAnd" -> old
    [] opt = "kOr"  -> NOT(old)

\* ScanIteration: bit i of a segment's codes, mine, against other.
VIteration(m, mine, other) ==
  [equal   |-> m.equal \cap NOT(XOR(mine, other)),
   less    |-> m.less \cup (m.equal \cap NOT(mine) \cap other),
   greater |-> m.greater \cup (m.equal \cap mine \cap NOT(other))]

VResult(cmp, m) ==
  CASE cmp = "kEqual"        -> m.equal
    [] cmp = "kInequal"      -> NOT(m.equal)
    [] cmp = "kGreater"      -> m.greater
    [] cmp = "kLess"         -> m.less
    [] cmp = "kGreaterEqual" -> m.greater \cup m.equal
    [] cmp = "kLessEqual"    -> m.less \cup m.equal

\* ScanHelper2: every segment against the words others[segment][bit].
VScanWords(block, cmp, others, bv, opt) ==
  LET found(segment, old) ==
        VResult(cmp, VOverGroups(block.size,
          [equal |-> VInitialMask(opt, old), less |-> {}, greater |-> {}],
          LAMBDA m : m.equal # {},
          LAMBDA m, i : VIteration(m, VWord(block, segment, i),
                                   others[segment][i])))
  IN  Finalize([bv EXCEPT !.words =
        [s \in DOMAIN @ |-> Combine(opt, @[s], found(s, @[s]))]])

VLiteralWord(size, literal, i) ==
  IF CodeBit(size, literal, i) THEN Bits ELSE {}

VScan(block, cmp, literal, bv, opt) ==
  IF bv.num # block.num \/ literal >= Pow2[block.size] THEN [ok |-> FALSE, bv |-> bv]
  ELSE [ok |-> TRUE,
        bv |-> VScanWords(block, cmp,
                 [segment \in DOMAIN bv.words |->
                    [i \in 0..(block.size - 1) |->
                       VLiteralWord(block.size, literal, i)]],
                 bv, opt)]

VScanColumn(block, cmp, other, bv, opt) ==
  IF \/ bv.num # block.num
     \/ other.num # block.num
     \/ other.type # block.type
     \/ other.size # block.size
  THEN [ok |-> FALSE, bv |-> bv]
  ELSE [ok |-> TRUE,
        bv |-> VScanWords(block, cmp,
                 [segment \in DOMAIN bv.words |->
                    [i \in 0..(block.size - 1) |->
                       VWord(other, segment, i)]], bv, opt)]

\* ScanIteration_between compares with both bounds in one pass.
VIterationBetween(m, mine, low, high) ==
  [equal1  |-> m.equal1 \cap NOT(XOR(mine, low)),
   equal2  |-> m.equal2 \cap NOT(XOR(mine, high)),
   less    |-> m.less \cup (m.equal2 \cap NOT(mine) \cap high),
   greater |-> m.greater \cup (m.equal1 \cap mine \cap NOT(low))]

VScanBetween(block, literal1, literal2, bv, opt) ==
  LET found(segment, old) ==
        LET m == VOverGroups(block.size,
                   [equal1 |-> VInitialMask(opt, old), less |-> {},
                    equal2 |-> VInitialMask(opt, old), greater |-> {}],
                   LAMBDA n : n.equal1 # {} \/ n.equal2 # {},
                   LAMBDA n, i : VIterationBetween(n,
                     VWord(block, segment, i),
                     VLiteralWord(block.size, literal1, i),
                     VLiteralWord(block.size, literal2, i)))
        IN  (m.less \cup m.equal2) \cap (m.equal1 \cup m.greater)
  IN  IF \/ bv.num # block.num
         \/ literal1 >= Pow2[block.size]
         \/ literal2 >= Pow2[block.size]
      THEN [ok |-> FALSE, bv |-> bv]
      ELSE [ok |-> TRUE,
            bv |-> Finalize([bv EXCEPT !.words =
                     [s \in DOMAIN @ |-> Combine(opt, @[s], found(s, @[s]))]])]
=============================================================================
