-------------------------- MODULE BwLibraryProofs --------------------------
(***************************************************************************)
(* The blocks, columns, iterators and bit vectors of the BitWeaving        *)
(* library.  First the shape of a block of each format, words and numbers, *)
(* the code that is read at a place after SetCode and Bulkload in each     *)
(* format, and what Resize, SetCode and Bulkload of a column do to the     *)
(* code of every tuple.  Then writing codes through a column iterator, the *)
(* walk of an iterator over a vector, and that the scans, inversions and   *)
(* merges of a vector keep its shape and leave no bit past its end.        *)
(***************************************************************************)
EXTENDS BitWeavingIndex, SequenceTheorems, FiniteSetTheorems,
        WellFoundedInduction, TLAPS

\* Every set of numbers has a least member.
LEMMA LeastNumber ==
  ASSUME NEW S \in SUBSET Nat, S # {}
  PROVE  \E m \in S : \A k \in S : m <= k
<1>1. PICK m \in S : \A k \in S : ~(<<k, m>> \in OpToRel(<, Nat))
  BY NatLessThanWellFounded, WFMin, Zenon
<1>2. ASSUME NEW k \in S
      PROVE  m <= k
  <2>1. ~(k < m)
    BY <1>1, Zenon DEF OpToRel
  <2>2. k \in Nat /\ m \in Nat
    OBVIOUS
  <2>3. QED
    BY <2>1, <2>2
<1>3. QED
  BY <1>2

\* Induction, for a set of numbers.
LEMMA Induction ==
  ASSUME NEW S, 0 \in S, \A n \in Nat : n \in S => n + 1 \in S
  PROVE  \A n \in Nat : n \in S
<1> DEFINE Rest == {n \in Nat : n \notin S}
<1> SUFFICES ASSUME Rest # {} PROVE FALSE
  OBVIOUS
<1>1. PICK m \in Rest : \A k \in Rest : m <= k
  BY LeastNumber
<1>2. m \in Nat /\ m # 0 /\ m - 1 \in Nat /\ m - 1 \notin Rest
  BY <1>1
<1>3. (m - 1) + 1 \in S
  BY <1>2
<1>4. QED
  BY <1>1, <1>2, <1>3

\* Division with remainder.
LEMMA DivMod ==
  ASSUME NEW x \in Nat, NEW y \in Nat \ {0}
  PROVE  /\ x \div y \in Nat /\ x % y \in 0..(y - 1)
         /\ x = y * (x \div y) + (x % y)
  OBVIOUS

\* A quotient and a remainder are those of one number.
LEMMA DivModUnique ==
  ASSUME NEW y \in Nat \ {0}, NEW q \in Nat, NEW r \in 0..(y - 1)
  PROVE  (q * y + r) \div y = q /\ (q * y + r) % y = r
  OBVIOUS

\* The same of a number that has another name.
LEMMA QuotientOf ==
  ASSUME NEW w, NEW y \in Nat \ {0}, NEW q \in Nat, NEW r \in 0..(y - 1),
         w = q * y + r
  PROVE  w \div y = q /\ w % y = r
  BY DivModUnique

\* CEIL rounds a quotient up.
LEMMA CeilBounds ==
  ASSUME NEW x \in Nat, NEW y \in Nat \ {0}
  PROVE  /\ CEIL(x, y) \in Nat
         /\ x <= CEIL(x, y) * y
         /\ x > 0 => CEIL(x, y) > 0 /\ (CEIL(x, y) - 1) * y < x
         /\ CEIL(0, y) = 0
  BY DEF CEIL

-----------------------------------------------------------------------------
(* Blocks: their shape, and what the operations keep. *)

\* The data of a block of each format.
DataOK(type, size, data) ==
  /\ type = "kNaive" => data \in [0..(kNumCodesPerBlock - 1) -> Nat]
  /\ type = "kBitWeavingH" =>
       data \in [0..(HSegments(kNumCodesPerBlock, size)
                       * HWordsPerSegment(size) - 1) -> Word]
  /\ type = "kBitWeavingV" =>
       /\ data = [g \in 0..(CEIL(size, kNumBitsPerGroup) - 1) |-> data[g]]
       /\ \A g \in 0..(CEIL(size, kNumBitsPerGroup) - 1) :
            data[g] \in [0..(VSegments * VBitsOfGroup(size, g) - 1) -> Word]

BlockOK(b, type, size) ==
  /\ b = [type |-> type, size |-> size, num |-> b.num, data |-> b.data]
  /\ b.num \in 0..kNumCodesPerBlock
  /\ DataOK(type, size, b.data)

\* The data of a block can be replaced by data of its shape.
LEMMA WithData ==
  ASSUME NEW type, NEW size, NEW b, BlockOK(b, type, size),
         NEW d, DataOK(type, size, d)
  PROVE  /\ BlockOK([b EXCEPT !.data = d], type, size)
         /\ [b EXCEPT !.data = d].num = b.num
         /\ [b EXCEPT !.data = d].data = d
  BY DEF BlockOK

\* A new block has the shape of its format.
LEMMA NewBlockOK ==
  ASSUME NEW type, NEW size, FormatOK(type, size), NEW junk \in Nat
  PROVE  /\ BlockOK(CreateColumnBlock(type, size, junk), type, size)
         /\ CreateColumnBlock(type, size, junk).num = 0
<1> DEFINE b == CreateColumnBlock(type, size, junk)
<1>1. CASE type = "kNaive"
  <2>1. b = NewNaiveBlock(size, junk)
    BY <1>1 DEF CreateColumnBlock
  <2>2. QED
    BY <1>1, <2>1, BitWordsAssumption DEF NewNaiveBlock, BlockOK, DataOK
<1>2. CASE type = "kBitWeavingH"
  <2>1. b = NewHBlock(size)
    BY <1>2 DEF CreateColumnBlock
  <2>2. DataOK(type, size, b.data)
    BY <1>2, <2>1 DEF NewHBlock, DataOK, Word
  <2>3. QED
    BY <1>2, <2>1, <2>2, BitWordsAssumption DEF NewHBlock, BlockOK
<1>3. CASE type = "kBitWeavingV"
  <2>1. b = NewVBlock(size)
    BY <1>3 DEF CreateColumnBlock
  <2> DEFINE d == [group \in 0..(CEIL(size, kNumBitsPerGroup) - 1) |->
               [w \in 0..(VSegments * VBitsOfGroup(size, group) - 1) |-> {}]]
  <2>2. b = [type |-> type, size |-> size, num |-> 0, data |-> d]
    BY <1>3, <2>1 DEF NewVBlock
  <2>3. DataOK(type, size, d)
    BY <1>3 DEF DataOK, Word
  <2> HIDE DEF d, b
  <2>4. QED
    BY <2>2, <2>3, BitWordsAssumption DEF BlockOK, b
<1>4. QED
  BY <1>1, <1>2, <1>3 DEF FormatOK

\* A block that is resized keeps its data.
LEMMA ResizedBlockOK ==
  ASSUME NEW type, NEW size, NEW b, BlockOK(b, type, size),
         NEW num \in 0..kNumCodesPerBlock
  PROVE  /\ BlockOK(BlockResize(b, num), type, size)
         /\ BlockResize(b, num).num = num
         /\ BlockResize(b, num).data = b.data
  BY DEF BlockOK, BlockResize

\* Setting a code keeps the shape of the data.
LEMMA VSetDataOK ==
  ASSUME NEW size, NEW b, BlockOK(b, "kBitWeavingV", size),
         NEW pos \in Nat, NEW code
  PROVE  BlockOK(VSetCode(b, pos, code), "kBitWeavingV", size) /\ VSetCode(b, pos, code).num = b.num
<1> DEFINE written(i, word) ==
             IF CodeBit(b.size, code, i) THEN word \cup {BitAt(pos)}
                                         ELSE word \ {BitAt(pos)}
           d == [group \in DOMAIN b.data |->
            LET bits == VBitsOfGroup(b.size, group)
            IN  [w \in DOMAIN b.data[group] |->
                   IF w \div bits = WordAt(pos)
                   THEN written(group * kNumBitsPerGroup + (w % bits),
                                b.data[group][w])
                   ELSE b.data[group][w]]]
<1>1. VSetCode(b, pos, code) = [b EXCEPT !.data = d]
  BY DEF VSetCode
<1>2. BitAt(pos) \in Bits
  BY BitWordsAssumption DEF BitAt, Bits
<1>3. ASSUME NEW i, NEW word \in Word
      PROVE  written(i, word) \in Word
  BY <1>2 DEF Word
<1> HIDE DEF written
<1>4. DataOK("kBitWeavingV", size, b.data)
  BY DEF BlockOK
<1>5. DataOK("kBitWeavingV", size, d)
  BY <1>3, <1>4 DEF DataOK
<1> HIDE DEF d
<1>6. QED
  BY <1>1, <1>5, WithData

\* Setting a code keeps the shape of a block and its length.
LEMMA SetBlockOK ==
  ASSUME NEW type, NEW size, FormatOK(type, size),
         NEW b, BlockOK(b, type, size),
         NEW pos \in Nat, NEW code \in Nat
  PROVE  /\ BlockOK(BlockSetCode(b, pos, code), type, size)
         /\ BlockSetCode(b, pos, code).num = b.num
<1> DEFINE new == BlockSetCode(b, pos, code)
<1>0. b.type = type /\ DataOK(type, size, b.data)
  BY DEF BlockOK
<1>1. CASE pos >= b.num
  BY <1>1 DEF BlockSetCode
<1>2. CASE ~(pos >= b.num) /\ type = "kNaive"
  <2>1. new = NaiveSetCode(b, pos, code)
    BY <1>0, <1>2 DEF BlockSetCode
  <2>2. DataOK(type, size, [b.data EXCEPT ![pos] = code])
    BY <1>0, <1>2 DEF DataOK, BlockOK
  <2>3. QED
    BY <2>1, <2>2, WithData DEF NaiveSetCode
<1>3. CASE ~(pos >= b.num) /\ type = "kBitWeavingH"
  <2> DEFINE i == HWordOf(b.size, pos)
             w == b.data[i] \cup SHL(WordOf[code], HShiftOf(b.size, pos))
             d == [b.data EXCEPT ![i] = w]
  <2>0. new = HSetCode(b, pos, code)
    BY <1>0, <1>3 DEF BlockSetCode
  <2>1. new = [b EXCEPT !.data = d]
    BY <2>0 DEF HSetCode
  <2> SUFFICES DataOK(type, size, d)
    <3> HIDE DEF d
    <3>1. QED
      BY <2>1, WithData
  <2>2. CASE i \in DOMAIN b.data
    <3>1. w \in Word
      BY <1>0, <1>3, <2>2 DEF DataOK, Word, SHL
    <3> HIDE DEF w
    <3>2. QED
      BY <1>0, <1>3, <3>1 DEF DataOK
  <2>3. CASE i \notin DOMAIN b.data
    <3> HIDE DEF w
    <3>1. d = b.data
      BY <1>0, <1>3, <2>3 DEF DataOK
    <3>2. QED
      BY <1>0, <3>1
  <2>4. QED
    BY <2>2, <2>3
<1>4. CASE ~(pos >= b.num) /\ type = "kBitWeavingV"
  <2>1. new = VSetCode(b, pos, code)
    BY <1>0, <1>4 DEF BlockSetCode
  <2>2. QED
    BY <1>4, <2>1, VSetDataOK
<1>5. QED
  BY <1>1, <1>2, <1>3, <1>4 DEF FormatOK

\* The loop of Bulkload, step by step: f[i] is the block after i codes.
BulkloadRun(f, block, codes, start) ==
  /\ f[0] = block
  /\ \A i \in 1..Len(codes) :
       f[i] = BlockSetCode(f[i - 1], start + i - 1, codes[i])
  /\ BlockBulkload(block, codes, start) = f[Len(codes)]

\* Bulkload of a block sets one code after the other.
LEMMA BulkloadSteps ==
  ASSUME NEW block, NEW codes, NEW start, Len(codes) \in Nat
  PROVE  \E f : BulkloadRun(f, block, codes, start)
<1> DEFINE Val(f, i) == IF i = 0 THEN block
                        ELSE BlockSetCode(f[i - 1], start + i - 1, codes[i])
           Is(f, n) == f = [i \in 0..n |-> Val(f, i)]
           S == {n \in Nat : \E f : Is(f, n)}
<1>1. 0 \in S
  <2>1. Is([i \in 0..0 |-> block], 0)
    OBVIOUS
  <2>2. QED
    BY <2>1
<1>2. ASSUME NEW n \in Nat, n \in S
      PROVE  n + 1 \in S
  <2>1. PICK f : Is(f, n)
    BY <1>2
  <2> DEFINE g == [i \in 0..(n + 1) |-> Val(f, i)]
  <2>2. \A i \in 0..n : g[i] = f[i]
    BY <2>1
  <2>3. \A i \in 0..(n + 1) : Val(g, i) = Val(f, i)
    <3> HIDE DEF g
    <3>1. QED
      BY <2>2
  <2>4. Is(g, n + 1)
    <3> HIDE DEF Val
    <3>1. QED
      BY <2>3
  <2> HIDE DEF Is, g
  <2>5. QED
    BY <2>4
<1>3. \A n \in Nat : n \in S
  <2> HIDE DEF S
  <2>1. QED
    BY <1>1, <1>2, Induction
<1>4. PICK e : Is(e, Len(codes))
  BY <1>3
<1> DEFINE b == CHOOSE b : Is(b, Len(codes))
<1>5. Is(b, Len(codes))
  BY <1>4, Zenon
<1>6. BlockBulkload(block, codes, start) = b[Len(codes)]
  BY DEF BlockBulkload
<1> HIDE DEF b
<1>7. /\ b[0] = block
      /\ \A i \in 1..Len(codes) :
           b[i] = BlockSetCode(b[i - 1], start + i - 1, codes[i])
  BY <1>5
<1>8. QED
  BY <1>6, <1>7 DEF BulkloadRun

\* A sequence of codes.
CodesOK(codes) ==
  Len(codes) \in Nat /\ \A i \in 1..Len(codes) : codes[i] \in Nat

\* Bulkload keeps the shape of a block and its length.
LEMMA BulkloadBlockOK ==
  ASSUME NEW type, NEW size, FormatOK(type, size),
         NEW first, BlockOK(first, type, size),
         NEW codes, CodesOK(codes), NEW start \in Nat
  PROVE  /\ BlockOK(BlockBulkload(first, codes, start), type, size)
         /\ BlockBulkload(first, codes, start).num = first.num
<1>1. PICK f : BulkloadRun(f, first, codes, start)
  BY BulkloadSteps DEF CodesOK
<1> DEFINE S == {i \in Nat : i <= Len(codes) =>
                   BlockOK(f[i], type, size) /\ f[i].num = first.num}
<1>2. 0 \in S
  BY <1>1 DEF BulkloadRun
<1>3. ASSUME NEW i \in Nat, i \in S
      PROVE  i + 1 \in S
  <2> DEFINE p == start + (i + 1) - 1
             c == codes[i + 1]
             e == f[i]
             n == f[i + 1]
  <2>1. CASE i + 1 <= Len(codes)
    <3>1. BlockOK(e, type, size) /\ e.num = first.num
      BY <1>3, <2>1 DEF CodesOK
    <3>2. p \in Nat /\ c \in Nat
      BY <2>1 DEF CodesOK
    <3>3. n = BlockSetCode(e, p, c)
      BY <1>1, <2>1 DEF BulkloadRun, CodesOK
    <3> HIDE DEF p, c, e, S, n
    <3>4. BlockOK(BlockSetCode(e, p, c), type, size)
      BY <3>1, <3>2, SetBlockOK
    <3>5. BlockSetCode(e, p, c).num = e.num
      BY <3>1, <3>2, SetBlockOK
    <3>6. BlockOK(n, type, size) /\ n.num = first.num
      BY <3>1, <3>3, <3>4, <3>5
    <3>7. QED
      BY <3>6 DEF n, S
  <2>2. CASE ~(i + 1 <= Len(codes))
    BY <2>2
  <2>3. QED
    BY <2>1, <2>2
<1>4. \A i \in Nat : i \in S
  <2> HIDE DEF S
  <2>1. QED
    BY <1>2, <1>3, Induction
<1>5. QED
  BY <1>1, <1>4 DEF BulkloadRun, CodesOK

\* The powers of two, step by step.
LEMMA PowerSteps ==
  Pow2 = [n \in 0..kNumBitsPerWord |-> IF n = 0 THEN 1 ELSE 2 * Pow2[n - 1]]
<1> DEFINE Val(f, i) == IF i = 0 THEN 1
                        ELSE 2 * f[i - 1]
           Is(f, n) == f = [i \in 0..n |-> Val(f, i)]
           S == {n \in Nat : \E f : Is(f, n)}
<1>1. 0 \in S
  <2>1. Is([i \in 0..0 |-> 1], 0)
    OBVIOUS
  <2>2. QED
    BY <2>1
<1>2. ASSUME NEW n \in Nat, n \in S
      PROVE  n + 1 \in S
  <2>1. PICK f : Is(f, n)
    BY <1>2
  <2> DEFINE g == [i \in 0..(n + 1) |-> Val(f, i)]
  <2>2. \A i \in 0..n : g[i] = f[i]
    BY <2>1
  <2>3. \A i \in 0..(n + 1) : Val(g, i) = Val(f, i)
    <3> HIDE DEF g
    <3>1. QED
      BY <2>2
  <2>4. Is(g, n + 1)
    <3> HIDE DEF Val
    <3>1. QED
      BY <2>3
  <2> HIDE DEF Is, g
  <2>5. QED
    BY <2>4
<1>3. \A n \in Nat : n \in S
  <2> HIDE DEF S
  <2>1. QED
    BY <1>1, <1>2, Induction
<1>4. PICK e : Is(e, kNumBitsPerWord)
  BY <1>3, BitWordsAssumption
<1>5. Is(CHOOSE f : Is(f, kNumBitsPerWord), kNumBitsPerWord)
  BY <1>4, Zenon
<1>6. QED
  BY <1>5 DEF Pow2

\* Shifts to the right, step by step.
LEMMA HalvingSteps ==
  ASSUME NEW number
  PROVE  Halvings(number)
           = [k \in 0..kNumBitsPerWord |->
                IF k = 0 THEN number ELSE Halvings(number)[k - 1] \div 2]
<1> DEFINE Val(f, i) == IF i = 0 THEN number
                        ELSE f[i - 1] \div 2
           Is(f, n) == f = [i \in 0..n |-> Val(f, i)]
           S == {n \in Nat : \E f : Is(f, n)}
<1>1. 0 \in S
  <2>1. Is([i \in 0..0 |-> number], 0)
    OBVIOUS
  <2>2. QED
    BY <2>1
<1>2. ASSUME NEW n \in Nat, n \in S
      PROVE  n + 1 \in S
  <2>1. PICK f : Is(f, n)
    BY <1>2
  <2> DEFINE g == [i \in 0..(n + 1) |-> Val(f, i)]
  <2>2. \A i \in 0..n : g[i] = f[i]
    BY <2>1
  <2>3. \A i \in 0..(n + 1) : Val(g, i) = Val(f, i)
    <3> HIDE DEF g
    <3>1. QED
      BY <2>2
  <2>4. Is(g, n + 1)
    <3> HIDE DEF Val
    <3>1. QED
      BY <2>3
  <2> HIDE DEF Is, g
  <2>5. QED
    BY <2>4
<1>3. \A n \in Nat : n \in S
  <2> HIDE DEF S
  <2>1. QED
    BY <1>1, <1>2, Induction
<1>4. PICK e : Is(e, kNumBitsPerWord)
  BY <1>3, BitWordsAssumption
<1>5. Is(CHOOSE f : Is(f, kNumBitsPerWord), kNumBitsPerWord)
  BY <1>4, Zenon
<1>6. QED
  BY <1>5 DEF Halvings

\* Shifts to the left, step by step.
LEMMA ShiftedInSteps ==
  ASSUME NEW ones
  PROVE  ShiftedIn(ones)
           = [k \in 0..kNumBitsPerWord |->
                IF k = 0 THEN 0
                ELSE 2 * ShiftedIn(ones)[k - 1]
                       + (IF k - 1 \in ones THEN 1 ELSE 0)]
<1> DEFINE Val(f, i) == IF i = 0 THEN 0
                        ELSE 2 * f[i - 1] + (IF i - 1 \in ones THEN 1 ELSE 0)
           Is(f, n) == f = [i \in 0..n |-> Val(f, i)]
           S == {n \in Nat : \E f : Is(f, n)}
<1>1. 0 \in S
  <2>1. Is([i \in 0..0 |-> 0], 0)
    OBVIOUS
  <2>2. QED
    BY <2>1
<1>2. ASSUME NEW n \in Nat, n \in S
      PROVE  n + 1 \in S
  <2>1. PICK f : Is(f, n)
    BY <1>2
  <2> DEFINE g == [i \in 0..(n + 1) |-> Val(f, i)]
  <2>2. \A i \in 0..n : g[i] = f[i]
    BY <2>1
  <2>3. \A i \in 0..(n + 1) : Val(g, i) = Val(f, i)
    <3> HIDE DEF g
    <3>1. QED
      BY <2>2
  <2>4. Is(g, n + 1)
    <3> HIDE DEF Val
    <3>1. QED
      BY <2>3
  <2> HIDE DEF Is, g
  <2>5. QED
    BY <2>4
<1>3. \A n \in Nat : n \in S
  <2> HIDE DEF S
  <2>1. QED
    BY <1>1, <1>2, Induction
<1>4. PICK e : Is(e, kNumBitsPerWord)
  BY <1>3, BitWordsAssumption
<1>5. Is(CHOOSE f : Is(f, kNumBitsPerWord), kNumBitsPerWord)
  BY <1>4, Zenon
<1>6. QED
  BY <1>5 DEF ShiftedIn

\* The powers of 2 up to that of a word.
LEMMA Powers ==
  /\ Pow2[0] = 1
  /\ \A k \in 0..kNumBitsPerWord : Pow2[k] \in Nat \ {0}
  /\ \A k \in 0..(kNumBitsPerWord - 1) : Pow2[k + 1] = 2 * Pow2[k]
<1>1. Pow2[0] = 1
  BY PowerSteps, BitWordsAssumption
<1>2. ASSUME NEW k \in 0..(kNumBitsPerWord - 1)
      PROVE  Pow2[k + 1] = 2 * Pow2[k]
  BY PowerSteps, BitWordsAssumption
<1> DEFINE S == {k \in Nat : k <= kNumBitsPerWord => Pow2[k] \in Nat \ {0}}
<1>3. 0 \in S
  BY <1>1
<1>4. ASSUME NEW k \in Nat, k \in S
      PROVE  k + 1 \in S
  BY <1>2, <1>4, BitWordsAssumption
<1>5. \A k \in Nat : k \in S
  <2> HIDE DEF S
  <2>1. QED
    BY <1>3, <1>4, Induction
<1>6. QED
  BY <1>1, <1>2, <1>5, BitWordsAssumption

\* A number that is halved again and again.
LEMMA HalvingsOf ==
  ASSUME NEW number \in Nat
  PROVE  /\ Halvings(number)[0] = number
         /\ \A k \in 0..kNumBitsPerWord : Halvings(number)[k] \in Nat
         /\ \A k \in 0..(kNumBitsPerWord - 1) :
              Halvings(number)[k + 1] = Halvings(number)[k] \div 2
<1> DEFINE h == Halvings(number)
<1>0. h = [k \in 0..kNumBitsPerWord |-> IF k = 0 THEN number ELSE h[k - 1] \div 2]
  BY HalvingSteps
<1> HIDE DEF h
<1>1. h[0] = number
  BY <1>0, BitWordsAssumption
<1>2. ASSUME NEW k \in 0..(kNumBitsPerWord - 1)
      PROVE  h[k + 1] = h[k] \div 2
  BY <1>0, BitWordsAssumption
<1> DEFINE S == {k \in Nat : k <= kNumBitsPerWord => h[k] \in Nat}
<1>3. 0 \in S
  BY <1>1
<1>4. ASSUME NEW k \in Nat, k \in S
      PROVE  k + 1 \in S
  BY <1>2, <1>4, BitWordsAssumption
<1>5. \A k \in Nat : k \in S
  <2> HIDE DEF S
  <2>1. QED
    BY <1>3, <1>4, Induction
<1>6. QED
  BY <1>1, <1>2, <1>5, BitWordsAssumption DEF h

\* A number that bits are shifted into, one after the other.
LEMMA ShiftedInOf ==
  ASSUME NEW ones
  PROVE  /\ ShiftedIn(ones)[0] = 0
         /\ \A k \in 0..kNumBitsPerWord : ShiftedIn(ones)[k] \in Nat
         /\ \A k \in 0..(kNumBitsPerWord - 1) :
              ShiftedIn(ones)[k + 1]
                = 2 * ShiftedIn(ones)[k] + (IF k \in ones THEN 1 ELSE 0)
<1> DEFINE v == ShiftedIn(ones)
<1>0. v = [k \in 0..kNumBitsPerWord |->
             IF k = 0 THEN 0
             ELSE 2 * v[k - 1] + (IF k - 1 \in ones THEN 1 ELSE 0)]
  BY ShiftedInSteps
<1> HIDE DEF v
<1>1. v[0] = 0
  BY <1>0, BitWordsAssumption
<1>2. ASSUME NEW k \in 0..(kNumBitsPerWord - 1)
      PROVE  v[k + 1] = 2 * v[k] + (IF k \in ones THEN 1 ELSE 0)
  <2>1. k + 1 \in 0..kNumBitsPerWord /\ k + 1 # 0 /\ (k + 1) - 1 = k
    BY BitWordsAssumption
  <2>2. QED
    BY <1>0, <2>1
<1> DEFINE S == {k \in Nat : k <= kNumBitsPerWord => v[k] \in Nat}
<1>3. 0 \in S
  BY <1>1
<1>4. ASSUME NEW k \in Nat, k \in S
      PROVE  k + 1 \in S
  BY <1>2, <1>4, BitWordsAssumption
<1>5. \A k \in Nat : k \in S
  <2> HIDE DEF S
  <2>1. QED
    BY <1>3, <1>4, Induction
<1>6. QED
  BY <1>1, <1>2, <1>5, BitWordsAssumption DEF v

\* A number of n bits is 0 after n shifts.
LEMMA HalvingsEnd ==
  ASSUME NEW n \in 0..kNumBitsPerWord, NEW number \in Nat, number < Pow2[n]
  PROVE  \A k \in n..kNumBitsPerWord : Halvings(number)[k] = 0
<1> DEFINE h == Halvings(number)
           S == {k \in Nat : k <= n => h[k] < Pow2[n - k]}
<1>0. /\ h[0] = number
      /\ \A k \in 0..kNumBitsPerWord : h[k] \in Nat
      /\ \A k \in 0..(kNumBitsPerWord - 1) : h[k + 1] = h[k] \div 2
  BY HalvingsOf
<1> HIDE DEF h
<1>1. 0 \in S
  BY <1>0
<1>2. ASSUME NEW k \in Nat, k \in S
      PROVE  k + 1 \in S
  <2> SUFFICES ASSUME k + 1 <= n
               PROVE  h[k + 1] < Pow2[n - (k + 1)]
    OBVIOUS
  <2> DEFINE m == n - (k + 1)
  <2>1. m \in 0..(kNumBitsPerWord - 1) /\ n - k = m + 1
    BY BitWordsAssumption
  <2>3a. h[k] < Pow2[m + 1]
    BY <1>2, <2>1
  <2> HIDE DEF m
  <2>2. Pow2[m + 1] = 2 * Pow2[m] /\ Pow2[m] \in Nat
    BY <2>1, Powers, BitWordsAssumption
  <2>3. h[k] < 2 * Pow2[m]
    BY <2>3a, <2>2
  <2>4. h[k] \in Nat /\ h[k + 1] = h[k] \div 2
    BY <1>0, BitWordsAssumption
  <2>5. QED
    BY <2>2, <2>3, <2>4 DEF m
<1>3. \A k \in Nat : k \in S
  <2> HIDE DEF S
  <2>1. QED
    BY <1>1, <1>2, Induction
<1>4. h[n] = 0
  <2>1. n \in Nat /\ n \in S /\ n - n = 0
    BY <1>3
  <2>2. h[n] < Pow2[0]
    BY <2>1
  <2>3. QED
    BY <2>2, <1>0, Powers
<1> DEFINE T == {k \in Nat : n + k <= kNumBitsPerWord => h[n + k] = 0}
<1>5. 0 \in T
  BY <1>4
<1>6. ASSUME NEW k \in Nat, k \in T
      PROVE  k + 1 \in T
  <2> SUFFICES ASSUME n + (k + 1) <= kNumBitsPerWord
               PROVE  h[n + (k + 1)] = 0
    OBVIOUS
  <2>1. n + k \in 0..(kNumBitsPerWord - 1) /\ n + (k + 1) = (n + k) + 1
    BY BitWordsAssumption
  <2>2. h[n + k] = 0
    BY <1>6, <2>1, BitWordsAssumption
  <2>3. QED
    BY <2>1, <2>2, <1>0
<1>7. \A k \in Nat : k \in T
  <2> HIDE DEF T
  <2>1. QED
    BY <1>5, <1>6, Induction
<1>8. ASSUME NEW k \in n..kNumBitsPerWord
      PROVE  h[k] = 0
  <2>1. k - n \in T /\ n + (k - n) = k /\ k <= kNumBitsPerWord
    BY <1>7, BitWordsAssumption
  <2>2. QED
    BY <2>1
<1>9. QED
  BY <1>8 DEF h

\* Number and Ones are inverse to each other.
LEMMA NumberOfOnes ==
  ASSUME NEW n \in 0..kNumBitsPerWord, NEW number \in Nat, number < Pow2[n]
  PROVE  Number(n, Ones(n, number)) = number
<1> DEFINE h == Halvings(number)
           ones == Ones(n, number)
           v == ShiftedIn(ones)
           S == {k \in Nat : k <= n => v[k] = h[n - k]}
<1>1. /\ h[0] = number
      /\ \A k \in 0..kNumBitsPerWord : h[k] \in Nat
      /\ \A k \in 0..(kNumBitsPerWord - 1) : h[k + 1] = h[k] \div 2
  BY HalvingsOf
<1>2. /\ v[0] = 0
      /\ \A k \in 0..kNumBitsPerWord : v[k] \in Nat
      /\ \A k \in 0..(kNumBitsPerWord - 1) :
           v[k + 1] = 2 * v[k] + (IF k \in ones THEN 1 ELSE 0)
  <2> HIDE DEF ones
  <2>1. QED
    BY ShiftedInOf
<1>3. h[n] = 0
  BY HalvingsEnd, BitWordsAssumption
<1>4. ones = {i \in 0..(n - 1) : h[n - 1 - i] % 2 = 1}
  BY DEF Ones
<1> HIDE DEF h, ones, v
<1>5. 0 \in S
  BY <1>2, <1>3
<1>6. ASSUME NEW k \in Nat, k \in S
      PROVE  k + 1 \in S
  <2> SUFFICES ASSUME k + 1 <= n
               PROVE  v[k + 1] = h[n - (k + 1)]
    OBVIOUS
  <2> DEFINE m == n - 1 - k
  <2>1. m \in 0..(kNumBitsPerWord - 1) /\ n - k = m + 1 /\ n - (k + 1) = m
        /\ k \in 0..(kNumBitsPerWord - 1) /\ k \in 0..(n - 1)
    BY BitWordsAssumption
  <2>2. v[k] = h[m + 1]
    BY <1>6, <2>1
  <2>3. k \in ones <=> h[m] % 2 = 1
    BY <1>4, <2>1
  <2> HIDE DEF m
  <2>4. h[m] \in Nat /\ h[m + 1] = h[m] \div 2
    BY <1>1, <2>1, BitWordsAssumption
  <2>5. v[k + 1] = 2 * (h[m] \div 2) + (IF k \in ones THEN 1 ELSE 0)
    BY <1>2, <2>1, <2>2, <2>4
  <2> DEFINE x == h[m]
  <2>6. x \in Nat
    BY <2>4
  <2> HIDE DEF x
  <2>7. x = 2 * (x \div 2) + (IF x % 2 = 1 THEN 1 ELSE 0)
    BY <2>6
  <2>8. v[k + 1] = x
    BY <2>3, <2>5, <2>7 DEF x
  <2>9. QED
    BY <2>1, <2>8 DEF x
<1>7. \A k \in Nat : k \in S
  <2> HIDE DEF S
  <2>1. QED
    BY <1>5, <1>6, Induction
<1>8. v[n] = h[0]
  <2>1. n \in Nat /\ n \in S /\ n - n = 0
    BY <1>7
  <2>2. QED
    BY <2>1
<1>9. QED
  BY <1>1, <1>8 DEF Number, v, ones

\* The bits of the number that bits make are those bits.
LEMMA OnesOfNumber ==
  ASSUME NEW n \in 0..kNumBitsPerWord, NEW ones \in SUBSET (0..(n - 1))
  PROVE  /\ Number(n, ones) \in Nat
         /\ Number(n, ones) < Pow2[n]
         /\ Ones(n, Number(n, ones)) = ones
<1> DEFINE v == ShiftedIn(ones)
           number == v[n]
           h == Halvings(number)
<1>1. /\ v[0] = 0
      /\ \A k \in 0..kNumBitsPerWord : v[k] \in Nat
      /\ \A k \in 0..(kNumBitsPerWord - 1) :
           v[k + 1] = 2 * v[k] + (IF k \in ones THEN 1 ELSE 0)
  BY ShiftedInOf
<1> HIDE DEF v
<1>2. number \in Nat
  BY <1>1
<1> HIDE DEF number
<1>3. /\ h[0] = number
      /\ \A k \in 0..kNumBitsPerWord : h[k] \in Nat
      /\ \A k \in 0..(kNumBitsPerWord - 1) : h[k + 1] = h[k] \div 2
  BY <1>2, HalvingsOf
<1> HIDE DEF h
<1> DEFINE S == {k \in Nat : k <= n => h[k] = v[n - k]}
           T == {k \in Nat : k <= n => v[k] < Pow2[k]}
<1>4. 0 \in S /\ 0 \in T
  BY <1>1, <1>3, Powers DEF number
<1>5. ASSUME NEW k \in Nat, k \in S
      PROVE  k + 1 \in S
  <2> SUFFICES ASSUME k + 1 <= n
               PROVE  h[k + 1] = v[n - (k + 1)]
    OBVIOUS
  <2> DEFINE m == n - (k + 1)
  <2>1. m \in 0..(kNumBitsPerWord - 1) /\ n - k = m + 1
        /\ k \in 0..(kNumBitsPerWord - 1)
    BY BitWordsAssumption
  <2>2. h[k] = v[m + 1]
    BY <1>5, <2>1
  <2> DEFINE x == v[m]
             y == v[m + 1]
  <2>3. x \in Nat /\ y = 2 * x + (IF m \in ones THEN 1 ELSE 0)
    BY <1>1, <2>1, BitWordsAssumption
  <2>4. h[k + 1] = y \div 2
    BY <1>3, <2>1, <2>2
  <2> HIDE DEF x, y
  <2>5. y \div 2 = x
    BY <2>3
  <2>6. QED
    BY <2>4, <2>5 DEF x
<1>6. ASSUME NEW k \in Nat, k \in T
      PROVE  k + 1 \in T
  <2> SUFFICES ASSUME k + 1 <= n
               PROVE  v[k + 1] < Pow2[k + 1]
    OBVIOUS
  <2>1. k \in 0..(kNumBitsPerWord - 1) /\ k \in 0..kNumBitsPerWord
    BY BitWordsAssumption
  <2>2. v[k] \in Nat /\ v[k] < Pow2[k] /\ Pow2[k] \in Nat
    BY <1>1, <1>6, <2>1, Powers
  <2>3. v[k + 1] = 2 * v[k] + (IF k \in ones THEN 1 ELSE 0)
        /\ Pow2[k + 1] = 2 * Pow2[k]
    BY <1>1, <2>1, Powers
  <2>4. QED
    BY <2>2, <2>3
<1>7. \A k \in Nat : k \in S /\ k \in T
  <2> HIDE DEF S, T
  <2>1. \A k \in Nat : k \in S
    BY <1>4, <1>5, Induction
  <2>2. \A k \in Nat : k \in T
    BY <1>4, <1>6, Induction
  <2>3. QED
    BY <2>1, <2>2
<1>8. number < Pow2[n]
  <2>1. n \in T
    BY <1>7
  <2>2. QED
    BY <2>1 DEF number
<1>9. ASSUME NEW i \in 0..(n - 1)
      PROVE  h[n - 1 - i] % 2 = 1 <=> i \in ones
  <2>1. n - 1 - i \in Nat /\ n - 1 - i \in S /\ n - (n - 1 - i) = i + 1
        /\ i \in 0..(kNumBitsPerWord - 1)
    BY <1>7, BitWordsAssumption
  <2>2. h[n - 1 - i] = v[i + 1]
    BY <2>1
  <2> DEFINE x == v[i]
  <2>3. x \in Nat /\ v[i + 1] = 2 * x + (IF i \in ones THEN 1 ELSE 0)
    BY <1>1, <2>1, BitWordsAssumption
  <2> HIDE DEF x
  <2>4. (2 * x) % 2 = 0 /\ (2 * x + 1) % 2 = 1
    BY <2>3
  <2>5. QED
    BY <2>2, <2>3, <2>4
<1>10. Ones(n, number) = ones
  BY <1>9 DEF Ones, h
<1>11. QED
  BY <1>2, <1>8, <1>10 DEF Number, number, v

\* The bits of a word, read from the other end.
Mirrored(w) == {kNumBitsPerWord - 1 - b : b \in w}

\* Mirrored is its own inverse.
LEMMA MirroredTwice ==
  ASSUME NEW w \in SUBSET Bits
  PROVE  Mirrored(w) \in SUBSET Bits /\ Mirrored(Mirrored(w)) = w
<1>1. \A b \in w : b \in Int /\ kNumBitsPerWord - 1 - b \in Bits
        /\ kNumBitsPerWord - 1 - (kNumBitsPerWord - 1 - b) = b
  BY BitWordsAssumption DEF Bits
<1>2. QED
  BY <1>1 DEF Mirrored

\* The conversions of words to numbers and back are inverse to each other.
LEMMA WordOfValue ==
  ASSUME NEW w \in Word
  PROVE  ValueOf[w] \in Nat /\ WordOf[ValueOf[w]] = w
<1> DEFINE W == kNumBitsPerWord
           number == Number(W, Mirrored(w))
<1>1. W \in 0..W
  BY BitWordsAssumption
<1>2. Mirrored(w) \in SUBSET (0..(W - 1)) /\ Mirrored(Mirrored(w)) = w
  BY MirroredTwice DEF Word, Bits
<1>3. number \in Nat /\ number < Pow2[W] /\ Ones(W, number) = Mirrored(w)
  BY <1>1, <1>2, OnesOfNumber
<1>4. ValueOf[w] = number
  BY DEF ValueOf, Mirrored
<1> HIDE DEF number
<1>5. number \in 0..(Pow2[W] - 1)
  BY <1>1, <1>3, Powers
<1>6. WordOf[number] = Mirrored(Ones(W, number))
  BY <1>5 DEF WordOf, Mirrored
<1>7. QED
  BY <1>2, <1>3, <1>4, <1>6

\* The word of a number that fits has its value.
LEMMA ValueOfWord ==
  ASSUME NEW n \in Nat, n < Pow2[kNumBitsPerWord]
  PROVE  WordOf[n] \in Word /\ ValueOf[WordOf[n]] = n
<1> DEFINE W == kNumBitsPerWord
           w == Mirrored(Ones(W, n))
<1>1. W \in 0..W
  BY BitWordsAssumption
<1>2. n \in 0..(Pow2[W] - 1)
  BY <1>1, Powers
<1>3. WordOf[n] = w
  BY <1>2 DEF WordOf, Mirrored
<1>4. Ones(W, n) \in SUBSET Bits
  BY DEF Ones, Bits
<1>5. w \in Word /\ Mirrored(w) = Ones(W, n)
  BY <1>4, MirroredTwice DEF Word
<1> HIDE DEF w
<1>6. ValueOf[w] = Number(W, Mirrored(w))
  BY <1>5 DEF ValueOf, Mirrored
<1>7. Number(W, Ones(W, n)) = n
  BY <1>1, NumberOfOnes
<1>8. QED
  BY <1>3, <1>5, <1>6, <1>7

\* The bits of a code of size bits are the lowest of a word.
LEMMA SmallWord ==
  ASSUME NEW size \in 0..kNumBitsPerWord, NEW n \in Nat, n < Pow2[size]
  PROVE  n < Pow2[kNumBitsPerWord] /\ WordOf[n] \in SUBSET (0..(size - 1))
<1> DEFINE W == kNumBitsPerWord
           S == {k \in Nat : size + k <= W => Pow2[size] <= Pow2[size + k]}
<1>1. 0 \in S
  BY Powers
<1>2. ASSUME NEW k \in Nat, k \in S
      PROVE  k + 1 \in S
  <2> SUFFICES ASSUME size + (k + 1) <= W
               PROVE  Pow2[size] <= Pow2[size + (k + 1)]
    OBVIOUS
  <2> DEFINE m == size + k
  <2>1. m \in 0..(W - 1) /\ m \in 0..W /\ size + (k + 1) = m + 1
    BY BitWordsAssumption
  <2>2. Pow2[size] <= Pow2[m]
    BY <1>2, <2>1
  <2> HIDE DEF m
  <2>3. Pow2[m + 1] = 2 * Pow2[m] /\ Pow2[m] \in Nat /\ Pow2[size] \in Nat
    BY <2>1, Powers
  <2>4. QED
    BY <2>1, <2>2, <2>3
<1>3. \A k \in Nat : k \in S
  <2> HIDE DEF S
  <2>1. QED
    BY <1>1, <1>2, Induction
<1>4. Pow2[size] <= Pow2[W]
  <2>1. W - size \in S /\ size + (W - size) = W
    BY <1>3, BitWordsAssumption
  <2>2. QED
    BY <2>1
<1>5. n < Pow2[W] /\ n \in 0..(Pow2[W] - 1)
  <2>1. Pow2[size] \in Nat /\ Pow2[W] \in Nat
    BY Powers, BitWordsAssumption
  <2>2. QED
    BY <1>4, <2>1
<1>6. WordOf[n] = {W - 1 - i : i \in Ones(W, n)}
  BY <1>5 DEF WordOf
<1>7. ASSUME NEW i \in Ones(W, n)
      PROVE  W - 1 - i \in 0..(size - 1)
  <2> DEFINE b == W - 1 - i
  <2>1. b \in 0..(W - 1) /\ Halvings(n)[b] % 2 = 1
    BY BitWordsAssumption DEF Ones
  <2>2. \A k \in size..W : Halvings(n)[k] = 0
    BY HalvingsEnd
  <2> HIDE DEF b
  <2>3. ~(b >= size)
    <3>1. b >= size => b \in size..W
      BY <2>1, BitWordsAssumption
    <3>2. QED
      BY <2>1, <2>2, <3>1
  <2>4. b \in 0..(size - 1)
    BY <2>1, <2>3, BitWordsAssumption
  <2>5. QED
    BY <2>4 DEF b
<1>8. QED
  BY <1>5, <1>6, <1>7

\* A bound of a product bounds the quotient.
LEMMA DivLess ==
  ASSUME NEW x \in Nat, NEW y \in Nat \ {0}, NEW q \in Nat, x < q * y
  PROVE  x \div y < q
<1> DEFINE d == x \div y
           r == x % y
<1>1. d \in Nat /\ r \in 0..(y - 1) /\ x = y * d + r
  BY DivMod
<1> HIDE DEF d, r
<1>2. SUFFICES ASSUME d >= q PROVE FALSE
  BY <1>1 DEF d
<1>3. PICK e \in Nat : d = q + e
  <2>1. d - q \in Nat /\ d = q + (d - q)
    BY <1>1, <1>2
  <2>2. QED
    BY <2>1
<1>4. y * d = q * y + y * e /\ y * e >= 0
  BY <1>3
<1>5. QED
  BY <1>1, <1>4

\* Positions below num * y are in the first num parts of y, and the other way.
LEMMA PartBound ==
  ASSUME NEW s \in Nat, NEW n \in Nat, s < n, NEW y \in Nat \ {0},
         NEW r \in 0..(y - 1)
  PROVE  s * y + r \in 0..(n * y - 1)
<1>1. PICK e \in Nat : n = s + 1 + e
  <2>1. n - s - 1 \in Nat /\ n = s + 1 + (n - s - 1)
    OBVIOUS
  <2>2. QED
    BY <2>1
<1>2. n * y = s * y + y + e * y /\ e * y >= 0 /\ s * y >= 0
  BY <1>1
<1>3. QED
  BY <1>2

\* Quotients keep the order, and remainders below one quotient do.
LEMMA SameQuotient ==
  ASSUME NEW x \in Nat, NEW z \in Nat, NEW y \in Nat \ {0}, x < z
  PROVE  /\ x \div y <= z \div y
         /\ x \div y = z \div y => x % y < z % y
<1> DEFINE d == x \div y
           r == x % y
           e == z \div y
           t == z % y
<1>1. d \in Nat /\ r \in 0..(y - 1) /\ x = y * d + r
      /\ e \in Nat /\ t \in 0..(y - 1) /\ z = y * e + t
  BY DivMod
<1> HIDE DEF d, r, e, t
<1>2. d <= e
  <2> SUFFICES ASSUME d > e PROVE FALSE
    BY <1>1
  <2>1. PICK k \in Nat : d = e + 1 + k
    <3>1. d - e - 1 \in Nat /\ d = e + 1 + (d - e - 1)
      BY <1>1
    <3>2. QED
      BY <3>1
  <2>2. y * d = y * e + y + y * k /\ y * k >= 0
    BY <1>1, <2>1
  <2>3. QED
    BY <1>1, <2>2
<1>3. d = e => r < t
  BY <1>1
<1>4. QED
  BY <1>2, <1>3 DEF d, r, e, t

\* Quotient and remainder determine a number.
LEMMA DivModEqual ==
  ASSUME NEW x \in Nat, NEW z \in Nat, NEW y \in Nat \ {0},
         x \div y = z \div y, x % y = z % y
  PROVE  x = z
  BY DivMod

\* The words of a block.
LEMMA BlockWords ==
  /\ VSegments \in Nat \ {0}
  /\ VSegments * kNumBitsPerWord = kNumCodesPerBlock
  /\ \A p \in 0..(kNumCodesPerBlock - 1) :
       /\ WordAt(p) \in 0..(VSegments - 1)
       /\ BitAt(p) \in Bits
  /\ \A p, q \in 0..(kNumCodesPerBlock - 1) :
       WordAt(p) = WordAt(q) /\ BitAt(p) = BitAt(q) => p = q
<1> DEFINE W == kNumBitsPerWord
           C == kNumCodesPerBlock
<1>0. W \in Nat \ {0} /\ C \in Nat \ {0} /\ C % W = 0
  BY BitWordsAssumption
<1>1. VSegments \in Nat /\ VSegments * W = C /\ VSegments # 0
  <2>1. C = W * (C \div W) + (C % W) /\ C \div W \in Nat
    BY <1>0, DivMod
  <2> DEFINE v == C \div W
  <2> HIDE DEF v
  <2>2. C = W * v /\ v \in Nat
    BY <2>1, <1>0 DEF v
  <2>3. v # 0 /\ v * W = C
    BY <2>2, <1>0
  <2>4. QED
    BY <2>2, <2>3 DEF VSegments, v
<1>2. ASSUME NEW p \in 0..(C - 1)
      PROVE  /\ WordAt(p) \in 0..(VSegments - 1)
             /\ BitAt(p) \in Bits
             /\ p \in Nat /\ p % W \in 0..(W - 1) /\ BitAt(p) = W - 1 - (p % W)
  <2>1. p \in Nat /\ p < VSegments * W
    BY <1>0, <1>1
  <2>2. p \div W \in Nat /\ p % W \in 0..(W - 1)
    BY <1>0, <2>1, DivMod
  <2>3. p \div W < VSegments
    BY <2>1, <1>0, <1>1, DivLess
  <2>4. QED
    BY <2>1, <2>2, <2>3, <1>1, <1>0 DEF WordAt, BitAt, Bits
<1>3. ASSUME NEW p \in 0..(C - 1), NEW q \in 0..(C - 1),
             WordAt(p) = WordAt(q), BitAt(p) = BitAt(q)
      PROVE  p = q
  <2>1. p % W = q % W /\ p \div W = q \div W /\ p \in Nat /\ q \in Nat
    BY <1>0, <1>2, <1>3 DEF WordAt
  <2>2. QED
    BY <2>1, <1>0, DivModEqual
<1>4. QED
  BY <1>1, <1>2, <1>3

-----------------------------------------------------------------------------
(* BitWeaving/V. *)

\* Where the bits of a code are: in the words of its segment, each in its own.
LEMMA VPlace ==
  ASSUME NEW size \in Nat \ {0}, NEW s \in 0..(VSegments - 1),
         NEW i \in 0..(size - 1),
         NEW g, g = VGroupOf(i), NEW bits, bits = VBitsOfGroup(size, g),
         NEW w, w = VWordOf(size, s, i)
  PROVE  /\ g \in 0..(CEIL(size, kNumBitsPerGroup) - 1)
         /\ bits \in Nat \ {0}
         /\ w \in 0..(VSegments * bits - 1)
         /\ w \div bits = s
         /\ g * kNumBitsPerGroup + (w % bits) = i
<1> DEFINE G == kNumBitsPerGroup
           r == i % G
           f == size \div G
           t == size % G
<1>0. G \in Nat \ {0} /\ i \in Nat /\ s \in Nat
  BY BitWordsAssumption, BlockWords
<1>1. g \in Nat /\ r \in 0..(G - 1) /\ i = G * g + r /\ g = i \div G
  BY <1>0, DivMod DEF VGroupOf
<1>2. f \in Nat /\ t \in 0..(G - 1) /\ size = G * f + t
  BY <1>0, DivMod
<1>3. g <= f /\ (g = f => r < t)
  <2>1. i < size /\ size \in Nat
    BY <1>0
  <2>2. QED
    BY <1>0, <1>1, <2>1, SameQuotient
<1>4. bits = IF g < f THEN G ELSE t
  BY DEF VBitsOfGroup, VFullGroups
<1>5. bits \in Nat \ {0} /\ r < bits
  <2> HIDE DEF r, f, t
  <2>1. QED
    BY <1>0, <1>1, <1>2, <1>3, <1>4
<1>6. g \in 0..(CEIL(size, G) - 1)
  <2>1. CEIL(size, G) \in Nat /\ size <= CEIL(size, G) * G
    BY <1>0, CeilBounds
  <2> DEFINE q == CEIL(size, G)
  <2> HIDE DEF q
  <2>2. i < q * G /\ q \in Nat
    <3>1. q * G \in Nat
      BY <2>1, <1>0 DEF q
    <3>2. QED
      BY <2>1, <3>1, <1>0 DEF q
  <2>3. i \div G < q
    BY <1>0, <2>2, DivLess
  <2>4. QED
    BY <1>1, <2>2, <2>3 DEF q
<1>7. w = s * bits + r
  BY <1>1 DEF VWordOf
<1> HIDE DEF r, f, t
<1>8. w \div bits = s /\ w % bits = r
  <2>1. r \in 0..(bits - 1)
    BY <1>1, <1>5
  <2>2. s \in Nat /\ bits \in Nat \ {0}
    BY <1>0, <1>5
  <2>3. QED
    BY <1>7, <2>1, <2>2, QuotientOf
<1>9. w \in 0..(VSegments * bits - 1)
  <2>1. r \in 0..(bits - 1) /\ s < VSegments /\ VSegments \in Nat
    BY <1>1, <1>5, BlockWords
  <2>2. QED
    BY <1>0, <1>5, <1>7, <2>1, PartBound
<1>10. g * G + r = i
  BY <1>0, <1>1
<1>11. QED
  BY <1>5, <1>6, <1>8, <1>9, <1>10

\* The word that holds bit i of the codes of a segment, after SetCode.
LEMMA VSetWord ==
  ASSUME NEW size \in Nat \ {0}, NEW b, BlockOK(b, "kBitWeavingV", size),
         NEW pos \in 0..(kNumCodesPerBlock - 1), NEW code,
         NEW s \in 0..(VSegments - 1), NEW i \in 0..(size - 1)
  PROVE  VWord(VSetCode(b, pos, code), s, i)
           = IF s # WordAt(pos) THEN VWord(b, s, i)
             ELSE IF CodeBit(size, code, i)
                  THEN VWord(b, s, i) \cup {BitAt(pos)}
                  ELSE VWord(b, s, i) \ {BitAt(pos)}
<1> DEFINE written(j, word) ==
             IF CodeBit(b.size, code, j) THEN word \cup {BitAt(pos)}
                                         ELSE word \ {BitAt(pos)}
           d == [group \in DOMAIN b.data |->
            LET bits == VBitsOfGroup(b.size, group)
            IN  [w \in DOMAIN b.data[group] |->
                   IF w \div bits = WordAt(pos)
                   THEN written(group * kNumBitsPerGroup + (w % bits),
                                b.data[group][w])
                   ELSE b.data[group][w]]]
           g == VGroupOf(i)
           bits == VBitsOfGroup(size, g)
           w == VWordOf(size, s, i)
           new == VSetCode(b, pos, code)
<1>1. new = [b EXCEPT !.data = d]
  BY DEF VSetCode
<1>2. /\ b = [type |-> "kBitWeavingV", size |-> size, num |-> b.num,
              data |-> b.data]
      /\ b.size = size
      /\ DataOK("kBitWeavingV", size, b.data)
  BY DEF BlockOK
<1>3. new.data = d /\ new.size = size
  <2> HIDE DEF d
  <2>1. QED
    BY <1>1, <1>2
<1>4. /\ g \in 0..(CEIL(size, kNumBitsPerGroup) - 1)
      /\ w \in 0..(VSegments * bits - 1)
      /\ w \div bits = s
      /\ g * kNumBitsPerGroup + (w % bits) = i
  <2> HIDE DEF g, bits, w, new, d
  <2>1. QED
    BY VPlace DEF g, bits, w
<1>5. g \in DOMAIN b.data /\ w \in DOMAIN b.data[g]
  BY <1>2, <1>4 DEF DataOK
<1> HIDE DEF written, new
<1>6. d[g] = [v \in DOMAIN b.data[g] |->
                   IF v \div bits = WordAt(pos)
                   THEN written(g * kNumBitsPerGroup + (v % bits),
                                b.data[g][v])
                   ELSE b.data[g][v]]
  BY <1>2, <1>5
<1> HIDE DEF d, g, bits, w
<1>7. d[g][w] = IF s = WordAt(pos) THEN written(i, b.data[g][w])
                ELSE b.data[g][w]
  BY <1>4, <1>5, <1>6
<1>8. VWord(new, s, i) = d[g][w] /\ VWord(b, s, i) = b.data[g][w]
  BY <1>2, <1>3 DEF VWord, g, w
<1>9. QED
  BY <1>2, <1>7, <1>8 DEF new, written

\* SetCode of a BitWeaving/V block changes one code.
LEMMA VSetGet ==
  ASSUME NEW size \in 1..kNumBitsPerWord, NEW b, BlockOK(b, "kBitWeavingV", size),
         NEW pos \in 0..(kNumCodesPerBlock - 1),
         NEW code \in Nat, code < Pow2[size],
         NEW p \in 0..(kNumCodesPerBlock - 1)
  PROVE  VGetCode(VSetCode(b, pos, code), p)
           = IF p = pos THEN code ELSE VGetCode(b, p)
<1> DEFINE new == VSetCode(b, pos, code)
           s == WordAt(p)
<1>0. b.size = size /\ new.size = size /\ size \in Nat \ {0}
  <2>1. BlockOK(new, "kBitWeavingV", size)
    BY VSetDataOK
  <2>2. new.size = size
    BY <2>1 DEF BlockOK
  <2>3. QED
    BY <2>2, BitWordsAssumption DEF BlockOK
<1>1. s \in 0..(VSegments - 1)
  BY BlockWords
<1>2. ASSUME NEW i \in 0..(size - 1)
      PROVE  VWord(new, s, i)
           = IF s # WordAt(pos) THEN VWord(b, s, i)
             ELSE IF CodeBit(size, code, i)
                  THEN VWord(b, s, i) \cup {BitAt(pos)}
                  ELSE VWord(b, s, i) \ {BitAt(pos)}
  <2> HIDE DEF new, s
  <2>1. QED
    BY <1>0, <1>1, VSetWord DEF new
<1> HIDE DEF new
<1>3. CASE p = pos
  <2>1. \A i \in 0..(size - 1) : BitAt(p) \in VWord(new, s, i)
                                   <=> CodeBit(size, code, i)
    BY <1>2, <1>3
  <2>2. {i \in 0..(size - 1) : BitAt(p) \in VWord(new, s, i)} = Ones(size, code)
    BY <2>1 DEF CodeBit, Ones
  <2>3. VGetCode(new, p) = Number(size, Ones(size, code))
    BY <1>0, <2>2 DEF VGetCode
  <2>4. QED
    BY <1>3, <2>3, NumberOfOnes, BitWordsAssumption DEF new
<1>4. CASE p # pos
  <2>1. s # WordAt(pos) \/ BitAt(p) # BitAt(pos)
    BY <1>4, BlockWords
  <2>2. \A i \in 0..(size - 1) : BitAt(p) \in VWord(new, s, i)
                                   <=> BitAt(p) \in VWord(b, s, i)
    BY <1>2, <2>1
  <2>3. VGetCode(new, p) = VGetCode(b, p)
    BY <1>0, <2>2 DEF VGetCode
  <2>4. QED
    BY <1>4, <2>3 DEF new
<1>5. QED
  BY <1>3, <1>4

-----------------------------------------------------------------------------
(* BitWeaving/H. *)

\* The place of a code: a word, and a shift that leaves room for its bits.
LEMMA HPlace ==
  ASSUME NEW size \in 1..(kNumBitsPerWord - 1),
         NEW p \in 0..(kNumCodesPerBlock - 1)
  PROVE  /\ HWordOf(size, p) \in 0..(HSegments(kNumCodesPerBlock, size)
                                       * HWordsPerSegment(size) - 1)
         /\ HShiftOf(size, p) \in Nat
         /\ HShiftOf(size, p) + size < kNumBitsPerWord
         /\ \A q \in 0..(kNumCodesPerBlock - 1) :
              p # q /\ HWordOf(size, p) = HWordOf(size, q)
                => \/ HShiftOf(size, p) + size < HShiftOf(size, q)
                   \/ HShiftOf(size, q) + size < HShiftOf(size, p)
<1> DEFINE W == kNumBitsPerWord
           C == kNumCodesPerBlock
           y == size + 1
           cpw == W \div y
           cps == y * cpw
           seg(q) == q \div cps
           rest(q) == q % cps
           slot(q) == rest(q) \div y
           wd(q) == rest(q) % y
<1>0. W \in Nat \ {0} /\ C \in Nat \ {0} /\ y \in Nat \ {0} /\ y <= W
  BY BitWordsAssumption
<1>1. cpw \in Nat \ {0} /\ cpw * y <= W
  <2>1. cpw \in Nat /\ W % y \in 0..(y - 1) /\ W = y * cpw + (W % y)
    BY <1>0, DivMod
  <2> HIDE DEF cpw
  <2>2. cpw # 0
    BY <2>1, <1>0
  <2>3. QED
    BY <2>1, <2>2, <1>0
<1>2. cps \in Nat \ {0}
  <2> HIDE DEF cpw, y
  <2>1. QED
    BY <1>0, <1>1
<1>3. /\ HBitsPerCode(size) = y /\ HWordsPerSegment(size) = y
      /\ HCodesPerWord(size) = cpw /\ HCodesPerSegment(size) = cps
  BY DEF HBitsPerCode, HWordsPerSegment, HCodesPerWord, HCodesPerSegment
<1>4. ASSUME NEW q \in 0..(C - 1)
      PROVE  /\ HWordOf(size, q) = seg(q) * y + wd(q)
             /\ HShiftOf(size, q) = (cpw - 1 - slot(q)) * y
  <2> HIDE DEF y, cpw, cps
  <2>1. QED
    BY <1>3 DEF HWordOf, HShiftOf
<1> HIDE DEF y, cpw
<1>5. ASSUME NEW q \in 0..(C - 1)
      PROVE  /\ seg(q) \in Nat /\ rest(q) \in Nat /\ q = cps * seg(q) + rest(q)
             /\ slot(q) \in 0..(cpw - 1) /\ wd(q) \in 0..(y - 1)
             /\ rest(q) = y * slot(q) + wd(q)
  <2>1. seg(q) \in Nat /\ rest(q) \in 0..(cps - 1) /\ q = cps * seg(q) + rest(q)
    <3> HIDE DEF cps
    <3>1. q \in Nat
      BY <1>0
    <3>2. /\ q \div cps \in Nat /\ q % cps \in 0..(cps - 1)
          /\ q = cps * (q \div cps) + (q % cps)
      BY <3>1, <1>2, DivMod
    <3>3. QED
      BY <3>2
  <2> DEFINE r == rest(q)
  <2>2. r \in Nat /\ r < cpw * y
    BY <2>1, <1>0, <1>1
  <2> HIDE DEF r
  <2>3. r \div y \in Nat /\ r % y \in 0..(y - 1) /\ r = y * (r \div y) + (r % y)
    BY <2>2, <1>0, DivMod
  <2>4. r \div y < cpw
    BY <2>2, <1>0, <1>1, DivLess
  <2>5. r \div y \in 0..(cpw - 1)
    BY <2>3, <2>4, <1>1
  <2>6. QED
    BY <2>1, <2>3, <2>5 DEF r
<1>6. HWordOf(size, p) \in 0..(HSegments(C, size) * y - 1)
  <2>1. CEIL(C, cps) \in Nat /\ C <= CEIL(C, cps) * cps
    <3> HIDE DEF cps
    <3>1. QED
      BY <1>0, <1>2, CeilBounds
  <2> DEFINE n == CEIL(C, cps)
  <2>2. HSegments(C, size) = n
    BY <1>3 DEF HSegments
  <2> HIDE DEF n
  <2>3. p \in Nat /\ p < n * cps
    <3>1. n * cps \in Nat
      BY <2>1, <1>2 DEF n
    <3>2. C <= n * cps
      BY <2>1 DEF n
    <3> HIDE DEF cps
    <3>3. QED
      BY <3>1, <3>2, <1>0
  <2>4. seg(p) < n
    <3> HIDE DEF cps
    <3>1. QED
      BY <2>1, <2>3, <1>2, DivLess DEF n
  <2> DEFINE s == seg(p)
             r == wd(p)
  <2>5. s \in Nat /\ r \in 0..(y - 1) /\ s < n /\ n \in Nat
        /\ HWordOf(size, p) = s * y + r
    BY <1>4, <1>5, <2>4, <2>1 DEF n
  <2> HIDE DEF s, r
  <2>6. QED
    BY <2>2, <2>5, <1>0, PartBound
<1>7. ASSUME NEW q \in 0..(C - 1)
      PROVE  HShiftOf(size, q) \in Nat /\ HShiftOf(size, q) + size < W
  <2> DEFINE k == cpw - 1 - slot(q)
  <2>1. k \in Nat /\ k < cpw
    <3> DEFINE s == slot(q)
    <3>1. s \in 0..(cpw - 1)
      BY <1>5
    <3> HIDE DEF s
    <3>2. QED
      BY <3>1, <1>1 DEF s
  <2>2. HShiftOf(size, q) = k * y
    BY <1>4
  <2> HIDE DEF k
  <2>3. size \in 0..(y - 1)
    BY DEF y
  <2>4. k * y + size \in 0..(cpw * y - 1)
    BY <2>1, <2>3, <1>0, <1>1, PartBound
  <2>5. k * y \in Nat /\ cpw * y \in Nat
    BY <2>1, <1>0, <1>1
  <2>6. QED
    BY <2>2, <2>4, <2>5, <1>0, <1>1
<1>8. ASSUME NEW q \in 0..(C - 1), p # q, HWordOf(size, p) = HWordOf(size, q)
      PROVE  \/ HShiftOf(size, p) + size < HShiftOf(size, q)
             \/ HShiftOf(size, q) + size < HShiftOf(size, p)
  <2> DEFINE s1 == seg(p)
             s2 == seg(q)
             w1 == wd(p)
             w2 == wd(q)
             a1 == slot(p)
             a2 == slot(q)
             k1 == cpw - 1 - a1
             k2 == cpw - 1 - a2
  <2>1. /\ s1 \in Nat /\ s2 \in Nat /\ w1 \in 0..(y - 1) /\ w2 \in 0..(y - 1)
        /\ a1 \in 0..(cpw - 1) /\ a2 \in 0..(cpw - 1)
        /\ p = cps * s1 + (y * a1 + w1) /\ q = cps * s2 + (y * a2 + w2)
    BY <1>5
  <2>2. s1 * y + w1 = s2 * y + w2
    BY <1>4, <1>8
  <2>3. HShiftOf(size, p) = k1 * y /\ HShiftOf(size, q) = k2 * y
    BY <1>4
  <2> HIDE DEF s1, s2, w1, w2, a1, a2, cps
  <2>4. s1 = s2 /\ w1 = w2
    <3>1. (s1 * y + w1) \div y = s1 /\ (s1 * y + w1) % y = w1
      BY <2>1, <1>0, DivModUnique
    <3>2. (s2 * y + w2) \div y = s2 /\ (s2 * y + w2) % y = w2
      BY <2>1, <1>0, DivModUnique
    <3>3. QED
      BY <2>2, <3>1, <3>2
  <2>5. a1 # a2
    BY <1>8, <2>1, <2>4
  <2>6. k1 \in Nat /\ k2 \in Nat /\ k1 # k2
    BY <2>1, <2>5, <1>1
  <2> HIDE DEF k1, k2
  <2>7. size \in 0..(y - 1)
    BY DEF y
  <2>8. k1 * y \in Nat /\ k2 * y \in Nat
    BY <2>6, <1>0
  <2>9. CASE k1 < k2
    <3>1. k1 * y + size \in 0..(k2 * y - 1)
      BY <2>6, <2>7, <2>9, <1>0, PartBound
    <3>2. QED
      BY <2>3, <2>8, <3>1
  <2>10. CASE k2 < k1
    <3>1. k2 * y + size \in 0..(k1 * y - 1)
      BY <2>6, <2>7, <2>10, <1>0, PartBound
    <3>2. QED
      BY <2>3, <2>8, <3>1
  <2>11. QED
    BY <2>6, <2>9, <2>10
<1>9. QED
  BY <1>3, <1>6, <1>7, <1>8

\* What a BitWeaving/H block is made of.
LEMMA HData ==
  ASSUME NEW size, NEW b, BlockOK(b, "kBitWeavingH", size)
  PROVE  /\ b = [type |-> "kBitWeavingH", size |-> size, num |-> b.num,
                 data |-> b.data]
         /\ b.size = size
         /\ DOMAIN b.data = 0..(HSegments(kNumCodesPerBlock, size)
                                  * HWordsPerSegment(size) - 1)
         /\ \A w \in DOMAIN b.data : b.data[w] \in Word
<1> DEFINE n == HSegments(kNumCodesPerBlock, size) * HWordsPerSegment(size) - 1
           d == b.data
<1>1. DataOK("kBitWeavingH", size, d)
  BY DEF BlockOK
<1>2. d \in [0..n -> Word]
  BY <1>1 DEF DataOK
<1> HIDE DEF n, d
<1>3. DOMAIN d = 0..n /\ \A w \in DOMAIN d : d[w] \in Word
  BY <1>2
<1>4. /\ b = [type |-> "kBitWeavingH", size |-> size, num |-> b.num,
              data |-> b.data]
      /\ b.size = size
  BY DEF BlockOK
<1>5. QED
  BY <1>3, <1>4 DEF d, n

\* The bits of the code at p.
HField(b, size, p) ==
  {x \in 0..(size - 1) : x + HShiftOf(size, p) \in b.data[HWordOf(size, p)]}

\* GetCode of a BitWeaving/H block reads a field of a word.
LEMMA HGetField ==
  ASSUME NEW size \in 1..(kNumBitsPerWord - 1),
         NEW b, BlockOK(b, "kBitWeavingH", size),
         NEW p \in 0..(kNumCodesPerBlock - 1)
  PROVE  /\ HField(b, size, p) \in Word
         /\ HGetCode(b, p) = ValueOf[HField(b, size, p)]
<1> DEFINE w == HWordOf(size, p)
           n == HShiftOf(size, p)
           d == b.data[w]
<1>0. kNumBitsPerWord \in Nat
  BY BitWordsAssumption
<1>1. /\ w \in 0..(HSegments(kNumCodesPerBlock, size)
                       * HWordsPerSegment(size) - 1)
      /\ n \in Nat /\ n + size < kNumBitsPerWord
  BY HPlace
<1>2. b.size = size /\ d \in Word
  <2> HIDE DEF w
  <2>1. QED
    BY <1>1, HData
<1>3. HField(b, size, p) \in Word
  BY <1>0 DEF HField, Word, Bits
<1> HIDE DEF w, n
<1>4. SHR(d, n) \cap CodeBits(size) = HField(b, size, p)
  <2> HIDE DEF d
  <2>1. \A x \in Int : x \in SHR(d, n) <=> (x + n \in d /\ x >= 0)
    <3>1. \A y \in d : y \in Int /\ y >= 0
      BY <1>2, <1>0 DEF Word, Bits
    <3>2. ASSUME NEW x \in Int, x \in SHR(d, n)
          PROVE  x + n \in d /\ x >= 0
      <4>1. PICK y \in d : y >= n /\ x = y - n
        BY <3>2 DEF SHR
      <4>2. x + n = y /\ x >= 0
        BY <4>1, <3>1, <1>1
      <4>3. QED
        BY <4>2
    <3>3. ASSUME NEW x \in Int, x + n \in d, x >= 0
          PROVE  x \in SHR(d, n)
      <4>1. x + n >= n /\ x = (x + n) - n
        BY <3>3, <1>1
      <4>2. QED
        BY <3>3, <4>1 DEF SHR
    <3>4. QED
      BY <3>2, <3>3
  <2>2. \A x \in 0..(size - 1) : x \in Int /\ x >= 0
    OBVIOUS
  <2>3. HField(b, size, p) = {x \in 0..(size - 1) : x + n \in d}
    BY DEF HField, n, d, w
  <2>4. QED
    BY <2>1, <2>2, <2>3 DEF CodeBits
<1>5. QED
  BY <1>2, <1>3, <1>4 DEF HGetCode, d, w, n

\* What a change of one code does to the others: nothing.
ChangesOnly(e, b, size, pos) ==
  /\ \A w \in DOMAIN b.data : w # HWordOf(size, pos) => e.data[w] = b.data[w]
  /\ \A x \in Bits : ~(x - HShiftOf(size, pos) \in 0..(size - 1)) =>
       (x \in e.data[HWordOf(size, pos)] <=> x \in b.data[HWordOf(size, pos)])

\* A code whose field does not change does not either.
LEMMA HOtherField ==
  ASSUME NEW size \in 1..(kNumBitsPerWord - 1),
         NEW b, BlockOK(b, "kBitWeavingH", size),
         NEW pos \in 0..(kNumCodesPerBlock - 1),
         NEW p \in 0..(kNumCodesPerBlock - 1), p # pos,
         NEW e, BlockOK(e, "kBitWeavingH", size), ChangesOnly(e, b, size, pos)
  PROVE  HGetCode(e, p) = HGetCode(b, p)
<1> DEFINE w == HWordOf(size, p)
           v == HWordOf(size, pos)
           n == HShiftOf(size, p)
           m == HShiftOf(size, pos)
<1>0. kNumBitsPerWord \in Nat
  BY BitWordsAssumption
<1>1. /\ w \in 0..(HSegments(kNumCodesPerBlock, size)
                       * HWordsPerSegment(size) - 1)
      /\ n \in Nat /\ n + size < kNumBitsPerWord
      /\ w = v => n + size < m \/ m + size < n
      /\ m \in Nat /\ m + size < kNumBitsPerWord
  BY HPlace
<1>2. w \in DOMAIN b.data
  <2> HIDE DEF w
  <2>1. QED
    BY <1>1, HData
<1>3. ASSUME NEW x \in 0..(size - 1)
      PROVE  x + n \in e.data[w] <=> x + n \in b.data[w]
  <2>1. CASE w # v
    BY <2>1, <1>2 DEF ChangesOnly
  <2>2. CASE w = v
    <3> HIDE DEF n, m, w, v
    <3>1. x + n \in Bits /\ ~((x + n) - m \in 0..(size - 1))
      BY <1>0, <1>1, <2>2 DEF Bits
    <3>2. QED
      BY <2>2, <3>1 DEF v, m, ChangesOnly
  <2>3. QED
    BY <2>1, <2>2
<1>4. HField(e, size, p) = HField(b, size, p)
  BY <1>3 DEF HField
<1>5. QED
  BY <1>4, HGetField

\* The bits that SHL puts into a word at the place of a code.
LEMMA ShiftedCode ==
  ASSUME NEW size \in 1..(kNumBitsPerWord - 1), NEW s \in SUBSET (0..(size - 1)),
         NEW n \in Nat, n + size < kNumBitsPerWord
  PROVE  \A x \in Int : x \in SHL(s, n) <=> x - n \in s
<1>0. kNumBitsPerWord \in Nat
  BY BitWordsAssumption
<1>1. ASSUME NEW x \in Int, x \in SHL(s, n)
      PROVE  x - n \in s
  <2>1. PICK y \in s : x = y + n
    BY <1>1 DEF SHL
  <2>2. y \in Int /\ x - n = y
    BY <2>1
  <2>3. QED
    BY <2>2
<1>2. ASSUME NEW x \in Int, x - n \in s
      PROVE  x \in SHL(s, n)
  <2>1. x - n \in 0..(size - 1) /\ x = (x - n) + n
    BY <1>2
  <2>2. x \in Bits
    BY <2>1, <1>0 DEF Bits
  <2>3. QED
    BY <1>2, <2>1, <2>2 DEF SHL
<1>3. QED
  BY <1>1, <1>2

HJoins(e, b, pos, code, p) ==
  HGetCode(e, p)
    = IF p = pos THEN ValueOf[WordOf[HGetCode(b, p)] \cup WordOf[code]]
      ELSE HGetCode(b, p)

\* SetCode of a BitWeaving/H block joins one code with the one that was there.
LEMMA HSetGet ==
  ASSUME NEW size \in 1..(kNumBitsPerWord - 1),
         NEW b, BlockOK(b, "kBitWeavingH", size),
         NEW pos \in 0..(kNumCodesPerBlock - 1),
         NEW code \in Nat, code < Pow2[size],
         NEW p \in 0..(kNumCodesPerBlock - 1),
         NEW e, e = HSetCode(b, pos, code), BlockOK(e, "kBitWeavingH", size)
  PROVE  HJoins(e, b, pos, code, p)
<1> DEFINE v == HWordOf(size, pos)
           m == HShiftOf(size, pos)
           s == WordOf[code]
<1>0. kNumBitsPerWord \in Nat
  BY BitWordsAssumption
<1>1. v \in DOMAIN b.data /\ m \in Nat /\ m + size < kNumBitsPerWord
  <2> HIDE DEF v, m
  <2>1. QED
    BY HPlace, HData DEF v, m
<1>2. s \in SUBSET (0..(size - 1))
  BY SmallWord, <1>0
<1>3. /\ \A w \in DOMAIN b.data : w # v => e.data[w] = b.data[w]
      /\ e.data[v] = b.data[v] \cup SHL(s, m)
  <2>1. e = [b EXCEPT !.data = [b.data EXCEPT ![v] = b.data[v] \cup SHL(s, m)]]
    BY HData DEF HSetCode
  <2> DEFINE d == [b.data EXCEPT ![v] = b.data[v] \cup SHL(s, m)]
  <2>2. /\ \A w \in DOMAIN b.data : w # v => d[w] = b.data[w]
        /\ d[v] = b.data[v] \cup SHL(s, m)
    <3> HIDE DEF v, s, m
    <3>1. QED
      BY <1>1
  <2> HIDE DEF d, v, s, m
  <2>3. e.data = d
    BY <2>1, HData DEF d
  <2>4. QED
    BY <2>2, <2>3
<1>4. \A x \in Int : x \in SHL(s, m) <=> x - m \in s
  <2> HIDE DEF s, m
  <2>1. QED
    BY <1>1, <1>2, ShiftedCode
<1>5. CASE p # pos
  <2>1. ASSUME NEW x \in Bits, ~(x - m \in 0..(size - 1))
        PROVE  x \in e.data[v] <=> x \in b.data[v]
    <3>1. x \in Int /\ x - m \notin s
      BY <1>0, <1>2, <2>1 DEF Bits
    <3> HIDE DEF s, v, m
    <3>2. x \notin SHL(s, m)
      BY <1>4, <3>1
    <3>3. QED
      BY <1>3, <3>2
  <2>2. ChangesOnly(e, b, size, pos)
    BY <1>3, <2>1 DEF ChangesOnly
  <2>3. HGetCode(e, p) = HGetCode(b, p)
    BY <1>5, <2>2, HOtherField
  <2>4. QED
    BY <1>5, <2>3 DEF HJoins
<1>6. CASE p = pos
  <2>1. HField(e, size, p) = HField(b, size, p) \cup s
    <3> HIDE DEF s
    <3>1. \A x \in 0..(size - 1) : x + m \in Int /\ (x + m) - m = x
      BY <1>1
    <3>2. s = {x \in 0..(size - 1) : x \in s}
      BY <1>2
    <3>3. QED
      BY <1>3, <1>4, <1>6, <3>1, <3>2 DEF HField
  <2>2. WordOf[HGetCode(b, p)] = HField(b, size, p)
    BY HGetField, WordOfValue
  <2>3. HGetCode(e, p) = ValueOf[HField(e, size, p)]
    BY HGetField
  <2>4. QED
    BY <1>6, <2>1, <2>2, <2>3 DEF HJoins
<1>7. QED
  BY <1>5, <1>6

\* The iterator replaces the code.
LEMMA HReplaceGet ==
  ASSUME NEW size \in 1..(kNumBitsPerWord - 1),
         NEW b, BlockOK(b, "kBitWeavingH", size),
         NEW pos \in 0..(kNumCodesPerBlock - 1),
         NEW code \in Nat, code < Pow2[size],
         NEW e, e = HReplaceCode(b, pos, code)
  PROVE  /\ BlockOK(e, "kBitWeavingH", size) /\ e.num = b.num
         /\ \A p \in 0..(kNumCodesPerBlock - 1) :
              HGetCode(e, p) = IF p = pos THEN code ELSE HGetCode(b, p)
<1> DEFINE v == HWordOf(size, pos)
           m == HShiftOf(size, pos)
           s == WordOf[code]
           word == (b.data[v] \ SHL(CodeBits(size), m)) \cup SHL(s, m)
           d == [b.data EXCEPT ![v] = word]
<1>0. kNumBitsPerWord \in Nat
  BY BitWordsAssumption
<1>1. v \in DOMAIN b.data /\ m \in Nat /\ m + size < kNumBitsPerWord
  <2> HIDE DEF v, m
  <2>1. QED
    BY HPlace, HData DEF v, m
<1>2. s \in SUBSET (0..(size - 1))
  BY SmallWord, <1>0
<1>3. word \in Word
  <2> HIDE DEF s, m, v
  <2>1. b.data[v] \in Word
    BY <1>1, HData
  <2>2. QED
    BY <2>1 DEF Word, SHL
<1>4. e = [b EXCEPT !.data = d]
  <2> DEFINE c == b.data[v] \ SHL(CodeBits(size), m)
             f == [b.data EXCEPT ![v] = c]
             a == [b EXCEPT !.data = f]
  <2>0. b.size = size
    BY HData
  <2>1. e = HSetCode(a, pos, code)
    BY <2>0 DEF HReplaceCode
  <2>2. a.size = size /\ a.data = f /\ f[v] = c
    <3> HIDE DEF c, v
    <3>1. f[v] = c
      BY <1>1
    <3> HIDE DEF f
    <3>2. QED
      BY HData, <3>1
  <2>3. HSetCode(a, pos, code)
          = [a EXCEPT !.data = [a.data EXCEPT ![v] = a.data[v] \cup SHL(s, m)]]
    <3> HIDE DEF a
    <3>1. QED
      BY <2>2 DEF HSetCode
  <2>4. [f EXCEPT ![v] = f[v] \cup SHL(s, m)] = d
    <3> HIDE DEF v, m, s
    <3>1. QED
      BY <1>1
  <2> HIDE DEF d, f
  <2>5. [a EXCEPT !.data = d] = [b EXCEPT !.data = d]
    BY HData
  <2> HIDE DEF a
  <2>6. QED
    BY <2>1, <2>2, <2>3, <2>4, <2>5
<1> HIDE DEF word
<1>5. DataOK("kBitWeavingH", size, d)
  <2> HIDE DEF v
  <2>1. QED
    BY <1>3 DEF DataOK, BlockOK
<1>6. BlockOK(e, "kBitWeavingH", size) /\ e.num = b.num /\ e.data = d
  <2> HIDE DEF d
  <2>1. QED
    BY <1>4, <1>5, WithData
<1>7. /\ \A w \in DOMAIN b.data : w # v => e.data[w] = b.data[w]
      /\ e.data[v] = word
  <2> HIDE DEF v
  <2>1. /\ \A w \in DOMAIN b.data : w # v => d[w] = b.data[w]
        /\ d[v] = word
    BY <1>1
  <2> HIDE DEF d
  <2>2. QED
    BY <1>6, <2>1
<1>8. \A x \in Int : /\ x \in SHL(s, m) <=> x - m \in s
                     /\ x \in SHL(CodeBits(size), m) <=> x - m \in 0..(size - 1)
  <2> HIDE DEF s, m
  <2>1. QED
    BY <1>1, <1>2, ShiftedCode DEF CodeBits
<1>9. ASSUME NEW p \in 0..(kNumCodesPerBlock - 1)
      PROVE  HGetCode(e, p) = IF p = pos THEN code ELSE HGetCode(b, p)
  <2>1. CASE p # pos
    <3>1. ASSUME NEW x \in Bits, ~(x - m \in 0..(size - 1))
          PROVE  x \in e.data[v] <=> x \in b.data[v]
      <4>1. x \in Int /\ x - m \notin s
        BY <1>0, <1>2, <3>1 DEF Bits
      <4> HIDE DEF s, v, m
      <4>2. x \notin SHL(s, m) /\ x \notin SHL(CodeBits(size), m)
        BY <1>8, <3>1, <4>1
      <4>3. QED
        BY <1>7, <4>2 DEF word
    <3>2. ChangesOnly(e, b, size, pos)
      BY <1>7, <3>1 DEF ChangesOnly
    <3>3. HGetCode(e, p) = HGetCode(b, p)
      BY <1>6, <2>1, <3>2, HOtherField
    <3>4. QED
      BY <2>1, <3>3
  <2>2. CASE p = pos
    <3>1. HField(e, size, p) = s
      <4> HIDE DEF s
      <4>1. \A x \in 0..(size - 1) : x + m \in Int /\ (x + m) - m = x
        BY <1>1
      <4>2. s = {x \in 0..(size - 1) : x \in s}
        BY <1>2
      <4>3. QED
        BY <1>7, <1>8, <2>2, <4>1, <4>2 DEF HField, word
    <3>2. HGetCode(e, p) = ValueOf[s]
      BY <1>6, <3>1, HGetField
    <3>3. ValueOf[s] = code
      BY SmallWord, ValueOfWord, <1>0
    <3>4. QED
      BY <2>2, <3>2, <3>3
  <2>3. QED
    BY <2>1, <2>2
<1>10. QED
  BY <1>6, <1>9

K == kNumCodesPerBlock

\* A column is a record whose blocks have the shape of its format.  One that was
\* made without its file has no blocks, and codes of no bits.
ColumnOK(c) ==
  /\ c = [id |-> c.id, type |-> c.type, size |-> c.size, blocks |-> c.blocks]
  /\ c.id \in Nat
  /\ Len(c.blocks) \in Nat
  /\ c.blocks = [i \in 1..Len(c.blocks) |-> c.blocks[i]]
  /\ \A i \in 1..Len(c.blocks) : BlockOK(c.blocks[i], c.type, c.size)
  /\ \/ FormatOK(c.type, c.size)
     \/ c.type = "kNaive" /\ c.size = 0 /\ Len(c.blocks) = 0

\* All blocks but the last are full, which those of a file that was cut off may
\* not be.
Full(c) == \A i \in 1..(Len(c.blocks) - 1) : c.blocks[i].num = kNumCodesPerBlock

\* The column has the blocks of a table of num tuples.
Fits(c, num) ==
  /\ Full(c)
  /\ Len(c.blocks) = CEIL(num, kNumCodesPerBlock)
  /\ num > 0 => c.blocks[Len(c.blocks)].num = num % kNumCodesPerBlock

\* The same column, but for what its blocks hold.
SameShape(d, c) ==
  /\ ColumnOK(d)
  /\ d.id = c.id /\ d.type = c.type /\ d.size = c.size
  /\ Len(d.blocks) = Len(c.blocks)
  /\ \A i \in 1..Len(c.blocks) : d.blocks[i].num = c.blocks[i].num

\* The number of the blocks of num tuples.
LEMMA BlocksOf ==
  ASSUME NEW num \in Nat
  PROVE  /\ CEIL(num, kNumCodesPerBlock) \in Nat
         /\ num > 0 => CEIL(num, kNumCodesPerBlock) > 0
         /\ num = 0 => CEIL(num, kNumCodesPerBlock) = 0
  BY CeilBounds, BitWordsAssumption

\* A column of the same shape fits as many tuples.
LEMMA SameShapeFits ==
  ASSUME NEW c, NEW d, SameShape(d, c), ColumnOK(c), NEW num \in Nat, Fits(c, num)
  PROVE  Fits(d, num)
<1>1. num > 0 => Len(c.blocks) \in 1..Len(c.blocks)
  BY BlocksOf DEF Fits, ColumnOK
<1>2. Full(d)
  <2>1. \A i \in 1..(Len(c.blocks) - 1) : i \in 1..Len(c.blocks)
    BY DEF ColumnOK
  <2>2. QED
    BY <2>1 DEF Fits, Full, SameShape
<1>3. QED
  BY <1>1, <1>2 DEF Fits, SameShape

\* A sequence that is given element by element has its length and its domain.
LEMMA LenOfFunction ==
  ASSUME NEW n \in Nat, NEW f, f = [i \in 1..n |-> f[i]]
  PROVE  Len(f) = n /\ DOMAIN f = 1..n
<1>1. DOMAIN f = 1..n
  OBVIOUS
<1>2. f \in Seq(Range(f))
  <2> DEFINE R == {f[i] : i \in 1..n}
  <2>1. f \in [1..n -> R]
    OBVIOUS
  <2>2. f \in Seq(R)
    BY <2>1, IsASeq
  <2>3. Range(f) = R
    BY <1>1 DEF Range
  <2>4. QED
    BY <2>2, <2>3
<1>3. Len(f) \in Nat /\ DOMAIN f = 1..Len(f)
  BY <1>2, LenProperties
<1>4. QED
  <2> DEFINE l == Len(f)
  <2>1. l \in Nat /\ 1..l = 1..n
    BY <1>1, <1>3
  <2> HIDE DEF l
  <2>2. l = n
    <3>1. l <= n
      <4>1. CASE l = 0
        BY <4>1
      <4>2. CASE l > 0
        <5>1. l \in 1..n
          BY <2>1, <4>2
        <5>2. QED
          BY <5>1, <2>1
      <4>3. QED
        BY <4>1, <4>2, <2>1
    <3>2. n <= l
      <4>1. CASE n = 0
        BY <4>1, <2>1
      <4>2. CASE n > 0
        <5>1. n \in 1..l
          BY <2>1, <4>2
        <5>2. QED
          BY <5>1, <2>1
      <4>3. QED
        BY <4>1, <4>2
    <3>3. QED
      BY <3>1, <3>2, <2>1
  <2>3. QED
    BY <2>2, <1>1 DEF l

\* No blocks.
LEMMA EmptyBlocks == Len(<<>>) = 0 /\ <<>> = [i \in 1..0 |-> <<>>[i]]
  OBVIOUS

\* A new column has no blocks.
LEMMA NewColumnOK ==
  ASSUME NEW id \in Nat, NEW type, NEW size,
         FormatOK(type, size) \/ (type = "kNaive" /\ size = 0)
  PROVE  /\ ColumnOK(NewColumn(id, type, size))
         /\ Len(NewColumn(id, type, size).blocks) = 0
         /\ Fits(NewColumn(id, type, size), 0)
<1>1. 1..(0 - 1) = {} /\ 1..0 = {}
  OBVIOUS
<1>2. QED
  BY <1>1, EmptyBlocks, BlocksOf DEF ColumnOK, NewColumn, Fits, Full

\* The column can be resized: it has a format, or the blocks already.
Resizable(c, num) ==
  FormatOK(c.type, c.size) \/ CEIL(num, kNumCodesPerBlock) <= Len(c.blocks)

\* The blocks of d have the data of those of c, and what those of c do not have
\* is as in a new block.
HasDataOf(d, c, junk) ==
  \A i \in 1..Len(d.blocks) :
    d.blocks[i].data =
      IF i <= Len(c.blocks) THEN c.blocks[i].data
      ELSE CreateColumnBlock(c.type, c.size, junk).data

\* After Resize a column has the blocks of num tuples, full if they were full.
\* Those it had before hold what they did, the others what a new block holds.
LEMMA ResizeOK ==
  ASSUME NEW c, ColumnOK(c), NEW num \in Nat, NEW junk \in Nat,
         Resizable(c, num), NEW d, d = ColumnResize(c, num, junk)
  PROVE  /\ ColumnOK(d) /\ (Full(c) => Fits(d, num))
         /\ Len(d.blocks) = CEIL(num, kNumCodesPerBlock)
         /\ d.id = c.id /\ d.type = c.type /\ d.size = c.size
         /\ HasDataOf(d, c, junk)
<1> DEFINE wanted == CEIL(num, kNumCodesPerBlock)
           own == Len(c.blocks)
           new == CreateColumnBlock(c.type, c.size, junk)
           fresh == BlockResize(new, kNumCodesPerBlock)
           block(i) == CASE i > own -> fresh
                         [] i = own /\ own < wanted ->
                              BlockResize(c.blocks[i], kNumCodesPerBlock)
                         [] OTHER -> c.blocks[i]
           blocks == [i \in 1..wanted |->
                        IF i = wanted
                        THEN BlockResize(block(i), num % kNumCodesPerBlock)
                        ELSE block(i)]
           type == c.type
           size == c.size
<1>0. wanted \in Nat /\ own \in Nat /\ (num > 0 => wanted > 0)
  BY BlocksOf DEF ColumnOK
<1>1. d = [c EXCEPT !.blocks = blocks]
  BY DEF ColumnResize
<1>2. /\ d = [id |-> c.id, type |-> c.type, size |-> c.size, blocks |-> blocks]
      /\ c.id \in Nat
  <2> HIDE DEF blocks
  <2>1. QED
    BY <1>1 DEF ColumnOK
<1>3. Len(blocks) = wanted /\ DOMAIN blocks = 1..wanted
  <2> HIDE DEF wanted, block
  <2>1. blocks = [i \in 1..wanted |-> blocks[i]]
    OBVIOUS
  <2> HIDE DEF blocks
  <2>2. QED
    BY <1>0, <2>1, LenOfFunction
<1>4. num % kNumCodesPerBlock \in 0..kNumCodesPerBlock
      /\ kNumCodesPerBlock \in 0..kNumCodesPerBlock
  BY BitWordsAssumption
<1>5. ASSUME NEW i \in 1..wanted
      PROVE  /\ BlockOK(block(i), type, size)
             /\ Full(c) /\ i < wanted => block(i).num = kNumCodesPerBlock
             /\ block(i).data = IF i <= own THEN c.blocks[i].data ELSE new.data
  <2>1. CASE i > own
    <3>1. FormatOK(type, size)
      BY <2>1, <1>0 DEF Resizable
    <3>2. BlockOK(new, type, size)
      BY <3>1, NewBlockOK
    <3> HIDE DEF new, wanted, own, type, size
    <3>3. BlockOK(fresh, type, size) /\ fresh.num = kNumCodesPerBlock
          /\ fresh.data = new.data
      BY <3>2, <1>4, ResizedBlockOK
    <3>4. block(i) = fresh
      BY <2>1
    <3> HIDE DEF fresh, block
    <3>5. QED
      BY <2>1, <3>3, <3>4, <1>0
  <2>2. CASE i = own /\ own < wanted
    <3>1. BlockOK(c.blocks[i], type, size)
      BY <2>2, <1>0 DEF ColumnOK
    <3> DEFINE b == c.blocks[i]
               e == BlockResize(b, kNumCodesPerBlock)
    <3>2. block(i) = e
      BY <2>2, <1>0
    <3> HIDE DEF b, type, size
    <3>3. BlockOK(e, type, size) /\ e.num = kNumCodesPerBlock /\ e.data = b.data
      BY <3>1, <1>4, ResizedBlockOK DEF b
    <3> HIDE DEF e, block
    <3>4. QED
      BY <2>2, <3>2, <3>3, <1>0 DEF b
  <2>3. CASE ~(i > own) /\ ~(i = own /\ own < wanted)
    <3>1. block(i) = c.blocks[i]
      BY <2>3
    <3>2. BlockOK(c.blocks[i], type, size)
          /\ (Full(c) /\ i < wanted => c.blocks[i].num = kNumCodesPerBlock)
      BY <2>3, <1>0 DEF ColumnOK, Full
    <3> HIDE DEF block, type, size, new, wanted
    <3>3. QED
      BY <2>3, <3>1, <3>2
  <2>4. QED
    BY <2>1, <2>2, <2>3
<1>6. ASSUME NEW i \in 1..wanted
      PROVE  /\ BlockOK(blocks[i], type, size)
             /\ Full(c) /\ i < wanted => blocks[i].num = kNumCodesPerBlock
             /\ i = wanted => blocks[i].num = num % kNumCodesPerBlock
             /\ blocks[i].data = IF i <= own THEN c.blocks[i].data ELSE new.data
  <2> DEFINE b == block(i)
             e == BlockResize(b, num % kNumCodesPerBlock)
  <2>1. /\ BlockOK(b, type, size)
        /\ Full(c) /\ i < wanted => b.num = kNumCodesPerBlock
        /\ b.data = IF i <= own THEN c.blocks[i].data ELSE new.data
    BY <1>5
  <2>2. blocks[i] = IF i = wanted THEN e ELSE b
    OBVIOUS
  <2> HIDE DEF b, new, wanted, own, blocks, type, size
  <2>3. BlockOK(e, type, size) /\ e.num = num % kNumCodesPerBlock
        /\ e.data = b.data
    BY <2>1, <1>4, ResizedBlockOK
  <2> HIDE DEF e
  <2>4. CASE i = wanted
    BY <2>1, <2>2, <2>3, <2>4
  <2>5. CASE i # wanted
    BY <2>1, <2>2, <2>5
  <2>6. QED
    BY <2>4, <2>5
<1> HIDE DEF blocks, new
<1>7. blocks = [i \in 1..wanted |-> blocks[i]]
  <2> HIDE DEF wanted
  <2>1. QED
    BY DEF blocks
<1>8. FormatOK(c.type, c.size) \/ (c.type = "kNaive" /\ c.size = 0 /\ wanted = 0)
  BY <1>0 DEF ColumnOK, Resizable
<1> HIDE DEF wanted, own
<1>9. ColumnOK(d)
  BY <1>0, <1>2, <1>3, <1>6, <1>7, <1>8 DEF ColumnOK
<1>10. Full(c) => Fits(d, num)
  <2>1. d.blocks = blocks /\ Len(d.blocks) = wanted
    BY <1>2, <1>3
  <2>2. num > 0 => wanted \in 1..wanted
    BY <1>0
  <2>3. num > 0 => blocks[wanted].num = num % kNumCodesPerBlock
    BY <1>6, <2>2
  <2>4. Full(c) => Full(d)
    <3>1. \A i \in 1..(wanted - 1) : i \in 1..wanted /\ i < wanted
      BY <1>0
    <3>2. QED
      BY <1>6, <2>1, <3>1 DEF Full
  <2>5. QED
    BY <2>1, <2>3, <2>4 DEF Fits, wanted
<1>11. \A i \in 1..Len(d.blocks) :
              d.blocks[i].data =
                IF i <= Len(c.blocks) THEN c.blocks[i].data ELSE new.data
  BY <1>2, <1>3, <1>6 DEF own
<1>12. QED
  BY <1>2, <1>3, <1>9, <1>10, <1>11 DEF new, HasDataOf, wanted

\* What setting a code leaves where another one was.
Joined(type, old, code) ==
  IF type = "kBitWeavingH" THEN ValueOf[WordOf[old] \cup WordOf[code]] ELSE code

\* What a block holds that nothing has been written to.
Unwritten(type, junk) == IF type = "kNaive" THEN junk ELSE 0

\* A code that fits the codes of a column.
CodeFits(type, size, code) ==
  code \in Nat /\ (type = "kNaive" \/ code < Pow2[size])

\* SetCode of a block of any format changes the code at its position, to what
\* it joins to, and no other.
LEMMA BlockSetGet ==
  ASSUME NEW type, NEW size, FormatOK(type, size),
         NEW b, BlockOK(b, type, size),
         NEW pos \in Nat, pos < b.num,
         NEW code, CodeFits(type, size, code),
         NEW p \in 0..(kNumCodesPerBlock - 1)
  PROVE  BlockGetCode(BlockSetCode(b, pos, code), p)
           = IF p = pos THEN Joined(type, BlockGetCode(b, p), code)
             ELSE BlockGetCode(b, p)
<1> DEFINE e == BlockSetCode(b, pos, code)
<1>0. /\ b.type = type /\ b.size = size /\ code \in Nat
      /\ ~(pos >= b.num)
      /\ BlockOK(e, type, size)
      /\ pos \in 0..(kNumCodesPerBlock - 1)
      /\ size \in 1..(kNumBitsPerWord - 1) /\ size \in 1..kNumBitsPerWord
  BY SetBlockOK, BitWordsAssumption DEF BlockOK, CodeFits, FormatOK
<1>1. e.type = type
  BY <1>0 DEF BlockOK
<1>2. CASE type = "kNaive"
  <2>1. e = NaiveSetCode(b, pos, code)
    BY <1>0, <1>2 DEF BlockSetCode
  <2>2. b.data \in [0..(kNumCodesPerBlock - 1) -> Nat]
    BY <1>2 DEF BlockOK, DataOK
  <2>3. e.data = [b.data EXCEPT ![pos] = code]
    BY <2>1, <1>0 DEF NaiveSetCode, BlockOK
  <2>4. BlockGetCode(e, p) = e.data[p] /\ BlockGetCode(b, p) = b.data[p]
    BY <1>0, <1>1, <1>2 DEF BlockGetCode, NaiveGetCode
  <2> HIDE DEF e
  <2>5. e.data[p] = IF p = pos THEN code ELSE b.data[p]
    BY <1>0, <2>2, <2>3
  <2>6. QED
    BY <1>2, <2>4, <2>5 DEF Joined, e
<1>3. CASE type = "kBitWeavingH"
  <2>1. e = HSetCode(b, pos, code)
    BY <1>0, <1>3 DEF BlockSetCode
  <2>2. BlockGetCode(e, p) = HGetCode(e, p) /\ BlockGetCode(b, p) = HGetCode(b, p)
    BY <1>0, <1>1, <1>3 DEF BlockGetCode
  <2>3. code < Pow2[size]
    BY <1>3 DEF CodeFits
  <2> HIDE DEF e
  <2>6. /\ BlockOK(b, "kBitWeavingH", size) /\ BlockOK(e, "kBitWeavingH", size)
        /\ size \in 1..(kNumBitsPerWord - 1) /\ code \in Nat
        /\ pos \in 0..(kNumCodesPerBlock - 1)
    BY <1>0, <1>3 DEF e
  <2>4. HJoins(e, b, pos, code, p)
    BY <2>6, <2>1, <2>3, HSetGet
  <2>5. QED
    BY <1>3, <2>2, <2>4 DEF Joined, HJoins, e
<1>4. CASE type = "kBitWeavingV"
  <2>1. e = VSetCode(b, pos, code)
    BY <1>0, <1>4 DEF BlockSetCode
  <2>2. BlockGetCode(e, p) = VGetCode(e, p) /\ BlockGetCode(b, p) = VGetCode(b, p)
    BY <1>0, <1>1, <1>4 DEF BlockGetCode
  <2>3. code < Pow2[size]
    BY <1>4 DEF CodeFits
  <2> HIDE DEF e
  <2>4. VGetCode(e, p) = IF p = pos THEN code ELSE VGetCode(b, p)
    BY <1>0, <1>4, <2>1, <2>3, VSetGet
  <2>5. QED
    BY <1>4, <2>2, <2>4 DEF Joined, e
<1>5. QED
  BY <1>2, <1>3, <1>4 DEF FormatOK

\* A code depends on the data of its block, not on how many codes are in use.
LEMMA BlockGetData ==
  ASSUME NEW type, NEW size, NEW b, BlockOK(b, type, size),
         NEW e, BlockOK(e, type, size), e.data = b.data, NEW p
  PROVE  BlockGetCode(e, p) = BlockGetCode(b, p)
<1>1. b.type = type /\ e.type = type /\ b.size = size /\ e.size = size
  BY DEF BlockOK
<1>2. QED
  BY <1>1 DEF BlockGetCode, NaiveGetCode, HGetCode, VGetCode, VWord

\* No bits make 0.
LEMMA NoOnes ==
  ASSUME NEW n \in 0..kNumBitsPerWord
  PROVE  Number(n, {}) = 0
<1> DEFINE v == ShiftedIn({})
           S == {k \in Nat : k <= kNumBitsPerWord => v[k] = 0}
<1>1. v[0] = 0 /\ \A k \in 0..(kNumBitsPerWord - 1) : v[k + 1] = 2 * v[k]
  <2>1. /\ v[0] = 0
        /\ \A k \in 0..(kNumBitsPerWord - 1) :
             v[k + 1] = 2 * v[k] + (IF k \in {} THEN 1 ELSE 0)
    BY ShiftedInOf, Zenon
  <2>2. \A k \in 0..kNumBitsPerWord : v[k] \in Nat
    BY ShiftedInOf, Zenon
  <2> HIDE DEF v
  <2>3. QED
    BY <2>1, <2>2, BitWordsAssumption
<1> HIDE DEF v
<1>2. 0 \in S
  BY <1>1
<1>3. ASSUME NEW k \in Nat, k \in S
      PROVE  k + 1 \in S
  BY <1>1, <1>3, BitWordsAssumption
<1> HIDE DEF S
<1>4. \A k \in Nat : k \in S
  BY <1>2, <1>3, Induction
<1>5. QED
  BY <1>4, BitWordsAssumption DEF S, v, Number

\* What is read from a new block.
LEMMA NewBlockGet ==
  ASSUME NEW type, NEW size, FormatOK(type, size), NEW junk \in Nat,
         NEW b, BlockOK(b, type, size),
         b.data = CreateColumnBlock(type, size, junk).data,
         NEW p \in 0..(kNumCodesPerBlock - 1)
  PROVE  BlockGetCode(b, p) = Unwritten(type, junk)
<1> DEFINE e == CreateColumnBlock(type, size, junk)
<1>0. /\ size \in 1..(kNumBitsPerWord - 1) /\ size \in 0..kNumBitsPerWord
      /\ size \in Nat \ {0}
  BY BitWordsAssumption DEF FormatOK
<1>1. BlockOK(e, type, size)
  BY NewBlockOK
<1>2. e.type = type /\ e.size = size
  BY <1>1 DEF BlockOK
<1>3. BlockGetCode(e, p) = Unwritten(type, junk)
  <2>1. CASE type = "kNaive"
    BY <2>1 DEF CreateColumnBlock, BlockGetCode, NaiveGetCode, NewNaiveBlock, Unwritten
  <2>2. CASE type = "kBitWeavingH"
    <3> DEFINE w == HWordOf(size, p)
    <3>1. w \in 0..(HSegments(kNumCodesPerBlock, size) * HWordsPerSegment(size) - 1)
      BY <1>0, HPlace
    <3>2. e.data = [i \in 0..(HSegments(kNumCodesPerBlock, size)
                         * HWordsPerSegment(size) - 1) |-> {}]
      BY <2>2 DEF CreateColumnBlock, NewHBlock
    <3> HIDE DEF w, e
    <3>3. e.data[w] = {}
      BY <3>1, <3>2
    <3>4. HField(e, size, p) = {}
      BY <3>3 DEF HField, w
    <3>5. HGetCode(e, p) = ValueOf[{}]
      <4>1. BlockOK(e, "kBitWeavingH", size)
        BY <1>1, <2>2, Zenon
      <4>2. HGetCode(e, p) = ValueOf[HField(e, size, p)]
        BY <1>0, <4>1, HGetField, Zenon
      <4>3. QED
        BY <3>4, <4>2, Zenon
    <3>6. ValueOf[{}] = 0
      <4>1. {} \in Word /\ {kNumBitsPerWord - 1 - x : x \in {}} = {}
        BY DEF Word
      <4>2. kNumBitsPerWord \in 0..kNumBitsPerWord
        BY BitWordsAssumption
      <4>3. QED
        BY <4>1, <4>2, NoOnes DEF ValueOf
    <3>7. QED
      BY <1>2, <2>2, <3>5, <3>6 DEF BlockGetCode, Unwritten
  <2>3. CASE type = "kBitWeavingV"
    <3>1. ASSUME NEW i \in 0..(size - 1)
          PROVE  VWord(e, WordAt(p), i) = {}
      <4> DEFINE g == VGroupOf(i)
                 w == VWordOf(size, WordAt(p), i)
                 bits == VBitsOfGroup(size, g)
      <4>1. WordAt(p) \in 0..(VSegments - 1)
        BY BlockWords
      <4>2. /\ g \in 0..(CEIL(size, kNumBitsPerGroup) - 1)
            /\ w \in 0..(VSegments * bits - 1)
        BY <1>0, <4>1, VPlace
      <4>3. e.data = [group \in 0..(CEIL(size, kNumBitsPerGroup) - 1) |->
               [x \in 0..(VSegments * VBitsOfGroup(size, group) - 1) |-> {}]]
        BY <2>3 DEF CreateColumnBlock, NewVBlock
      <4> HIDE DEF g, w, e
      <4>4. e.data[g] = [x \in 0..(VSegments * bits - 1) |-> {}]
        BY <4>2, <4>3
      <4> HIDE DEF bits
      <4>5. e.data[g][w] = {}
        BY <4>2, <4>4
      <4>6. QED
        BY <4>5, <1>2 DEF VWord, g, w
    <3> HIDE DEF e
    <3>2. {i \in 0..(size - 1) : BitAt(p) \in VWord(e, WordAt(p), i)} = {}
      BY <3>1
    <3>3. VGetCode(e, p) = Number(size, {})
      BY <3>2, <1>2 DEF VGetCode
    <3>4. QED
      BY <1>0, <1>2, <2>3, <3>3, NoOnes DEF BlockGetCode, Unwritten
  <2>4. QED
    BY <2>1, <2>2, <2>3 DEF FormatOK
<1>4. QED
  BY <1>1, <1>3, BlockGetData

-----------------------------------------------------------------------------
(* Columns: the code of each tuple. *)

\* The code of a tuple, also where it would be read from a block to come.
CodeAt(c, t, junk) ==
  IF BlockOf(t) <= Len(c.blocks) THEN ColumnGetCode(c, t)
  ELSE Unwritten(c.type, junk)

\* A tuple is at a place of a block, and no other is there.
LEMMA PlaceOfTuple ==
  ASSUME NEW t \in Nat
  PROVE  /\ BlockOf(t) \in Nat \ {0}
         /\ PlaceOf(t) \in 0..(kNumCodesPerBlock - 1)
         /\ t = (BlockOf(t) - 1) * kNumCodesPerBlock + PlaceOf(t)
<1> DEFINE d == t \div kNumCodesPerBlock
           r == t % kNumCodesPerBlock
<1>1. d \in Nat /\ r \in 0..(kNumCodesPerBlock - 1)
      /\ t = kNumCodesPerBlock * d + r
  BY DivMod, BitWordsAssumption
<1>2. BlockOf(t) = d + 1 /\ PlaceOf(t) = r
  BY DEF BlockOf, PlaceOf
<1> HIDE DEF d, r
<1>3. BlockOf(t) - 1 = d /\ BlockOf(t) \in Nat \ {0}
  BY <1>1, <1>2
<1>4. d * kNumCodesPerBlock = kNumCodesPerBlock * d
  BY <1>1, BitWordsAssumption
<1>5. QED
  BY <1>1, <1>2, <1>3, <1>4

\* Two tuples are not at one place of one block.
LEMMA OneTuple ==
  ASSUME NEW t \in Nat, NEW u \in Nat,
         BlockOf(t) = BlockOf(u), PlaceOf(t) = PlaceOf(u)
  PROVE  t = u
  BY PlaceOfTuple

\* d is c but for block i, which is e.
OnlyBlock(d, c, i, e) ==
  \A j \in 1..Len(c.blocks) : d.blocks[j] = IF j = i THEN e ELSE c.blocks[j]

\* A block of a column can be replaced by one of its shape and length.
LEMMA WithBlock ==
  ASSUME NEW c, ColumnOK(c), NEW i \in 1..Len(c.blocks),
         NEW e, BlockOK(e, c.type, c.size), e.num = c.blocks[i].num,
         NEW d, d = [c EXCEPT !.blocks = [c.blocks EXCEPT ![i] = e]]
  PROVE  SameShape(d, c) /\ OnlyBlock(d, c, i, e)
<1> DEFINE bs == [c.blocks EXCEPT ![i] = e]
           n == Len(c.blocks)
<1>1. n \in Nat /\ c.blocks = [j \in 1..n |-> c.blocks[j]]
  BY DEF ColumnOK
<1>2. bs = [j \in 1..n |-> bs[j]]
      /\ \A j \in 1..n : bs[j] = IF j = i THEN e ELSE c.blocks[j]
  <2> HIDE DEF n
  <2>1. QED
    BY <1>1
<1> HIDE DEF bs
<1>3. d = [id |-> c.id, type |-> c.type, size |-> c.size, blocks |-> bs]
  BY DEF ColumnOK, bs
<1>4. Len(bs) = n
  <2> HIDE DEF n
  <2>1. QED
    BY <1>1, <1>2, LenOfFunction
<1>5. /\ c.id \in Nat
      /\ \A j \in 1..n : BlockOK(c.blocks[j], c.type, c.size)
      /\ FormatOK(c.type, c.size) \/ (c.type = "kNaive" /\ c.size = 0 /\ n = 0)
  BY DEF ColumnOK
<1>6. \A j \in 1..n : BlockOK(bs[j], c.type, c.size) /\ bs[j].num = c.blocks[j].num
  BY <1>2, <1>5
<1>7. /\ d.id = c.id /\ d.type = c.type /\ d.size = c.size /\ d.blocks = bs
  BY <1>3
<1> HIDE DEF n
<1>8. ColumnOK(d)
  BY <1>1, <1>2, <1>3, <1>4, <1>5, <1>6, <1>7 DEF ColumnOK
<1>9. QED
  BY <1>2, <1>4, <1>6, <1>7, <1>8 DEF SameShape, OnlyBlock, n

\* What that does to the codes.
LEMMA CodesWithBlock ==
  ASSUME NEW c, ColumnOK(c), NEW i \in 1..Len(c.blocks),
         NEW e, NEW d, SameShape(d, c), OnlyBlock(d, c, i, e),
         NEW u \in Nat, NEW junk
  PROVE  /\ BlockOf(u) = i => CodeAt(d, u, junk) = BlockGetCode(e, PlaceOf(u))
         /\ BlockOf(u) # i => CodeAt(d, u, junk) = CodeAt(c, u, junk)
<1>1. BlockOf(u) \in Nat \ {0} /\ Len(c.blocks) \in Nat
  BY PlaceOfTuple DEF ColumnOK
<1>2. Len(d.blocks) = Len(c.blocks) /\ d.type = c.type
  BY DEF SameShape
<1>3. CASE BlockOf(u) <= Len(c.blocks)
  BY <1>1, <1>2, <1>3 DEF CodeAt, ColumnGetCode, OnlyBlock
<1>4. CASE ~(BlockOf(u) <= Len(c.blocks))
  <2>1. BlockOf(u) # i
    BY <1>1, <1>4
  <2>2. QED
    BY <1>1, <1>2, <1>4, <2>1 DEF CodeAt
<1>5. QED
  BY <1>3, <1>4

\* A column has its own shape.
LEMMA SameShapeRefl ==
  ASSUME NEW c, ColumnOK(c)
  PROVE  SameShape(c, c)
  BY DEF SameShape

\* The shape of the shape is the shape.
LEMMA SameShapeTrans ==
  ASSUME NEW c, NEW d, NEW e, SameShape(d, c), SameShape(e, d)
  PROVE  SameShape(e, c)
  BY DEF SameShape


\* A column with a block has a format.
LEMMA FormatOfColumn ==
  ASSUME NEW c, ColumnOK(c), Len(c.blocks) # 0
  PROVE  FormatOK(c.type, c.size)
  BY DEF ColumnOK

\* Resize keeps the codes of the blocks that it keeps, those past the new end
\* too, and what is past the blocks is as nothing was written to it.
LEMMA ResizeCodes ==
  ASSUME NEW c, ColumnOK(c), NEW num \in Nat, NEW junk \in Nat,
         Resizable(c, num), NEW d, d = ColumnResize(c, num, junk), NEW t \in Nat
  PROVE  /\ BlockOf(t) <= CEIL(num, kNumCodesPerBlock)
              => CodeAt(d, t, junk) = CodeAt(c, t, junk)
         /\ ~(BlockOf(t) <= CEIL(num, kNumCodesPerBlock))
              => CodeAt(d, t, junk) = Unwritten(c.type, junk)
<1> DEFINE i == BlockOf(t)
           p == PlaceOf(t)
           n == Len(d.blocks)
           m == Len(c.blocks)
<1>1. /\ ColumnOK(d) /\ n = CEIL(num, kNumCodesPerBlock)
      /\ d.type = c.type /\ d.size = c.size
      /\ HasDataOf(d, c, junk)
  BY ResizeOK
<1>2. n = CEIL(num, kNumCodesPerBlock) /\ n \in Nat /\ m \in Nat
  BY <1>1 DEF ColumnOK
<1>3. i \in Nat \ {0} /\ p \in 0..(kNumCodesPerBlock - 1)
  BY PlaceOfTuple
<1> HIDE DEF i, p, n, m
<1>4. CASE ~(i <= n)
  <2>1. CodeAt(d, t, junk) = Unwritten(c.type, junk)
    BY <1>1, <1>4 DEF CodeAt, i, n
  <2>2. QED
    BY <2>1, <1>2, <1>4 DEF i
<1>5. CASE i <= n /\ i <= m
  <2>1. i \in 1..n /\ i \in 1..m
    BY <1>2, <1>3, <1>5
  <2> DEFINE b == c.blocks[i]
             e == d.blocks[i]
  <2>2. BlockOK(b, c.type, c.size) /\ BlockOK(e, c.type, c.size)
    BY <1>1, <2>1 DEF ColumnOK, n, m
  <2>3. e.data = b.data
    BY <1>1, <1>5, <2>1 DEF n, m, HasDataOf
  <2> HIDE DEF b, e
  <2>4. BlockGetCode(e, p) = BlockGetCode(b, p)
    BY <2>2, <2>3, BlockGetData
  <2>5. CodeAt(d, t, junk) = BlockGetCode(e, p)
        /\ CodeAt(c, t, junk) = BlockGetCode(b, p)
    BY <1>5 DEF CodeAt, ColumnGetCode, e, b, i, p, n, m
  <2>6. QED
    BY <2>4, <2>5, <1>2, <1>5 DEF i
<1>6. CASE i <= n /\ ~(i <= m)
  <2>1. i \in 1..n
    BY <1>2, <1>3, <1>6
  <2> DEFINE e == d.blocks[i]
  <2>2. FormatOK(c.type, c.size)
    BY <1>2, <1>3, <1>6 DEF m, Resizable
  <2>3. BlockOK(e, c.type, c.size)
    BY <1>1, <2>1 DEF ColumnOK, n
  <2>4. e.data = CreateColumnBlock(c.type, c.size, junk).data
    BY <1>1, <1>6, <2>1 DEF n, m, HasDataOf
  <2> HIDE DEF e
  <2>5. BlockGetCode(e, p) = Unwritten(c.type, junk)
    BY <1>3, <2>2, <2>3, <2>4, NewBlockGet
  <2>6. CodeAt(d, t, junk) = BlockGetCode(e, p)
        /\ CodeAt(c, t, junk) = Unwritten(c.type, junk)
    BY <1>6 DEF CodeAt, ColumnGetCode, e, i, p, n, m
  <2>7. QED
    BY <2>5, <2>6, <1>2, <1>6 DEF i
<1>7. QED
  BY <1>4, <1>5, <1>6

\* d has the codes of c, but for code at tuple t, if that is readable.
SetsCode(d, c, t, code, junk) ==
  \A u \in Nat :
    CodeAt(d, u, junk) = IF u = t /\ Readable(c, t)
                         THEN Joined(c.type, CodeAt(c, u, junk), code)
                         ELSE CodeAt(c, u, junk)

\* SetCode of a column that has a block for the tuple.
LEMMA SetCodes ==
  ASSUME NEW c, ColumnOK(c), NEW t \in Nat, BlockOf(t) <= Len(c.blocks),
         NEW code, CodeFits(c.type, c.size, code), NEW junk,
         NEW d, d = ColumnSetCode(c, t, code)
  PROVE  SameShape(d, c) /\ SetsCode(d, c, t, code, junk)
<1> DEFINE i == BlockOf(t)
           p == PlaceOf(t)
           n == Len(c.blocks)
           b == c.blocks[i]
           e == BlockSetCode(b, p, code)
           type == c.type
<1>1. i \in 1..n /\ n # 0 /\ p \in Nat /\ p \in 0..(kNumCodesPerBlock - 1)
  BY PlaceOfTuple DEF ColumnOK
<1>2. FormatOK(type, c.size) /\ BlockOK(b, type, c.size)
  BY <1>1, FormatOfColumn DEF ColumnOK
<1>3. code \in Nat
  BY DEF CodeFits
<1>4. d = [c EXCEPT !.blocks = [c.blocks EXCEPT ![i] = e]]
  BY DEF ColumnSetCode
<1>5. DOMAIN c.blocks = 1..n
  BY DEF ColumnOK
<1>6. Readable(c, t) <=> p < b.num
  BY <1>1, <1>5 DEF Readable
<1> HIDE DEF b, p
<1>7. BlockOK(e, type, c.size) /\ e.num = b.num
  BY <1>1, <1>2, <1>3, SetBlockOK
<1>8. ASSUME NEW q \in 0..(kNumCodesPerBlock - 1)
      PROVE  BlockGetCode(e, q) = IF q = p /\ p < b.num
                                  THEN Joined(type, BlockGetCode(b, q), code)
                                  ELSE BlockGetCode(b, q)
  <2>1. CASE p < b.num
    BY <1>1, <1>2, <2>1, BlockSetGet
  <2>2. CASE ~(p < b.num)
    <3>1. p >= b.num
      BY <1>1, <1>2, <2>2, BitWordsAssumption DEF BlockOK
    <3>2. e = b
      BY <3>1 DEF BlockSetCode
    <3> HIDE DEF e
    <3>3. QED
      BY <2>2, <3>2
  <2>3. QED
    BY <2>1, <2>2
<1> HIDE DEF e, i, n
<1>9. SameShape(d, c) /\ OnlyBlock(d, c, i, e)
  BY <1>1, <1>2, <1>4, <1>7, WithBlock DEF b, n
<1>10. ASSUME NEW u \in Nat
       PROVE  CodeAt(d, u, junk) = IF u = t /\ Readable(c, t)
                         THEN Joined(type, CodeAt(c, u, junk), code)
                         ELSE CodeAt(c, u, junk)
  <2> DEFINE q == PlaceOf(u)
  <2>1. /\ BlockOf(u) = i => CodeAt(d, u, junk) = BlockGetCode(e, q)
        /\ BlockOf(u) # i => CodeAt(d, u, junk) = CodeAt(c, u, junk)
    BY <1>1, <1>9, CodesWithBlock DEF n
  <2>2. q \in 0..(kNumCodesPerBlock - 1)
    BY PlaceOfTuple
  <2>3. BlockOf(u) = i /\ q = p <=> u = t
    BY OneTuple DEF i, p, q
  <2>4. BlockOf(u) = i => CodeAt(c, u, junk) = BlockGetCode(b, q)
    BY <1>1 DEF CodeAt, ColumnGetCode, b, i, q, n
  <2> HIDE DEF q, type
  <2>5. CASE BlockOf(u) = i
    <3>1. CodeAt(d, u, junk) = BlockGetCode(e, q)
          /\ CodeAt(c, u, junk) = BlockGetCode(b, q)
      BY <2>1, <2>4, <2>5
    <3>2. QED
      BY <1>6, <1>8, <2>2, <2>3, <2>5, <3>1
  <2>6. CASE BlockOf(u) # i
    BY <2>1, <2>3, <2>6
  <2>7. QED
    BY <2>5, <2>6
<1>11. QED
  BY <1>9, <1>10 DEF SetsCode


\* Codes that fit a column.
CodesFit(type, size, codes) ==
  /\ Len(codes) \in Nat
  /\ \A i \in 1..Len(codes) : CodeFits(type, size, codes[i])

\* e is block b after the first n codes were set, from position start on.
HasLoaded(e, b, type, codes, start, n) ==
  \A p \in 0..(kNumCodesPerBlock - 1) :
    BlockGetCode(e, p) =
      IF p \in start..(start + n - 1)
      THEN Joined(type, BlockGetCode(b, p), codes[p - start + 1])
      ELSE BlockGetCode(b, p)

\* Bulkload of a block sets its codes, if they have room.
LEMMA BulkloadGet ==
  ASSUME NEW type, NEW size, FormatOK(type, size),
         NEW first, BlockOK(first, type, size),
         NEW codes, CodesFit(type, size, codes), NEW start \in Nat,
         Len(codes) > 0 => start + Len(codes) <= first.num
  PROVE  HasLoaded(BlockBulkload(first, codes, start), first, type, codes, start,
                   Len(codes))
<1>1. PICK f : BulkloadRun(f, first, codes, start)
  BY BulkloadSteps DEF CodesFit
<1> DEFINE P(i) == /\ BlockOK(f[i], type, size) /\ f[i].num = first.num
                   /\ HasLoaded(f[i], first, type, codes, start, i)
           S == {i \in Nat : i <= Len(codes) => P(i)}
<1>2. 0 \in S
  <2>1. f[0] = first
    BY <1>1 DEF BulkloadRun
  <2>2. \A p \in 0..(kNumCodesPerBlock - 1) : ~(p \in start..(start + 0 - 1))
    OBVIOUS
  <2>3. QED
    BY <2>1, <2>2 DEF HasLoaded
<1>3. ASSUME NEW i \in Nat, i \in S
      PROVE  i + 1 \in S
  <2> SUFFICES ASSUME i + 1 <= Len(codes) PROVE P(i + 1)
    OBVIOUS
  <2> DEFINE p == start + (i + 1) - 1
             c == codes[i + 1]
             e == f[i]
             n == f[i + 1]
  <2>1. /\ Len(codes) \in Nat
        /\ BlockOK(e, type, size) /\ e.num = first.num
        /\ HasLoaded(e, first, type, codes, start, i)
    BY <1>3 DEF CodesFit
  <2>2. p \in Nat /\ p = start + i /\ CodeFits(type, size, c) /\ c \in Nat
    BY DEF CodesFit, CodeFits
  <2>3. n = BlockSetCode(e, p, c)
    BY <1>1, <2>1 DEF BulkloadRun
  <2>4. p < e.num
    <3>1. first.num \in Nat
      BY BitWordsAssumption DEF BlockOK
    <3>2. QED
      BY <2>1, <2>2, <3>1
  <2> HIDE DEF p, e, n, S, c
  <2>5. BlockOK(n, type, size) /\ n.num = first.num
    <3>1. BlockOK(BlockSetCode(e, p, c), type, size)
      BY <2>1, <2>2, SetBlockOK
    <3>2. BlockSetCode(e, p, c).num = e.num
      BY <2>1, <2>2, SetBlockOK
    <3>3. QED
      BY <2>1, <2>3, <3>1, <3>2
  <2>6. ASSUME NEW q \in 0..(kNumCodesPerBlock - 1)
        PROVE  BlockGetCode(n, q) =
                 IF q \in start..(start + (i + 1) - 1)
                 THEN Joined(type, BlockGetCode(first, q), codes[q - start + 1])
                 ELSE BlockGetCode(first, q)
    <3>1. BlockGetCode(n, q) = IF q = p THEN Joined(type, BlockGetCode(e, q), c)
                               ELSE BlockGetCode(e, q)
      BY <2>1, <2>2, <2>3, <2>4, BlockSetGet
    <3>2. BlockGetCode(e, q) =
            IF q \in start..(start + i - 1)
            THEN Joined(type, BlockGetCode(first, q), codes[q - start + 1])
            ELSE BlockGetCode(first, q)
      BY <2>1 DEF HasLoaded
    <3>3. CASE q = p
      <4>1. q - start + 1 = i + 1 /\ q \in start..(start + (i + 1) - 1)
            /\ ~(q \in start..(start + i - 1))
        BY <2>2, <3>3
      <4>2. codes[q - start + 1] = c
        BY <4>1 DEF c
      <4>3. QED
        BY <3>1, <3>2, <3>3, <4>1, <4>2
    <3>4. CASE q # p
      <4>1. q \in start..(start + i - 1) <=> q \in start..(start + (i + 1) - 1)
        BY <2>2, <3>4
      <4>2. BlockGetCode(n, q) = BlockGetCode(e, q)
        BY <3>1, <3>4
      <4>3. QED
        BY <3>2, <4>1, <4>2
    <3>5. QED
      BY <3>3, <3>4
  <2>7. HasLoaded(n, first, type, codes, start, i + 1)
    BY <2>6 DEF HasLoaded
  <2>8. QED
    BY <2>5, <2>7 DEF n
<1>4. \A i \in Nat : i \in S
  <2> HIDE DEF S
  <2>1. QED
    BY <1>2, <1>3, Induction
<1>5. QED
  BY <1>1, <1>4 DEF BulkloadRun, CodesFit

-----------------------------------------------------------------------------
(* Bulkload of a column. *)

\* What block i is given when n codes are done, and from which place on.
PlaceIn(pos, i) == IF i = BlockOf(pos) THEN PlaceOf(pos) ELSE 0
Given(column, codes, pos, i, n) ==
  LET left == Len(codes) - n
      room == column.blocks[i].num - PlaceIn(pos, i)
  IN  IF i < BlockOf(pos) THEN 0
      ELSE IF room < 0 \/ left < room THEN left ELSE room

\* done[i] codes are in the first i blocks.
LoadRun(done, column, codes, pos) ==
  /\ done[0] = 0
  /\ \A i \in 1..Len(column.blocks) :
       done[i] = done[i - 1] + Given(column, codes, pos, i, done[i - 1])

LoadResult(done, column, codes, pos, result) ==
  result = [ok |-> /\ done[Len(column.blocks)] = Len(codes)
                   /\ \A i \in DOMAIN column.blocks :
                        Given(column, codes, pos, i, done[i - 1]) > 0 =>
                          PlaceIn(pos, i) + Given(column, codes, pos, i, done[i - 1])
                            <= column.blocks[i].num,
            column |-> [column EXCEPT !.blocks =
         [i \in DOMAIN @ |->
            BlockBulkload(@[i], SubSeq(codes, done[i - 1] + 1, done[i]),
                          PlaceIn(pos, i))]]]

\* The loop of Bulkload over the blocks, step by step.
LEMMA ColumnBulkloadSteps ==
  ASSUME NEW column, NEW codes, NEW pos, NEW result,
         result = ColumnBulkload(column, codes, pos), Len(column.blocks) \in Nat
  PROVE  \E done : /\ LoadRun(done, column, codes, pos)
                    /\ LoadResult(done, column, codes, pos, result)
<1> DEFINE place(i) == IF i = BlockOf(pos) THEN PlaceOf(pos) ELSE 0
           given(i, done) ==
             LET left == Len(codes) - done
                 room == column.blocks[i].num - place(i)
             IN  IF i < BlockOf(pos) THEN 0
                 ELSE IF room < 0 \/ left < room THEN left ELSE room
<1> DEFINE Val(f, i) == IF i = 0 THEN 0
                        ELSE f[i - 1] + given(i, f[i - 1])
           Is(f, n) == f = [i \in 0..n |-> Val(f, i)]
           S == {n \in Nat : \E f : Is(f, n)}
<1>1. 0 \in S
  <2>1. Is([i \in 0..0 |-> 0], 0)
    OBVIOUS
  <2>2. QED
    BY <2>1
<1>2. ASSUME NEW n \in Nat, n \in S
      PROVE  n + 1 \in S
  <2>1. PICK f : Is(f, n)
    BY <1>2
  <2> DEFINE g == [i \in 0..(n + 1) |-> Val(f, i)]
  <2>2. \A i \in 0..n : g[i] = f[i]
    BY <2>1
  <2>3. \A i \in 0..(n + 1) : Val(g, i) = Val(f, i)
    <3> HIDE DEF g
    <3>1. QED
      BY <2>2
  <2>4. Is(g, n + 1)
    <3> HIDE DEF Val
    <3>1. QED
      BY <2>3
  <2> HIDE DEF Is, g
  <2>5. QED
    BY <2>4
<1>3. \A n \in Nat : n \in S
  <2> HIDE DEF S
  <2>1. QED
    BY <1>1, <1>2, Induction
<1>4. PICK e : Is(e, Len(column.blocks))
  BY <1>3
<1> DEFINE done == CHOOSE done : Is(done, Len(column.blocks))
<1>5. Is(done, Len(column.blocks))
  BY <1>4, Zenon
<1>6. result = [ok |-> /\ done[Len(column.blocks)] = Len(codes)
              /\ \A i \in DOMAIN column.blocks :
                   given(i, done[i - 1]) > 0
                     => place(i) + given(i, done[i - 1]) <= column.blocks[i].num,
       column |-> [column EXCEPT !.blocks =
         [i \in DOMAIN @ |->
            BlockBulkload(@[i], SubSeq(codes, done[i - 1] + 1, done[i]),
                          place(i))]]]
  BY DEF ColumnBulkload
<1> HIDE DEF done
<1>7. \A i : place(i) = PlaceIn(pos, i)
      /\ \A n : given(i, n) = Given(column, codes, pos, i, n)
  BY DEF PlaceIn, Given
<1>8. LoadRun(done, column, codes, pos)
  <2>1. done[0] = 0
        /\ \A i \in 1..Len(column.blocks) :
             done[i] = done[i - 1] + given(i, done[i - 1])
    <3>1. \A i \in 0..Len(column.blocks) : done[i] = Val(done, i)
      <4> HIDE DEF Val
      <4>1. QED
        BY <1>5
    <3>2. Val(done, 0) = 0
          /\ \A i \in 1..Len(column.blocks) :
               Val(done, i) = done[i - 1] + given(i, done[i - 1])
      <4> HIDE DEF given
      <4>1. QED
        OBVIOUS
    <3> HIDE DEF Val, given
    <3>3. QED
      BY <3>1, <3>2
  <2> HIDE DEF given, place, Is, Val, S
  <2>2. QED
    BY <1>7, <2>1 DEF LoadRun
<1>9. LoadResult(done, column, codes, pos, result)
  BY <1>6 DEF LoadResult, PlaceIn, Given
<1>10. QED
  BY <1>8, <1>9


\* A block is given what there is or what it has room for.
GivenBounds(pos, i, left, room, g) ==
  /\ g \in 0..left
  /\ i < BlockOf(pos) => g = 0
  /\ ~(i < BlockOf(pos)) /\ room < 0 => g = left
  /\ ~(i < BlockOf(pos)) /\ ~(room < 0) => g <= room /\ (g = left \/ g = room)

\* A block is given no more codes than are left and than it has room for.
LEMMA GivenOf ==
  ASSUME NEW c, ColumnOK(c), NEW codes, Len(codes) \in Nat, NEW pos \in Nat,
         NEW i \in 1..Len(c.blocks), NEW m \in 0..Len(codes)
  PROVE  /\ c.blocks[i].num \in 0..kNumCodesPerBlock
         /\ PlaceIn(pos, i) \in 0..(kNumCodesPerBlock - 1)
         /\ GivenBounds(pos, i, Len(codes) - m,
                        c.blocks[i].num - PlaceIn(pos, i),
                        Given(c, codes, pos, i, m))
<1> DEFINE left == Len(codes) - m
           room == c.blocks[i].num - PlaceIn(pos, i)
           g == Given(c, codes, pos, i, m)
<1>1. c.blocks[i].num \in 0..kNumCodesPerBlock
  BY DEF ColumnOK, BlockOK
<1>2. PlaceIn(pos, i) \in 0..(kNumCodesPerBlock - 1)
  <2>1. PlaceOf(pos) \in 0..(kNumCodesPerBlock - 1)
    BY PlaceOfTuple
  <2>2. 0 \in 0..(kNumCodesPerBlock - 1)
    BY BitWordsAssumption
  <2>3. QED
    BY <2>1, <2>2 DEF PlaceIn
<1>3. room \in Int /\ left \in Nat
  BY <1>1, <1>2, BitWordsAssumption
<1>4. g = IF i < BlockOf(pos) THEN 0
          ELSE IF room < 0 \/ left < room THEN left ELSE room
  BY DEF Given
<1> HIDE DEF left, room, g
<1>5. GivenBounds(pos, i, left, room, g)
  <2>1. CASE i < BlockOf(pos)
    BY <1>3, <1>4, <2>1 DEF GivenBounds
  <2>2. CASE ~(i < BlockOf(pos)) /\ (room < 0 \/ left < room)
    BY <1>3, <1>4, <2>2 DEF GivenBounds
  <2>3. CASE ~(i < BlockOf(pos)) /\ ~(room < 0 \/ left < room)
    BY <1>3, <1>4, <2>3 DEF GivenBounds
  <2>4. QED
    BY <2>1, <2>2, <2>3
<1>6. QED
  BY <1>1, <1>2, <1>5 DEF left, room, g

\* The codes go to the blocks in their order, to one after the other.
LEMMA DoneRange ==
  ASSUME NEW c, ColumnOK(c), NEW codes, Len(codes) \in Nat, NEW pos \in Nat,
         NEW done, LoadRun(done, c, codes, pos)
  PROVE  \A i \in 0..Len(c.blocks) :
           /\ done[i] \in 0..Len(codes)
           /\ i < BlockOf(pos) => done[i] = 0
<1> DEFINE L == Len(codes)
           n == Len(c.blocks)
           P(i) == done[i] \in 0..L /\ (i < BlockOf(pos) => done[i] = 0)
           S == {i \in Nat : i <= n => P(i)}
<1>1. n \in Nat /\ BlockOf(pos) \in Nat /\ done[0] = 0
  BY PlaceOfTuple DEF ColumnOK, LoadRun
<1>2. 0 \in S
  BY <1>1
<1>3. ASSUME NEW i \in Nat, i \in S
      PROVE  i + 1 \in S
  <2> SUFFICES ASSUME i + 1 <= n PROVE P(i + 1)
    OBVIOUS
  <2> DEFINE m == done[i]
             g == Given(c, codes, pos, i + 1, m)
             e == done[i + 1]
  <2>1. m \in 0..L /\ (i < BlockOf(pos) => m = 0)
    BY <1>1, <1>3
  <2>2. i + 1 \in 1..n /\ (i + 1) - 1 = i
    BY <1>1
  <2>3. e = m + g
    BY <2>2 DEF LoadRun
  <2>4. g \in 0..(L - m) /\ (i + 1 < BlockOf(pos) => g = 0)
    <3> HIDE DEF m, S, n
    <3>1. GivenBounds(pos, i + 1, L - m, c.blocks[i + 1].num - PlaceIn(pos, i + 1), g)
      BY <2>1, <2>2, GivenOf DEF n
    <3>2. QED
      BY <3>1 DEF GivenBounds
  <2>5. L \in Nat
    OBVIOUS
  <2> HIDE DEF m, g, e, L, n
  <2>6. e \in 0..L /\ (i + 1 < BlockOf(pos) => e = 0)
    <3>1. i + 1 < BlockOf(pos) => i < BlockOf(pos)
      BY <1>1
    <3>2. QED
      BY <2>1, <2>3, <2>4, <2>5, <3>1
  <2>7. QED
    BY <2>6 DEF e, L
<1>4. \A i \in Nat : i \in S
  <2> HIDE DEF S
  <2>1. QED
    BY <1>2, <1>3, Induction
<1>5. QED
  BY <1>1, <1>4

\* What is done is at the front of what block i begins with.
Reaches(done, codes, pos, i) ==
  /\ pos + done[i - 1] <= (i - 1) * kNumCodesPerBlock + PlaceIn(pos, i)
  /\ done[i - 1] < Len(codes)
       => pos + done[i - 1] = (i - 1) * kNumCodesPerBlock + PlaceIn(pos, i)

\* Full blocks are given the codes one after the other, without a gap.
LEMMA Contiguous ==
  ASSUME NEW c, ColumnOK(c), Full(c), NEW codes, Len(codes) \in Nat, NEW pos \in Nat,
         NEW done, LoadRun(done, c, codes, pos)
  PROVE  \A i \in 1..Len(c.blocks) :
           i >= BlockOf(pos) => Reaches(done, codes, pos, i)
<1> DEFINE L == Len(codes)
           n == Len(c.blocks)
           b == BlockOf(pos)
           K0 == kNumCodesPerBlock
           S == {k \in Nat : b + k <= n => Reaches(done, codes, pos, b + k)}
<1>0. K0 \in Nat \ {0}
  BY BitWordsAssumption
<1>1. n \in Nat /\ b \in Nat \ {0} /\ pos = (b - 1) * K0 + PlaceOf(pos)
  BY PlaceOfTuple DEF ColumnOK
<1>2. 0 \in S
  <2> SUFFICES ASSUME b <= n PROVE Reaches(done, codes, pos, b)
    BY <1>1
  <2>1. done[b - 1] = 0
    <3>1. b - 1 \in 0..n /\ b - 1 < b
      BY <1>1
    <3> HIDE DEF b, n
    <3>2. QED
      BY <3>1, DoneRange DEF n, b
  <2>2. PlaceIn(pos, b) = PlaceOf(pos)
    BY DEF PlaceIn
  <2>3. pos + 0 = pos
    OBVIOUS
  <2>4. (b - 1) * K0 + PlaceOf(pos) <= (b - 1) * K0 + PlaceOf(pos)
    BY <1>1
  <2> HIDE DEF b, n, S
  <2>5. QED
    BY <1>1, <2>1, <2>2, <2>3, <2>4 DEF Reaches
<1>3. ASSUME NEW k \in Nat, k \in S
      PROVE  k + 1 \in S
  <2> SUFFICES ASSUME b + (k + 1) <= n PROVE Reaches(done, codes, pos, b + (k + 1))
    OBVIOUS
  <2> DEFINE i == b + k
             m == done[i - 1]
             g == Given(c, codes, pos, i, m)
             e == done[i]
             place == PlaceIn(pos, i)
             base == (i - 1) * K0
  <2>1. i \in 1..n /\ i \in 1..(n - 1) /\ i \in Nat /\ ~(i < b) /\ i - 1 \in 0..n
        /\ i + 1 = b + (k + 1) /\ (i + 1) - 1 = i
    BY <1>1
  <2>2. Reaches(done, codes, pos, i)
    BY <1>1, <1>3
  <2>3. pos + m <= base + place /\ (m < L => pos + m = base + place)
    BY <2>2 DEF Reaches
  <2>4. m \in 0..L
    <3> HIDE DEF i, b, n, S
    <3>1. QED
      BY <2>1, DoneRange DEF n
  <2>5. e = m + g
    <3> HIDE DEF i, b
    <3>1. QED
      BY <2>1 DEF LoadRun
  <2>6. c.blocks[i].num = K0
    <3> HIDE DEF i, b
    <3>1. QED
      BY <2>1 DEF Full
  <2> DEFINE room == K0 - place
  <2> HIDE DEF m, i, b, n, S, e, base
  <2>7. /\ place \in 0..(K0 - 1) /\ g \in 0..(L - m)
        /\ ~(room < 0) => g <= room /\ (g = L - m \/ g = room)
    <3>1. place \in 0..(K0 - 1)
          /\ GivenBounds(pos, i, L - m, c.blocks[i].num - place, g)
      BY <2>1, <2>4, GivenOf DEF n
    <3>2. GivenBounds(pos, i, L - m, room, g)
      BY <2>6, <3>1
    <3> HIDE DEF g, room, place
    <3>3. QED
      BY <2>1, <3>1, <3>2 DEF b, GivenBounds
  <2> HIDE DEF place, g
  <2>8. base + K0 = i * K0 /\ base \in Nat
    <3>1. i - 1 \in Nat /\ (i - 1) * K0 + K0 = i * K0 /\ (i - 1) * K0 \in Nat
      BY <1>0, <1>1, <2>1
    <3>2. QED
      BY <3>1 DEF base
  <2>9. PlaceIn(pos, i + 1) = 0
    BY <1>1, <2>1 DEF PlaceIn, b
  <2>10. pos + e <= i * K0 /\ (e < L => pos + e = i * K0)
    <3> DEFINE end == i * K0
    <3>1. base + K0 = end
      BY <2>8
    <3> HIDE DEF end
    <3>2. L \in Nat
      OBVIOUS
    <3> HIDE DEF L
    <3>3. ~(room < 0)
      BY <2>7, <1>0
    <3>4. QED
      BY <1>0, <1>1, <2>3, <2>4, <2>5, <2>7, <2>8, <3>1, <3>2, <3>3 DEF end
  <2>11. Reaches(done, codes, pos, i + 1)
    <3>1. i * K0 + 0 = i * K0
      BY <1>0, <2>1
    <3>2. QED
      BY <2>1, <2>9, <2>10, <3>1 DEF Reaches, e
  <2>12. QED
    BY <2>1, <2>11
<1>4. \A k \in Nat : k \in S
  <2> HIDE DEF S
  <2>1. QED
    BY <1>2, <1>3, Induction
<1>5. ASSUME NEW i \in 1..n, i >= b
      PROVE  Reaches(done, codes, pos, i)
  <2>1. i - b \in Nat /\ b + (i - b) = i
    BY <1>1, <1>5
  <2>2. b + (i - b) <= n => Reaches(done, codes, pos, b + (i - b))
    BY <1>4, <2>1
  <2>3. QED
    BY <1>1, <2>1, <2>2
<1>6. QED
  BY <1>5


\* Exactly the tuples that the codes are for are loaded, each with its own.
LoadsPlace(pos, codes, t, q, place, m, g) ==
  /\ q \in place..(place + g - 1) <=> t \in pos..(pos + Len(codes) - 1)
  /\ q \in place..(place + g - 1) => t - pos = m + (q - place)

\* The places that are given codes are those of the tuples.
LEMMA SameRange ==
  ASSUME NEW q \in Nat, NEW place \in Nat, NEW g \in Nat, NEW t \in Nat,
         NEW pos \in Nat, NEW L \in Nat, NEW m \in Nat,
         t - pos = m + (q - place), q < place => t < pos,
         \/ g = L - m
         \/ g < L - m /\ q < place + g
  PROVE  q \in place..(place + g - 1) <=> t \in pos..(pos + L - 1)
  OBVIOUS

\* A tuple is given its code, if there is one for it.
LEMMA TupleLoaded ==
  ASSUME NEW c, ColumnOK(c), Full(c), NEW codes, Len(codes) \in Nat, NEW pos \in Nat,
         NEW done, LoadRun(done, c, codes, pos),
         done[Len(c.blocks)] = Len(codes),
         NEW i \in 1..Len(c.blocks), NEW q \in 0..(kNumCodesPerBlock - 1),
         NEW t, t = (i - 1) * kNumCodesPerBlock + q
  PROVE  LoadsPlace(pos, codes, t, q, PlaceIn(pos, i), done[i - 1],
                    Given(c, codes, pos, i, done[i - 1]))
<1> DEFINE L == Len(codes)
           n == Len(c.blocks)
           b == BlockOf(pos)
           K0 == kNumCodesPerBlock
           m == done[i - 1]
           g == Given(c, codes, pos, i, m)
           place == PlaceIn(pos, i)
           base == (i - 1) * K0
           room == c.blocks[i].num - place
           pp == PlaceOf(pos)
<1>0. K0 \in Nat \ {0} /\ L \in Nat
  BY BitWordsAssumption
<1>1. n \in Nat /\ b \in Nat \ {0} /\ pos = (b - 1) * K0 + pp /\ pp \in 0..(K0 - 1)
  BY PlaceOfTuple DEF ColumnOK
<1>2. m \in 0..L
  <2>1. i - 1 \in 0..n
    BY <1>1
  <2> HIDE DEF n
  <2>2. QED
    BY <2>1, DoneRange DEF n
<1>3. /\ place \in 0..(K0 - 1) /\ c.blocks[i].num \in 0..K0
      /\ GivenBounds(pos, i, L - m, room, g)
  <2> HIDE DEF m
  <2>1. QED
    BY <1>2, GivenOf
<1>4. base \in Nat /\ i \in Nat
  <2>1. i - 1 \in Nat
    OBVIOUS
  <2>2. QED
    BY <1>0, <2>1
<1>5. i = b => base + place = pos
  BY <1>1 DEF PlaceIn
<1>6. i # b => place = 0
  BY DEF PlaceIn
<1>7. i >= b => pos + m <= base + place /\ (m < L => pos + m = base + place)
  BY Contiguous DEF Reaches
<1>8. i < n => c.blocks[i].num = K0
  <2>1. i < n => i \in 1..(n - 1)
    BY <1>1
  <2>2. QED
    BY <2>1 DEF Full
<1>9. i = n => m + g = L
  BY DEF LoadRun
<1>10. t = base + q
  OBVIOUS
<1> DEFINE num == c.blocks[i].num
<1>11. num \in 0..K0 /\ room = num - place /\ (i < n => num = K0)
  BY <1>3, <1>8
<1> HIDE DEF L, n, b, m, g, place, base, room, num, pp
<1>12. CASE i < b
  <2>1. g = 0
    BY <1>3, <1>12 DEF GivenBounds, b
  <2>2. PICK e \in Nat : b - 1 = i + e
    <3>1. b - 1 - i \in Nat /\ b - 1 = i + (b - 1 - i)
      BY <1>1, <1>4, <1>12
    <3>2. QED
      BY <3>1
  <2>3. (b - 1) * K0 = base + K0 + e * K0 /\ e * K0 \in Nat
    <3>1. (i + e) * K0 = (i - 1) * K0 + K0 + e * K0 /\ e * K0 \in Nat
      BY <1>0, <1>4, <2>2
    <3>2. QED
      BY <2>2, <3>1 DEF base
  <2>4. t < pos
    <3> DEFINE x == (b - 1) * K0
               y == e * K0
    <3>1. x = base + K0 + y /\ y \in Nat /\ pos = x + pp
      BY <1>1, <2>3
    <3> HIDE DEF x, y
    <3>2. QED
      BY <1>0, <1>1, <1>4, <1>10, <3>1
  <2>5. QED
    BY <1>0, <1>3, <1>4, <1>10, <2>1, <2>4 DEF LoadsPlace, place, g, m, L
<1>13. CASE i >= b
  <2>1. pos + m <= base + place /\ (m < L => pos + m = base + place)
    BY <1>7, <1>13
  <2>2. g \in 0..(L - m) /\ (room < 0 => g = L - m)
        /\ (~(room < 0) => g <= room /\ (g = L - m \/ g = room))
    BY <1>1, <1>3, <1>4, <1>13 DEF GivenBounds, b
  <2>3. q < place => t < pos
    BY <1>0, <1>3, <1>4, <1>5, <1>6, <1>10
  <2>4. CASE m = L
    <3>1. g = 0
      BY <1>0, <2>2, <2>4
    <3>2. ~(t \in pos..(pos + L - 1))
      BY <1>0, <1>2, <1>3, <1>4, <1>10, <2>1, <2>3, <2>4
    <3>3. QED
      BY <1>0, <1>3, <3>1, <3>2 DEF LoadsPlace, place, g, m, L
  <2>5. CASE m < L /\ g = L - m
    <3>1. pos + m = base + place
      BY <2>1, <2>5
    <3>2. /\ t = base + q /\ place \in Nat /\ base \in Nat
          /\ m \in Nat /\ L \in Nat
      BY <1>0, <1>2, <1>3, <1>4, <1>10
    <3>3. t - pos = m + (q - place)
      BY <3>1, <3>2
    <3>4. q \in place..(place + g - 1) <=> t \in pos..(pos + L - 1)
      <4>1. q \in Nat /\ t \in Nat /\ g \in Nat
        BY <1>0, <2>5, <1>2, <3>2
      <4>2. QED
        BY <2>3, <2>5, <3>2, <3>3, <4>1, SameRange
    <3>5. QED
      BY <3>3, <3>4 DEF LoadsPlace, place, g, m, L
  <2>6. CASE m < L /\ g # L - m
    <3>1. ~(room < 0) /\ g = room /\ i # n
      BY <1>0, <1>2, <1>9, <2>2, <2>6
    <3>2. g = K0 - place
      BY <1>1, <1>4, <1>11, <3>1 DEF n
    <3>3. pos + m = base + place
      BY <2>1, <2>6
    <3>4. /\ t = base + q /\ place \in Nat /\ base \in Nat
          /\ m \in Nat /\ L \in Nat
      BY <1>0, <1>2, <1>3, <1>4, <1>10
    <3>5. t - pos = m + (q - place)
      BY <3>3, <3>4
    <3>6. g < L - m /\ g = K0 - place /\ q <= K0 - 1
      BY <1>0, <2>2, <2>6, <3>2, <3>4
    <3>7. q \in place..(place + g - 1) <=> t \in pos..(pos + L - 1)
      <4>1. q \in Nat /\ t \in Nat /\ g \in Nat /\ q < place + g
        BY <1>0, <1>2, <2>2, <3>4, <3>6
      <4>2. place \in Nat /\ m \in Nat /\ L \in Nat /\ g < L - m
        BY <3>4, <3>6
      <4>3. QED
        BY <2>3, <3>5, <4>1, <4>2, SameRange
    <3>8. QED
      BY <3>5, <3>7 DEF LoadsPlace, place, g, m, L
  <2>7. QED
    BY <1>0, <1>2, <2>4, <2>5, <2>6
<1>14. QED
  BY <1>1, <1>4, <1>12, <1>13


\* Blocks of the shape and the lengths of those of c.
LikeBlocks(bs, c) ==
  /\ bs = [j \in 1..Len(c.blocks) |-> bs[j]]
  /\ \A j \in 1..Len(c.blocks) :
       BlockOK(bs[j], c.type, c.size) /\ bs[j].num = c.blocks[j].num

\* The blocks of a column can be replaced by blocks of their shape and length.
LEMMA WithBlocks ==
  ASSUME NEW c, ColumnOK(c), NEW bs, LikeBlocks(bs, c),
         NEW d, d = [c EXCEPT !.blocks = bs]
  PROVE  SameShape(d, c) /\ d.blocks = bs
<1> DEFINE n == Len(c.blocks)
<1>1. n \in Nat /\ c.blocks = [j \in 1..n |-> c.blocks[j]]
  BY DEF ColumnOK
<1>2. bs = [j \in 1..n |-> bs[j]]
      /\ \A j \in 1..n : BlockOK(bs[j], c.type, c.size) /\ bs[j].num = c.blocks[j].num
  BY DEF LikeBlocks
<1>3. d = [id |-> c.id, type |-> c.type, size |-> c.size, blocks |-> bs]
  BY DEF ColumnOK
<1>4. /\ c.id \in Nat
      /\ FormatOK(c.type, c.size) \/ (c.type = "kNaive" /\ c.size = 0 /\ n = 0)
  BY DEF ColumnOK
<1>5. Len(bs) = n
  <2> HIDE DEF n
  <2>1. QED
    BY <1>1, <1>2, LenOfFunction
<1>6. /\ d.id = c.id /\ d.type = c.type /\ d.size = c.size /\ d.blocks = bs
  BY <1>3
<1> HIDE DEF n
<1>7. ColumnOK(d)
  BY <1>1, <1>2, <1>3, <1>4, <1>5, <1>6 DEF ColumnOK
<1>8. QED
  BY <1>2, <1>5, <1>6, <1>7 DEF SameShape, n

\* s is the part of some codes that follows the first m, and has g codes.
IsPart(s, codes, m, g) ==
  CodesOK(s) /\ Len(s) = g /\ \A k \in 1..g : s[k] = codes[m + k]

\* A block is given a part of the codes.
LEMMA PartOfCodes ==
  ASSUME NEW codes, CodesOK(codes), NEW a \in Nat, NEW g \in Nat,
         a + g <= Len(codes), NEW s, s = SubSeq(codes, a + 1, a + g)
  PROVE  IsPart(s, codes, a, g)
<1>1. \A i \in (a + 1)..(a + g) : codes[i] \in Nat
  <2> SUFFICES ASSUME NEW i \in (a + 1)..(a + g) PROVE codes[i] \in Nat
    OBVIOUS
  <2>1. i \in 1..Len(codes)
    BY DEF CodesOK
  <2>2. QED
    BY <2>1 DEF CodesOK
<1> DEFINE m == a + 1
           n == a + g
<1>2. m \in Int /\ n \in Int
  OBVIOUS
<1> HIDE DEF m, n
<1>3. /\ SubSeq(codes, m, n) \in Seq(Nat)
      /\ Len(SubSeq(codes, m, n)) = IF m <= n THEN n - m + 1 ELSE 0
      /\ \A i \in 1..(n - m + 1) : SubSeq(codes, m, n)[i] = codes[m + i - 1]
  BY <1>1, <1>2, SubSeqProperties DEF m, n
<1>4. n - m + 1 = g /\ (m <= n <=> g > 0) /\ \A i \in 1..g : m + i - 1 = a + i
  BY DEF m, n
<1>5. s = SubSeq(codes, m, n)
  BY DEF m, n
<1> DEFINE u == SubSeq(codes, m, n)
<1> HIDE DEF m, n
<1>6. Len(s) = g /\ \A k \in 1..g : s[k] = codes[a + k]
  <2>1. Len(u) = IF m <= n THEN n - m + 1 ELSE 0
    BY <1>3
  <2>2. \A i \in 1..(n - m + 1) : u[i] = codes[m + i - 1]
    BY <1>3
  <2>3. s = u
    BY <1>5
  <2> HIDE DEF u
  <2>4. Len(u) = g
    <3>1. CASE m <= n
      BY <1>4, <2>1, <3>1
    <3>2. CASE ~(m <= n)
      BY <1>4, <2>1, <3>2
    <3>3. QED
      BY <3>1, <3>2
  <2>5. ASSUME NEW k \in 1..g
        PROVE  u[k] = codes[a + k]
    <3>1. k \in 1..(n - m + 1) /\ m + k - 1 = a + k
      BY <1>4
    <3>2. u[k] = codes[m + k - 1]
      BY <2>2, <3>1
    <3>3. QED
      BY <3>1, <3>2
  <2>6. QED
    BY <2>3, <2>4, <2>5
<1>7. \A k \in 1..g : a + k \in 1..Len(codes)
  BY DEF CodesOK
<1>8. QED
  BY <1>6, <1>7 DEF CodesOK, IsPart


\* What Bulkload makes of block i.
LoadedBlock(c, codes, pos, done, i) ==
  BlockBulkload(c.blocks[i], SubSeq(codes, done[i - 1] + 1, done[i]),
                PlaceIn(pos, i))

\* The part of the codes that block i is given.
LEMMA PartOfBlock ==
  ASSUME NEW c, ColumnOK(c), NEW codes, CodesOK(codes), NEW pos \in Nat,
         NEW done, LoadRun(done, c, codes, pos), NEW i \in 1..Len(c.blocks),
         NEW s, s = SubSeq(codes, done[i - 1] + 1, done[i]),
         NEW g, g = Given(c, codes, pos, i, done[i - 1])
  PROVE  /\ g \in Nat /\ done[i - 1] \in Nat /\ done[i - 1] + g <= Len(codes)
         /\ IsPart(s, codes, done[i - 1], g)
<1> DEFINE m == done[i - 1]
           n == Len(c.blocks)
<1>1. n \in Nat /\ i - 1 \in 0..n /\ Len(codes) \in Nat
  BY DEF ColumnOK, CodesOK
<1>2. m \in 0..Len(codes)
  <2> HIDE DEF n
  <2>1. QED
    BY <1>1, DoneRange DEF n
<1>3. done[i] = m + g
  BY DEF LoadRun
<1> HIDE DEF m, n
<1>4. g \in 0..(Len(codes) - m)
  <2> DEFINE r == c.blocks[i].num - PlaceIn(pos, i)
  <2>1. GivenBounds(pos, i, Len(codes) - m, r, g)
    BY <1>1, <1>2, GivenOf DEF m
  <2> HIDE DEF r
  <2>2. QED
    BY <2>1 DEF GivenBounds
<1>5. s = SubSeq(codes, m + 1, m + g)
  BY <1>3 DEF m
<1>6. g \in Nat /\ m \in Nat /\ m + g <= Len(codes)
  BY <1>1, <1>2, <1>4
<1>7. IsPart(s, codes, m, g)
  BY <1>5, <1>6, PartOfCodes
<1>8. QED
  BY <1>6, <1>7 DEF m

\* A block that was loaded has the shape it had.
LEMMA LoadedBlockOK ==
  ASSUME NEW c, ColumnOK(c), NEW codes, CodesOK(codes), NEW pos \in Nat,
         NEW done, LoadRun(done, c, codes, pos), NEW i \in 1..Len(c.blocks)
  PROVE  /\ BlockOK(LoadedBlock(c, codes, pos, done, i), c.type, c.size)
         /\ LoadedBlock(c, codes, pos, done, i).num = c.blocks[i].num
<1> DEFINE s == SubSeq(codes, done[i - 1] + 1, done[i])
           b == c.blocks[i]
           place == PlaceIn(pos, i)
<1>1. CodesOK(s)
  <2> HIDE DEF s
  <2>1. QED
    BY PartOfBlock DEF s, IsPart
<1>2. BlockOK(b, c.type, c.size) /\ FormatOK(c.type, c.size) /\ place \in Nat
  <2>1. Len(c.blocks) # 0
    BY DEF ColumnOK
  <2>2. place \in Nat
    BY PlaceOfTuple DEF PlaceIn
  <2> HIDE DEF place
  <2>3. QED
    BY <2>1, <2>2, FormatOfColumn DEF ColumnOK
<1> HIDE DEF s, b, place
<1>3. /\ BlockOK(BlockBulkload(b, s, place), c.type, c.size)
      /\ BlockBulkload(b, s, place).num = b.num
  BY <1>1, <1>2, BulkloadBlockOK
<1>4. QED
  BY <1>3 DEF LoadedBlock, s, b, place

\* The column that Bulkload leaves has the shape it had.
LEMMA BulkloadShape ==
  ASSUME NEW c, ColumnOK(c), NEW codes, CodesOK(codes), NEW pos \in Nat,
         NEW done, LoadRun(done, c, codes, pos),
         NEW result, LoadResult(done, c, codes, pos, result)
  PROVE  /\ SameShape(result.column, c)
         /\ \A i \in 1..Len(c.blocks) :
              result.column.blocks[i] = LoadedBlock(c, codes, pos, done, i)
<1> DEFINE bs == [i \in 1..Len(c.blocks) |-> LoadedBlock(c, codes, pos, done, i)]
           d == result.column
<1>1. DOMAIN c.blocks = 1..Len(c.blocks)
  BY DEF ColumnOK
<1>2. d = [c EXCEPT !.blocks =
         [i \in DOMAIN c.blocks |->
            BlockBulkload(c.blocks[i], SubSeq(codes, done[i - 1] + 1, done[i]),
                          PlaceIn(pos, i))]]
  BY DEF LoadResult
<1>3. d = [c EXCEPT !.blocks = bs]
  BY <1>1, <1>2 DEF LoadedBlock
<1>4. /\ bs = [j \in 1..Len(c.blocks) |-> bs[j]]
      /\ \A j \in 1..Len(c.blocks) : bs[j] = LoadedBlock(c, codes, pos, done, j)
  OBVIOUS
<1> HIDE DEF bs, d
<1>5. \A j \in 1..Len(c.blocks) :
           BlockOK(bs[j], c.type, c.size) /\ bs[j].num = c.blocks[j].num
  <2> SUFFICES ASSUME NEW j \in 1..Len(c.blocks)
               PROVE  BlockOK(bs[j], c.type, c.size) /\ bs[j].num = c.blocks[j].num
    OBVIOUS
  <2> DEFINE b == LoadedBlock(c, codes, pos, done, j)
  <2>1. BlockOK(b, c.type, c.size) /\ b.num = c.blocks[j].num
    BY LoadedBlockOK
  <2> HIDE DEF b
  <2>2. bs[j] = b
    BY <1>4 DEF b
  <2>3. QED
    BY <2>1, <2>2
<1>6. SameShape(d, c) /\ d.blocks = bs
  <2>1. LikeBlocks(bs, c)
    BY <1>4, <1>5 DEF LikeBlocks
  <2>2. QED
    BY <1>3, <2>1, WithBlocks
<1>7. QED
  BY <1>4, <1>6 DEF d


-----------------------------------------------------------------------------
(* What a column holds after Bulkload. *)

\* d has the codes of c, but for the tuples that codes are loaded for.
LoadsCodes(d, c, codes, pos, junk) ==
  \A t \in Nat :
    CodeAt(d, t, junk) =
      IF t \in pos..(pos + Len(codes) - 1)
      THEN Joined(c.type, CodeAt(c, t, junk), codes[t - pos + 1])
      ELSE CodeAt(c, t, junk)

\* Codes that fit are numbers.
LEMMA CodesFitOK ==
  ASSUME NEW type, NEW size, NEW codes, CodesFit(type, size, codes)
  PROVE  CodesOK(codes)
BY DEF CodesFit, CodesOK, CodeFits

\* What a block that was loaded has at a place.
LEMMA LoadedGet ==
  ASSUME NEW c, ColumnOK(c), NEW codes, CodesFit(c.type, c.size, codes),
         NEW pos \in Nat, NEW done, LoadRun(done, c, codes, pos),
         NEW i \in 1..Len(c.blocks),
         NEW g, g = Given(c, codes, pos, i, done[i - 1]),
         g > 0 => PlaceIn(pos, i) + g <= c.blocks[i].num,
         NEW q \in 0..(kNumCodesPerBlock - 1)
  PROVE  BlockGetCode(LoadedBlock(c, codes, pos, done, i), q) =
           IF q \in PlaceIn(pos, i)..(PlaceIn(pos, i) + g - 1)
           THEN Joined(c.type, BlockGetCode(c.blocks[i], q),
                       codes[done[i - 1] + (q - PlaceIn(pos, i)) + 1])
           ELSE BlockGetCode(c.blocks[i], q)
<1> DEFINE m == done[i - 1]
           s == SubSeq(codes, m + 1, done[i])
           b == c.blocks[i]
           place == PlaceIn(pos, i)
           e == LoadedBlock(c, codes, pos, done, i)
           type == c.type
           size == c.size
           r == q - place + 1
<1>1. CodesOK(codes)
  BY CodesFitOK
<1>2. g \in Nat /\ m \in Nat /\ m + g <= Len(codes) /\ IsPart(s, codes, m, g)
  <2> HIDE DEF s
  <2>1. QED
    BY <1>1, PartOfBlock DEF s, m
<1>3. place \in Nat
  BY PlaceOfTuple DEF PlaceIn
<1>4. BlockOK(b, type, size) /\ FormatOK(type, size)
  <2>1. Len(c.blocks) # 0
    BY DEF ColumnOK
  <2>2. QED
    BY <2>1, FormatOfColumn DEF ColumnOK
<1>5. e = BlockBulkload(b, s, place)
  BY DEF LoadedBlock
<1> HIDE DEF m, s, b, place, e, type, size
<1>6. Len(s) = g /\ \A k \in 1..g : s[k] = codes[m + k]
  BY <1>2 DEF IsPart
<1>7. CodesFit(type, size, s)
  <2>1. Len(codes) \in Nat /\ \A k \in 1..Len(codes) : CodeFits(type, size, codes[k])
    BY DEF CodesFit, type, size
  <2>2. ASSUME NEW k \in 1..g
        PROVE  CodeFits(type, size, s[k])
    <3>1. m + k \in 1..Len(codes)
      BY <1>2, <2>1
    <3>2. CodeFits(type, size, codes[m + k])
      BY <2>1, <3>1
    <3>3. QED
      BY <1>6, <3>2
  <2>3. QED
    BY <1>2, <1>6, <2>2 DEF CodesFit
<1>8. Len(s) > 0 => place + Len(s) <= b.num
  BY <1>6 DEF place, b
<1>9. HasLoaded(e, b, type, s, place, g)
  <2>1. HasLoaded(BlockBulkload(b, s, place), b, type, s, place, Len(s))
    BY <1>3, <1>4, <1>7, <1>8, BulkloadGet
  <2>2. QED
    BY <1>5, <1>6, <2>1
<1>10. BlockGetCode(e, q) =
      IF q \in place..(place + g - 1)
      THEN Joined(type, BlockGetCode(b, q), s[r])
      ELSE BlockGetCode(b, q)
  BY <1>9 DEF HasLoaded
<1>11. CASE q \in place..(place + g - 1)
  <2>1. r \in 1..g /\ m + r = m + (q - place) + 1
    <3>1. /\ q \in Nat /\ place \in Nat /\ g \in Nat /\ m \in Nat
          /\ place <= q /\ q <= place + g - 1
      BY <1>2, <1>3, <1>11, BitWordsAssumption
    <3> HIDE DEF place, m
    <3>2. QED
      BY <3>1
  <2> HIDE DEF r
  <2>2. s[r] = codes[m + r]
    BY <1>6, <2>1
  <2>3. QED
    BY <1>10, <1>11, <2>1, <2>2 DEF m, b, place, e, type
<1>12. CASE ~(q \in place..(place + g - 1))
  BY <1>10, <1>12 DEF m, b, place, e, type
<1>13. QED
  BY <1>11, <1>12

\* When its assertions hold, the codes end within the blocks.
LEMMA LoadedWithin ==
  ASSUME NEW c, ColumnOK(c), Full(c), NEW codes, Len(codes) \in Nat, NEW pos \in Nat,
         NEW done, LoadRun(done, c, codes, pos),
         done[Len(c.blocks)] = Len(codes), Len(codes) > 0,
         \A i \in 1..Len(c.blocks) :
           Given(c, codes, pos, i, done[i - 1]) > 0 =>
             PlaceIn(pos, i) + Given(c, codes, pos, i, done[i - 1]) <= c.blocks[i].num
  PROVE  pos + Len(codes) <= Len(c.blocks) * kNumCodesPerBlock
<1> DEFINE L == Len(codes)
           n == Len(c.blocks)
           K0 == kNumCodesPerBlock
           m == done[n - 1]
           g == Given(c, codes, pos, n, m)
           place == PlaceIn(pos, n)
           base == (n - 1) * K0
<1>0. K0 \in Nat \ {0} /\ L \in Nat \ {0}
  BY BitWordsAssumption
<1>1. n \in Nat \ {0}
  BY DEF ColumnOK, LoadRun
<1>2. n \in 1..n /\ n - 1 \in 0..n /\ n \in 0..n
  BY <1>1
<1>3. n >= BlockOf(pos)
  <2>1. n < BlockOf(pos) => done[n] = 0
    <3> HIDE DEF n
    <3>1. QED
      BY <1>2, DoneRange DEF n
  <2>2. BlockOf(pos) \in Nat
    BY PlaceOfTuple
  <2> HIDE DEF n
  <2>3. QED
    BY <1>0, <1>1, <2>1, <2>2 DEF n
<1>4. m \in 0..L
  <2> HIDE DEF n
  <2>1. done[n - 1] \in 0..Len(codes)
    BY <1>2, DoneRange DEF n
  <2>2. QED
    BY <2>1
<1>5. Reaches(done, codes, pos, n)
  <2> HIDE DEF n
  <2>1. QED
    BY <1>2, <1>3, Contiguous DEF n
<1>6. pos + m <= base + place /\ (m < L => pos + m = base + place)
  BY <1>5 DEF Reaches
<1>7. c.blocks[n].num \in 0..K0 /\ place \in 0..(K0 - 1)
  <2> HIDE DEF n, m
  <2>1. /\ c.blocks[n].num \in 0..kNumCodesPerBlock
        /\ PlaceIn(pos, n) \in 0..(kNumCodesPerBlock - 1)
    BY <1>2, <1>4, GivenOf DEF n
  <2>2. QED
    BY <2>1
<1>8. done[n] = m + g /\ g \in Int
  <2>1. done[n] = m + g
    BY <1>2 DEF LoadRun
  <2> DEFINE room == c.blocks[n].num - place
  <2> HIDE DEF n, m
  <2>2. m \in 0..Len(codes) /\ n \in 1..Len(c.blocks)
    BY <1>2, <1>4 DEF n
  <2>3. GivenBounds(pos, n, Len(codes) - m, c.blocks[n].num - PlaceIn(pos, n),
                    Given(c, codes, pos, n, m))
    BY <2>2, GivenOf
  <2> HIDE DEF L
  <2>4. g \in Int
    BY <2>3 DEF GivenBounds
  <2>5. QED
    BY <2>1, <2>4
<1>9. g > 0 => place + g <= c.blocks[n].num
  BY <1>2
<1>10. base \in Nat /\ n * K0 = base + K0
  <2>1. n - 1 \in Nat
    BY <1>1
  <2> HIDE DEF n, K0
  <2>2. QED
    BY <1>0, <1>1, <2>1
<1>11. done[n] = L
  OBVIOUS
<1> DEFINE num == c.blocks[n].num
<1> HIDE DEF L, n, m, g, place, base, num, K0
<1>12. g = L - m
  BY <1>0, <1>4, <1>8, <1>11
<1>13. g > 0 => place + g <= num
  BY <1>9 DEF num
<1>14. num \in 0..K0
  BY <1>7 DEF num
<1>15. CASE m = L
  BY <1>0, <1>6, <1>7, <1>10, <1>15 DEF n, L, K0
<1>16. CASE m # L
  BY <1>0, <1>4, <1>6, <1>7, <1>10, <1>12, <1>13, <1>14, <1>16 DEF n, L, K0
<1>17. QED
  BY <1>15, <1>16


\* What the assertions of Bulkload say.
LEMMA ResultOk ==
  ASSUME NEW c, ColumnOK(c), NEW codes, NEW pos, NEW done,
         NEW result, LoadResult(done, c, codes, pos, result)
  PROVE  result.ok <=>
           /\ done[Len(c.blocks)] = Len(codes)
           /\ \A i \in 1..Len(c.blocks) :
                Given(c, codes, pos, i, done[i - 1]) > 0 =>
                  PlaceIn(pos, i) + Given(c, codes, pos, i, done[i - 1])
                    <= c.blocks[i].num
<1>1. DOMAIN c.blocks = 1..Len(c.blocks)
  BY DEF ColumnOK
<1>2. QED
  BY <1>1 DEF LoadResult

\* Bulkload keeps the shape of a column; when its assertions hold and the blocks
\* are full, every code is where it belongs.
LEMMA BulkloadCodesOK ==
  ASSUME NEW c, ColumnOK(c), NEW codes, CodesOK(codes), NEW pos \in Nat,
         NEW result, result = ColumnBulkload(c, codes, pos), NEW junk
  PROVE  /\ SameShape(result.column, c)
         /\ result.ok /\ Full(c) /\ CodesFit(c.type, c.size, codes)
              => LoadsCodes(result.column, c, codes, pos, junk)
<1> DEFINE d == result.column
           n == Len(c.blocks)
           L == Len(codes)
<1>0. Len(c.blocks) \in Nat /\ L \in Nat
  BY DEF ColumnOK, CodesOK
<1>1. PICK done : LoadRun(done, c, codes, pos) /\ LoadResult(done, c, codes, pos, result)
  BY <1>0, ColumnBulkloadSteps
<1>2. /\ SameShape(d, c)
      /\ \A i \in 1..n : d.blocks[i] = LoadedBlock(c, codes, pos, done, i)
  BY <1>1, BulkloadShape
<1> SUFFICES ASSUME result.ok, Full(c), CodesFit(c.type, c.size, codes)
             PROVE  LoadsCodes(d, c, codes, pos, junk)
  BY <1>2
<1>3. /\ done[n] = L
      /\ \A i \in 1..n :
           Given(c, codes, pos, i, done[i - 1]) > 0 =>
             PlaceIn(pos, i) + Given(c, codes, pos, i, done[i - 1])
               <= c.blocks[i].num
  BY <1>1, ResultOk
<1>4. L > 0 => pos + L <= n * kNumCodesPerBlock
  BY <1>0, <1>1, <1>3, LoadedWithin
<1>5. ASSUME NEW t \in Nat
      PROVE  CodeAt(d, t, junk) =
               IF t \in pos..(pos + L - 1)
               THEN Joined(c.type, CodeAt(c, t, junk), codes[t - pos + 1])
               ELSE CodeAt(c, t, junk)
  <2> DEFINE i == BlockOf(t)
             q == PlaceOf(t)
             K0 == kNumCodesPerBlock
  <2>1. /\ i \in Nat \ {0} /\ q \in 0..(K0 - 1) /\ t = (i - 1) * K0 + q
        /\ K0 \in Nat \ {0}
    BY PlaceOfTuple, BitWordsAssumption
  <2>2. Len(d.blocks) = n /\ d.type = c.type
    BY <1>2 DEF SameShape
  <2>3. CASE i > n
    <3>1. ~(i <= n)
      BY <1>0, <2>1, <2>3
    <3>2. CodeAt(d, t, junk) = CodeAt(c, t, junk)
      BY <2>2, <3>1 DEF CodeAt
    <3>3. ~(t \in pos..(pos + L - 1))
      <4> DEFINE e == i - 1 - n
      <4>1. e \in Nat /\ i - 1 = n + e
        BY <1>0, <2>1, <2>3
      <4> HIDE DEF e, n, i, q, L, K0
      <4>2. t = n * K0 + e * K0 + q /\ e * K0 \in Nat /\ n * K0 \in Nat
        <5>1. n \in Nat
          BY <1>0 DEF n
        <5>2. t = (n + e) * K0 + q
          BY <2>1, <4>1
        <5>3. (n + e) * K0 = n * K0 + e * K0
          BY <2>1, <4>1, <5>1
        <5>4. e * K0 \in Nat /\ n * K0 \in Nat
          BY <2>1, <4>1, <5>1
        <5>5. QED
          BY <5>2, <5>3, <5>4
      <4> DEFINE x == n * K0
                 y == e * K0
      <4>3. t = x + y + q /\ x \in Nat /\ y \in Nat /\ (L > 0 => pos + L <= x)
        BY <1>4, <4>2 DEF K0, L
      <4> HIDE DEF x, y
      <4>4. QED
        BY <1>0, <2>1, <4>3
    <3>4. QED
      BY <3>2, <3>3
  <2>4. CASE i <= n
    <3>1. i \in 1..n
      BY <1>0, <2>1, <2>4
    <3> DEFINE m == done[i - 1]
               g == Given(c, codes, pos, i, m)
               place == PlaceIn(pos, i)
               e == LoadedBlock(c, codes, pos, done, i)
               b == c.blocks[i]
    <3>2. CodeAt(d, t, junk) = BlockGetCode(e, q) /\ CodeAt(c, t, junk) = BlockGetCode(b, q)
      BY <1>2, <2>2, <2>4, <3>1 DEF CodeAt, ColumnGetCode
    <3>3. g > 0 => place + g <= b.num
      BY <1>3, <3>1
    <3>4. BlockGetCode(e, q) =
           IF q \in place..(place + g - 1)
           THEN Joined(c.type, BlockGetCode(b, q), codes[m + (q - place) + 1])
           ELSE BlockGetCode(b, q)
      <4> HIDE DEF i, q, n
      <4>1. QED
        BY <1>1, <2>1, <3>1, <3>3, LoadedGet DEF n, m
    <3>5. LoadsPlace(pos, codes, t, q, place, m, g)
      <4> HIDE DEF i, q, n
      <4>1. QED
        BY <1>0, <1>1, <1>3, <2>1, <3>1, TupleLoaded DEF n, m
    <3>6. /\ q \in place..(place + g - 1) <=> t \in pos..(pos + L - 1)
          /\ q \in place..(place + g - 1) => t - pos = m + (q - place)
      BY <3>5 DEF LoadsPlace
    <3> HIDE DEF i, q, n, m, g, place, e, b, L
    <3>7. QED
      BY <3>2, <3>4, <3>6
  <2>5. QED
    BY <1>0, <2>1, <2>3, <2>4
<1>6. QED
  BY <1>5 DEF LoadsCodes

\* The assertions of Bulkload hold when the table has room for the codes and
\* its last block is not exactly full.
LEMMA BulkloadOk ==
  ASSUME NEW c, ColumnOK(c), NEW codes, CodesOK(codes), NEW pos \in Nat,
         NEW num \in Nat, Fits(c, num), num % kNumCodesPerBlock # 0,
         pos + Len(codes) <= num,
         NEW result, result = ColumnBulkload(c, codes, pos)
  PROVE  result.ok
<1> DEFINE n == Len(c.blocks)
           L == Len(codes)
           K0 == kNumCodesPerBlock
           r == num % K0
           b == BlockOf(pos)
           pp == PlaceOf(pos)
<1>0. n \in Nat /\ L \in Nat /\ K0 \in Nat \ {0}
  BY BitWordsAssumption DEF ColumnOK, CodesOK
<1>1. PICK done : LoadRun(done, c, codes, pos) /\ LoadResult(done, c, codes, pos, result)
  BY <1>0, ColumnBulkloadSteps
<1>2. /\ num > 0 /\ r \in 1..(K0 - 1) /\ n > 0 /\ c.blocks[n].num = r
      /\ num = (n - 1) * K0 + r
  <2>1. num > 0 /\ r \in 1..(K0 - 1)
    <3> DEFINE d == num \div K0
               y == K0 * d
    <3>1. d \in Nat /\ r \in 0..(K0 - 1) /\ num = y + r /\ r # 0
      BY <1>0, DivMod
    <3> HIDE DEF d, r, K0
    <3>2. y \in Nat
      BY <1>0, <3>1
    <3> HIDE DEF y
    <3>3. QED
      BY <1>0, <3>1, <3>2
  <2>2. n = CEIL(num, K0) /\ c.blocks[n].num = r
    BY <2>1 DEF Fits
  <2>3. num <= n * K0 /\ n > 0 /\ (n - 1) * K0 < num
    BY <1>0, <2>1, <2>2, CeilBounds
  <2> DEFINE d == num \div K0
             e == n - 1
  <2>4. d \in Nat /\ num = K0 * d + r
    BY <1>0, DivMod
  <2>5. e \in Nat /\ e * K0 < num /\ num <= (e + 1) * K0
    BY <1>0, <2>3
  <2> HIDE DEF d, e, n, K0, r
  <2>6. ~(d < e)
    <3> SUFFICES ASSUME d < e PROVE FALSE
      OBVIOUS
    <3> DEFINE x == e - d - 1
               y == x * K0
               z == d * K0
    <3>1. x \in Nat /\ e = d + 1 + x
      BY <2>4, <2>5
    <3> HIDE DEF x
    <3>2. e * K0 = z + K0 + y /\ y \in Nat /\ z \in Nat /\ num = z + r
      BY <1>0, <2>1, <2>4, <3>1
    <3> HIDE DEF y, z
    <3>3. QED
      BY <1>0, <2>1, <2>5, <3>2
  <2>7. ~(d > e)
    <3> SUFFICES ASSUME d > e PROVE FALSE
      OBVIOUS
    <3> DEFINE x == d - e - 1
               y == x * K0
               z == e * K0
    <3>1. x \in Nat /\ d = e + 1 + x
      BY <2>4, <2>5
    <3> HIDE DEF x
    <3>2. num = z + K0 + y + r /\ (e + 1) * K0 = z + K0 /\ y \in Nat /\ z \in Nat
      BY <1>0, <2>1, <2>4, <2>5, <3>1
    <3> HIDE DEF y, z
    <3>3. QED
      BY <1>0, <2>1, <2>5, <3>2
  <2>8. d = e
    BY <2>4, <2>5, <2>6, <2>7
  <2>9. num = e * K0 + r
    BY <1>0, <2>1, <2>4, <2>5, <2>8
  <2>10. QED
    BY <2>1, <2>2, <2>3, <2>9 DEF e, n
<1>3. b \in Nat \ {0} /\ pp \in 0..(K0 - 1) /\ pos = (b - 1) * K0 + pp
  BY PlaceOfTuple
<1>4. ASSUME NEW i \in 1..n
      PROVE  /\ done[i - 1] \in 0..L
             /\ c.blocks[i].num \in 0..K0 /\ PlaceIn(pos, i) \in 0..(K0 - 1)
             /\ GivenBounds(pos, i, L - done[i - 1],
                            c.blocks[i].num - PlaceIn(pos, i),
                            Given(c, codes, pos, i, done[i - 1]))
             /\ i >= b => Reaches(done, codes, pos, i)
  <2> DEFINE m == done[i - 1]
  <2>1. i - 1 \in 0..n
    BY <1>0
  <2> HIDE DEF n
  <2>2. m \in 0..L
    BY <1>0, <1>1, <2>1, DoneRange DEF n
  <2> HIDE DEF m
  <2>3. /\ c.blocks[i].num \in 0..K0 /\ PlaceIn(pos, i) \in 0..(K0 - 1)
        /\ GivenBounds(pos, i, L - m, c.blocks[i].num - PlaceIn(pos, i),
                       Given(c, codes, pos, i, m))
    BY <1>0, <2>2, GivenOf DEF n
  <2>4. i >= b => Reaches(done, codes, pos, i)
    BY <1>0, <1>1, Contiguous DEF n, Fits
  <2>5. QED
    BY <2>2, <2>3, <2>4 DEF m
<1>5. ASSUME NEW i \in 1..n, Given(c, codes, pos, i, done[i - 1]) > 0
      PROVE  PlaceIn(pos, i) + Given(c, codes, pos, i, done[i - 1]) <= c.blocks[i].num
  <2> DEFINE m == done[i - 1]
             g == Given(c, codes, pos, i, m)
             place == PlaceIn(pos, i)
             bn == c.blocks[i].num
             room == bn - place
             base == (i - 1) * K0
  <2>1. /\ m \in 0..L /\ bn \in 0..K0 /\ place \in 0..(K0 - 1)
        /\ GivenBounds(pos, i, L - m, room, g)
        /\ i >= b => Reaches(done, codes, pos, i)
    BY <1>4
  <2>2. i < n => bn = K0
    <3>1. i < n => i \in 1..(n - 1)
      BY <1>0
    <3>2. QED
      BY <3>1 DEF Fits, Full
  <2>3. i = n => bn = r /\ num = base + r
    BY <1>2
  <2>4. g > 0
    BY <1>5
  <2>5. i >= b => (m < L => pos + m = base + place)
    BY <2>1 DEF Reaches
  <2>6. base \in Nat
    <3>1. i - 1 \in Nat
      OBVIOUS
    <3> HIDE DEF K0
    <3>2. QED
      BY <1>0, <3>1
  <2>7. pos + L <= num
    OBVIOUS
  <2>8. i \in Nat /\ i <= n
    BY <1>0
  <2>9. /\ g \in 0..(L - m)
        /\ i < b => g = 0
        /\ ~(i < b) /\ ~(room < 0) => g <= room
    BY <2>1 DEF GivenBounds
  <2> DEFINE goal == place + g <= bn
  <2> HIDE DEF m, g, place, bn, base, L, n, b, r, K0
  <2>10. i >= b /\ m < L
    BY <1>0, <1>3, <2>1, <2>4, <2>8, <2>9
  <2>11. pos + m = base + place
    BY <2>5, <2>10
  <2>12. ~(room < 0)
    BY <1>0, <1>2, <2>1, <2>2, <2>3, <2>6, <2>7, <2>8, <2>10, <2>11
  <2>13. goal
    BY <1>0, <1>3, <2>1, <2>8, <2>9, <2>10, <2>12
  <2>14. QED
    BY <2>13 DEF m, g, place, bn
<1>6. done[n] = L
  <2> DEFINE m == done[n - 1]
             g == Given(c, codes, pos, n, m)
             place == PlaceIn(pos, n)
             room == r - place
             base == (n - 1) * K0
  <2>1. n \in 1..n
    BY <1>0, <1>2
  <2>2. /\ m \in 0..L /\ place \in 0..(K0 - 1)
        /\ GivenBounds(pos, n, L - m, room, g)
        /\ n >= b => Reaches(done, codes, pos, n)
    BY <1>2, <1>4, <2>1
  <2>3. done[n] = m + g
    BY <1>1, <2>1 DEF LoadRun
  <2>4. n >= b => (m < L => pos + m = base + place)
    BY <2>2 DEF Reaches
  <2>5. /\ g \in 0..(L - m)
        /\ n < b => g = 0
        /\ ~(n < b) /\ room < 0 => g = L - m
        /\ ~(n < b) /\ ~(room < 0) => g <= room /\ (g = L - m \/ g = room)
    BY <2>2 DEF GivenBounds
  <2>6. base \in Nat /\ num = base + r
    <3>1. n - 1 \in Nat
      BY <1>0, <1>2
    <3> HIDE DEF K0, n, r
    <3>2. QED
      BY <1>0, <1>2, <3>1
  <2>7. L > 0 => n >= b
    <3> SUFFICES ASSUME L > 0, n < b PROVE FALSE
      BY <1>0, <1>3
    <3> DEFINE x == b - 1 - n
               y == x * K0
    <3>1. x \in Nat /\ b - 1 = (n - 1) + 1 + x
      BY <1>0, <1>3
    <3> HIDE DEF x, n, b, K0
    <3>2. pos = base + K0 + y + pp /\ y \in Nat
      <4> DEFINE a == n - 1
      <4>1. a \in Nat /\ b - 1 = a + 1 + x
        BY <1>0, <1>2, <3>1
      <4> HIDE DEF a
      <4>2. pos = a * K0 + K0 + y + pp /\ y \in Nat
        BY <1>0, <1>3, <3>1, <4>1
      <4>3. QED
        BY <4>2 DEF a
    <3> HIDE DEF y, base, L, r, pp
    <3>3. pos + L <= num
      BY DEF L
    <3>4. QED
      BY <1>0, <1>2, <1>3, <2>6, <3>2, <3>3
  <2>8. pos + L <= num
    OBVIOUS
  <2>9. done[n] = m + g
    BY <2>3
  <2> DEFINE total == done[n]
  <2> HIDE DEF m, g, place, base, L, n, b, r, K0, total, pp
  <2>10. total = m + g
    BY <2>9 DEF total
  <2>11. CASE m = L
    BY <1>0, <2>2, <2>5, <2>10, <2>11 DEF total
  <2>12. CASE m # L
    <3>1. m < L /\ n >= b
      BY <1>0, <2>2, <2>7, <2>12
    <3>2. pos + m = base + place
      BY <2>4, <3>1
    <3>3. L - m <= room
      BY <1>0, <1>2, <2>2, <2>6, <2>8, <3>1, <3>2
    <3>4. g = L - m
      BY <1>0, <1>2, <1>3, <2>2, <2>5, <3>1, <3>3
    <3>5. QED
      BY <1>0, <2>2, <2>10, <3>4 DEF total
  <2>13. QED
    BY <2>11, <2>12
<1>7. QED
  BY <1>1, <1>5, <1>6, ResultOk
-----------------------------------------------------------------------------
(* Iterators and bit vectors. *)

\* A column iterator knows the block and the place of its tuple; that of a naive
\* column only has the tuple.
PlacedAt(s, c) ==
  /\ s.last \in Nat
  /\ c.type # "kNaive" =>
       /\ s.block = BlockOf(s.last) /\ s.inBlock = PlaceOf(s.last)
       /\ s.segment \in Int /\ s.inSegment \in Int
       /\ s.segment * CodesPerSegment(c) + s.inSegment = s.inBlock

\* The codes per segment of a column.
LEMMA SegmentSize ==
  ASSUME NEW c, ColumnOK(c)
  PROVE  c.type # "kNaive" =>
           /\ FormatOK(c.type, c.size) /\ c.size \in 1..(kNumBitsPerWord - 1)
           /\ CodesPerSegment(c) \in Nat \ {0}
<1> SUFFICES ASSUME c.type # "kNaive"
             PROVE  /\ FormatOK(c.type, c.size) /\ c.size \in 1..(kNumBitsPerWord - 1)
                    /\ CodesPerSegment(c) \in Nat \ {0}
  OBVIOUS
<1>1. FormatOK(c.type, c.size)
  BY DEF ColumnOK
<1>2. c.size \in 1..(kNumBitsPerWord - 1)
  BY <1>1 DEF FormatOK
<1> DEFINE y == c.size + 1
           q == kNumBitsPerWord \div y
           r == kNumBitsPerWord % y
<1>3. kNumBitsPerWord \in Nat \ {0} /\ y \in Nat \ {0} /\ y <= kNumBitsPerWord
  BY <1>2, BitWordsAssumption
<1>4. q \in Nat /\ r \in 0..(y - 1) /\ kNumBitsPerWord = y * q + r
  <2> HIDE DEF y
  <2>1. QED
    BY <1>3, DivMod
<1>5. HCodesPerSegment(c.size) = y * q
  BY DEF HCodesPerSegment, HWordsPerSegment, HCodesPerWord, HBitsPerCode
<1> HIDE DEF y, q, r
<1>6. q # 0
  BY <1>3, <1>4
<1>7. y * q \in Nat \ {0}
  BY <1>3, <1>4, <1>6
<1>8. QED
  BY <1>1, <1>2, <1>3, <1>5, <1>7 DEF CodesPerSegment

\* An iterator is first placed at the start.
LEMMA NewSeekPlaced ==
  ASSUME NEW c, ColumnOK(c)
  PROVE  PlacedAt(NewSeek, c) /\ NewSeek.last = 0
<1> DEFINE cps == CodesPerSegment(c)
<1>1. c.type # "kNaive" => cps \in Nat
  BY SegmentSize
<1> HIDE DEF cps
<1>2. c.type # "kNaive" => 0 * cps + 0 = 0
  BY <1>1
<1>3. QED
  BY <1>2, BitWordsAssumption DEF PlacedAt, NewSeek, BlockOf, PlaceOf, cps

\* A seek goes to the tuple, unless that is in an earlier block.
LEMMA SeekTo ==
  ASSUME NEW c, ColumnOK(c), NEW s, PlacedAt(s, c), NEW id \in Nat,
         NEW r, r = Seek(c, s, id)
  PROVE  /\ r.last = id
         /\ \/ PlacedAt(r, c)
            \/ c.type # "kNaive" /\ r.block = 0 /\ BlockOf(id) < BlockOf(s.last)
<1> DEFINE cps == CodesPerSegment(c)
           delta == id - s.last
           inBlock == s.inBlock + delta
           ahead == (delta + s.inSegment) \div cps
           K0 == kNumCodesPerBlock
           place == inBlock % K0
           near == inBlock \in 0..(K0 - 1)
           step == near /\ ahead \in 0..SegmentsAhead(c)
           b == BlockOf(s.last)
<1>1. r = [last |-> id,
       block |-> IF near THEN s.block
                 ELSE IF inBlock < 0 THEN 0
                 ELSE s.block + inBlock \div K0,
       inBlock |-> IF near THEN inBlock ELSE place,
       segment |-> IF step THEN s.segment + ahead ELSE place \div cps,
       inSegment |-> IF step THEN s.inSegment + delta - ahead * cps
                             ELSE place % cps]
  BY DEF Seek
<1>2. r.last = id
  BY <1>1
<1>3. CASE c.type = "kNaive"
  BY <1>2, <1>3 DEF PlacedAt
<1>4. CASE c.type # "kNaive"
  <2>1. cps \in Nat \ {0} /\ K0 \in Nat \ {0}
    BY <1>4, SegmentSize, BitWordsAssumption
  <2>2. /\ s.last \in Nat /\ s.block = b /\ s.inBlock = PlaceOf(s.last)
        /\ s.segment \in Int /\ s.inSegment \in Int
        /\ s.segment * cps + s.inSegment = s.inBlock
    BY <1>4 DEF PlacedAt
  <2>3. /\ b \in Nat \ {0} /\ s.inBlock \in 0..(K0 - 1)
        /\ s.last = (b - 1) * K0 + s.inBlock
    BY <2>2, PlaceOfTuple
  <2> DEFINE e == b - 1
             p == s.inBlock
             last == s.last
             seg == s.segment
             inSeg == s.inSegment
  <2>4. /\ e \in Nat /\ p \in 0..(K0 - 1) /\ last \in Nat /\ last = e * K0 + p
        /\ b = e + 1 /\ seg \in Int /\ inSeg \in Int /\ seg * cps + inSeg = p
        /\ delta = id - last /\ inBlock = p + delta
    BY <2>2, <2>3
  <2>5. /\ r.block = IF near THEN b
                 ELSE IF inBlock < 0 THEN 0
                 ELSE b + inBlock \div K0
        /\ r.inBlock = IF near THEN inBlock ELSE place
        /\ r.segment = IF step THEN seg + ahead ELSE place \div cps
        /\ r.inSegment = IF step THEN inSeg + delta - ahead * cps
                             ELSE place % cps
    BY <1>1, <2>2
  <2>6. BlockOf(id) = id \div K0 + 1 /\ PlaceOf(id) = id % K0
    BY DEF BlockOf, PlaceOf
  <2> DEFINE nearA == near
  <2>61. near <=> inBlock \in 0..(K0 - 1)
    OBVIOUS
  <2>62. ahead \in Int /\ (step => near)
    BY <2>1, <2>4
  <2> HIDE DEF K0, cps, e, p, last, seg, inSeg, b, step, ahead, delta
  <2>7. inBlock \in Int /\ e * K0 \in Nat /\ id = e * K0 + inBlock
    <3>1. e * K0 \in Nat
      BY <2>1, <2>4
    <3> DEFINE y == e * K0
    <3> HIDE DEF y
    <3>2. last = y + p /\ y \in Nat
      BY <2>4, <3>1 DEF y
    <3>3. delta \in Int /\ inBlock = p + delta
      BY <2>4
    <3>4. QED
      BY <2>1, <2>4, <3>2, <3>3 DEF y
  <2>8. CASE near
    <3> DEFINE x == inBlock
    <3>1. x \in 0..(K0 - 1) /\ id = e * K0 + x
      BY <2>7, <2>8
    <3> HIDE DEF x
    <3>2. (e * K0 + x) \div K0 = e /\ (e * K0 + x) % K0 = x
      BY <2>1, <2>4, <3>1, DivModUnique
    <3>3. BlockOf(id) = b /\ PlaceOf(id) = x
      BY <2>4, <2>6, <3>1, <3>2
    <3>4. x % K0 = x
      BY <2>1, <3>1
    <3>5. r.block = b /\ r.inBlock = x
      BY <2>5, <2>8 DEF x
    <3>6. /\ r.segment \in Int /\ r.inSegment \in Int
          /\ r.segment * cps + r.inSegment = x
      <4>1. CASE step
        <5>1. r.segment = seg + ahead /\ r.inSegment = inSeg + delta - ahead * cps
          BY <2>5, <4>1
        <5>2. delta \in Int /\ x = p + delta
          BY <2>1, <2>4, <2>7 DEF x
        <5> DEFINE u == ahead * cps
                   v == seg * cps
        <5>3. (seg + ahead) * cps = v + u /\ u \in Int /\ v \in Int /\ v + inSeg = p
          BY <2>1, <2>4, <2>62
        <5> HIDE DEF u, v
        <5>4. (v + u) + (inSeg + delta - u) = x
          BY <2>4, <5>2, <5>3
        <5>5. QED
          BY <2>4, <2>62, <5>1, <5>2, <5>3, <5>4 DEF u
      <4>2. CASE ~step
        <5>1. r.segment = x \div cps /\ r.inSegment = x % cps
          BY <2>5, <3>4, <4>2 DEF x
        <5>2. x \in Nat
          BY <2>1, <3>1
        <5>3. x \div cps \in Nat /\ x % cps \in 0..(cps - 1) /\ x = cps * (x \div cps) + (x % cps)
          BY <2>1, <5>2, DivMod
        <5> DEFINE u == x \div cps
                   v == x % cps
        <5> HIDE DEF u, v
        <5>4. u \in Nat /\ v \in Int /\ u * cps + v = x
          BY <2>1, <5>3 DEF u, v
        <5>5. QED
          BY <5>1, <5>4 DEF u, v
      <4>3. QED
        BY <4>1, <4>2
    <3>7. QED
      BY <1>2, <1>4, <3>3, <3>5, <3>6 DEF PlacedAt, cps
  <2>9. CASE inBlock < 0
    <3>1. ~near
      BY <2>1, <2>7, <2>9
    <3>2. r.block = 0
      BY <2>5, <2>9, <3>1
    <3> DEFINE y == e * K0
    <3>3. id < y
      <4> HIDE DEF y
      <4>1. id = y + inBlock /\ y \in Nat
        BY <2>7 DEF y
      <4>2. QED
        BY <2>7, <2>9, <4>1
    <3>4. id \div K0 < e
      BY <2>1, <2>4, <3>3, DivLess
    <3>5. BlockOf(id) < b
      <4>1. id \div K0 \in Nat
        BY <2>1, DivMod
      <4>2. QED
        BY <2>4, <2>6, <3>4, <4>1
    <3>6. QED
      BY <1>2, <1>4, <3>2, <3>5 DEF b
  <2>10. CASE ~near /\ ~(inBlock < 0)
    <3> DEFINE x == inBlock
               d == x \div K0
               w == x % K0
    <3>1. x \in Nat
      BY <2>7, <2>10
    <3>2. d \in Nat /\ w \in 0..(K0 - 1) /\ x = K0 * d + w
      <4> HIDE DEF x
      <4>1. QED
        BY <2>1, <3>1, DivMod
    <3>3. id = e * K0 + x
      BY <2>7
    <3>4. r.block = b + d /\ r.inBlock = w
      BY <2>5, <2>10
    <3>5. ~step
      BY <2>10, <2>62
    <3>6. r.segment = w \div cps /\ r.inSegment = w % cps
      BY <2>5, <3>5
    <3> HIDE DEF d, w, x
    <3>7. id = (e + d) * K0 + w
      <4>1. (e + d) * K0 = e * K0 + K0 * d
        BY <2>1, <2>4, <3>2
      <4> DEFINE u == e * K0
                 v == K0 * d
      <4>2. u \in Nat /\ v \in Nat
        BY <2>1, <2>4, <3>2
      <4> HIDE DEF u, v
      <4>3. id = u + x /\ x = v + w /\ (e + d) * K0 = u + v
        BY <3>2, <3>3, <4>1 DEF u, v
      <4>4. QED
        BY <2>1, <3>2, <4>2, <4>3
    <3> DEFINE f == e + d
    <3>8. f \in Nat /\ f + 1 = b + d
      BY <2>4, <3>2
    <3> HIDE DEF f
    <3>9. (f * K0 + w) \div K0 = f /\ (f * K0 + w) % K0 = w
      BY <2>1, <3>2, <3>8, DivModUnique
    <3>10. BlockOf(id) = f + 1 /\ PlaceOf(id) = w
      BY <2>6, <3>7, <3>9 DEF f
    <3>11. w \in Nat
      BY <2>1, <3>2
    <3>12. w \div cps \in Nat /\ w % cps \in 0..(cps - 1) /\ w = cps * (w \div cps) + (w % cps)
      BY <2>1, <3>11, DivMod
    <3> DEFINE u == w \div cps
               v == w % cps
    <3> HIDE DEF u, v
    <3>13. u \in Nat /\ v \in Int /\ u * cps + v = w
      BY <2>1, <3>12 DEF u, v
    <3>14. /\ r.segment \in Int /\ r.inSegment \in Int
           /\ r.segment * cps + r.inSegment = w
      BY <3>6, <3>13 DEF u, v
    <3>15. QED
      BY <1>2, <1>4, <3>4, <3>8, <3>10, <3>14 DEF PlacedAt, cps
  <2>11. QED
    BY <2>8, <2>9, <2>10
<1>5. QED
  BY <1>3, <1>4


\* d has the codes of c, but for code at tuple t.
SetsTo(d, c, t, code, junk) ==
  \A u \in Nat :
    CodeAt(d, u, junk) = IF u = t THEN code ELSE CodeAt(c, u, junk)

\* SetCode of an iterator at a tuple that has a code.
LEMMA SetCodeAtOK ==
  ASSUME NEW c, ColumnOK(c), NEW s, PlacedAt(s, c), Readable(c, s.last),
         NEW code, CodeFits(c.type, c.size, code), NEW junk,
         NEW d, d = SetCodeAt(c, s, code)
  PROVE  SameShape(d, c) /\ SetsTo(d, c, s.last, code, junk)
<1> DEFINE t == s.last
           i == BlockOf(t)
           p == PlaceOf(t)
           b == c.blocks[i]
           n == Len(c.blocks)
<1>1. t \in Nat /\ i \in Nat \ {0} /\ p \in 0..(kNumCodesPerBlock - 1)
      /\ n \in Nat /\ i <= n /\ i \in 1..n
  <2>1. t \in Nat
    BY DEF PlacedAt
  <2>2. i \in DOMAIN c.blocks /\ DOMAIN c.blocks = 1..n /\ n \in Nat
    BY DEF ColumnOK, Readable
  <2>3. i \in Nat \ {0} /\ p \in 0..(kNumCodesPerBlock - 1)
    <3> HIDE DEF t
    <3>1. QED
      BY <2>1, PlaceOfTuple
  <2> HIDE DEF t, i, p, n
  <2>4. QED
    BY <2>1, <2>2, <2>3
<1>2. BlockOK(b, c.type, c.size) /\ FormatOK(c.type, c.size)
  <2>1. n # 0
    BY <1>1
  <2>2. QED
    BY <1>1, <2>1, FormatOfColumn DEF ColumnOK
<1>3. c.type # "kNaive" => code \in Nat /\ code < Pow2[c.size] /\ c.size \in 1..(kNumBitsPerWord - 1)
  BY <1>2 DEF CodeFits, FormatOK
<1>4. c.type # "kNaive" =>
        /\ s.block = i
        /\ s.segment * CodesPerSegment(c) + s.inSegment = p
  BY DEF PlacedAt
<1>5. ASSUME NEW e, NEW a, a = [c EXCEPT !.blocks[i] = e],
             BlockOK(e, c.type, c.size), e.num = b.num,
             \A q \in 0..(kNumCodesPerBlock - 1) :
               BlockGetCode(e, q) = IF q = p THEN code ELSE BlockGetCode(b, q)
      PROVE  SameShape(a, c) /\ SetsTo(a, c, t, code, junk)
  <2>1. a = [c EXCEPT !.blocks = [c.blocks EXCEPT ![i] = e]]
    BY <1>5
  <2>2. SameShape(a, c) /\ OnlyBlock(a, c, i, e)
    <3> HIDE DEF i
    <3>1. e.num = c.blocks[i].num
      BY <1>5 DEF i
    <3>2. QED
      BY <1>1, <1>5, <2>1, <3>1, WithBlock
  <2>3. ASSUME NEW u \in Nat
        PROVE  CodeAt(a, u, junk) = IF u = t THEN code ELSE CodeAt(c, u, junk)
    <3> DEFINE q == PlaceOf(u)
    <3>1. /\ BlockOf(u) = i => CodeAt(a, u, junk) = BlockGetCode(e, q)
          /\ BlockOf(u) # i => CodeAt(a, u, junk) = CodeAt(c, u, junk)
      <4> HIDE DEF i
      <4>1. QED
        BY <1>1, <2>2, CodesWithBlock DEF n
    <3>2. q \in 0..(kNumCodesPerBlock - 1)
      BY PlaceOfTuple
    <3>3. BlockOf(u) = i /\ q = p => u = t
      BY <1>1, OneTuple
    <3>4. BlockOf(u) = i => CodeAt(c, u, junk) = BlockGetCode(b, q)
      BY <1>1 DEF CodeAt, ColumnGetCode
    <3>5. BlockGetCode(e, q) = IF q = p THEN code ELSE BlockGetCode(b, q)
      BY <1>5, <3>2
    <3>6. u = t => BlockOf(u) = i /\ q = p
      OBVIOUS
    <3> HIDE DEF i, q, p, t, b
    <3>7. QED
      BY <3>1, <3>3, <3>4, <3>5, <3>6
  <2>4. QED
    BY <2>2, <2>3 DEF SetsTo
<1>6. CASE c.type = "kNaive"
  <2>1. d = ColumnSetCode(c, t, code)
    BY <1>6 DEF SetCodeAt
  <2>2. SameShape(d, c) /\ SetsCode(d, c, t, code, junk)
    BY <1>1, <2>1, SetCodes
  <2>3. \A x, y : Joined(c.type, x, y) = y
    BY <1>6 DEF Joined
  <2>4. Readable(c, t)
    OBVIOUS
  <2>5. QED
    BY <2>2, <2>3, <2>4 DEF SetsCode, SetsTo
<1>7. CASE c.type = "kBitWeavingH"
  <2> DEFINE e == HReplaceCode(b, p, code)
  <2>1. d = [c EXCEPT !.blocks[s.block] =
               HReplaceCode(@, s.segment * CodesPerSegment(c) + s.inSegment, code)]
    BY <1>7 DEF SetCodeAt
  <2>2. d = [c EXCEPT !.blocks[i] = e]
    BY <1>4, <1>7, <2>1
  <2> HIDE DEF e, b, p
  <2>3. /\ BlockOK(e, c.type, c.size) /\ e.num = b.num
        /\ \A q \in 0..(kNumCodesPerBlock - 1) :
             HGetCode(e, q) = IF q = p THEN code ELSE HGetCode(b, q)
    BY <1>1, <1>2, <1>3, <1>7, HReplaceGet DEF e
  <2>4. /\ \A q : BlockGetCode(e, q) = HGetCode(e, q)
        /\ \A q : BlockGetCode(b, q) = HGetCode(b, q)
    BY <1>2, <1>7, <2>3 DEF BlockOK, BlockGetCode
  <2>5. \A q \in 0..(kNumCodesPerBlock - 1) :
          BlockGetCode(e, q) = IF q = p THEN code ELSE BlockGetCode(b, q)
    BY <2>3, <2>4
  <2>6. QED
    BY <1>5, <2>2, <2>3, <2>5 DEF b, p
<1>8. CASE c.type = "kBitWeavingV"
  <2> DEFINE e == VSetCode(b, p, code)
             a == [c EXCEPT !.blocks[i] = e]
  <2>1. d = ColumnSetCode([c EXCEPT !.blocks[s.block] =
               VSetCode(@, s.segment * CodesPerSegment(c) + s.inSegment, code)],
                          s.last, code)
    BY <1>8 DEF SetCodeAt
  <2>2. d = ColumnSetCode(a, t, code)
    BY <1>4, <1>8, <2>1
  <2>3. a = [c EXCEPT !.blocks[i] = e]
    OBVIOUS
  <2> HIDE DEF e, b, p, a
  <2>4. BlockOK(e, c.type, c.size) /\ e.num = b.num
    <3>1. p \in Nat
      BY <1>1, BitWordsAssumption
    <3>2. QED
      BY <1>2, <1>8, <3>1, VSetDataOK DEF e
  <2>5. \A q \in 0..(kNumCodesPerBlock - 1) :
             VGetCode(e, q) = IF q = p THEN code ELSE VGetCode(b, q)
    <3>1. c.size \in 1..kNumBitsPerWord
      BY <1>3, <1>8, BitWordsAssumption
    <3>2. QED
      BY <1>1, <1>2, <1>3, <1>8, <3>1, VSetGet DEF e
  <2>6. /\ \A q : BlockGetCode(e, q) = VGetCode(e, q)
        /\ \A q : BlockGetCode(b, q) = VGetCode(b, q)
    BY <1>2, <1>8, <2>4 DEF BlockOK, BlockGetCode
  <2>7. \A q \in 0..(kNumCodesPerBlock - 1) :
          BlockGetCode(e, q) = IF q = p THEN code ELSE BlockGetCode(b, q)
    BY <2>5, <2>6
  <2>8. SameShape(a, c) /\ SetsTo(a, c, t, code, junk)
    BY <1>5, <2>3, <2>4, <2>7 DEF b, p
  <2>9. ColumnOK(a) /\ a.type = c.type /\ a.size = c.size /\ Len(a.blocks) = n
    BY <2>8 DEF SameShape
  <2>10. SameShape(d, a) /\ SetsCode(d, a, t, code, junk)
    <3> HIDE DEF n, t
    <3>1. BlockOf(t) <= Len(a.blocks) /\ CodeFits(a.type, a.size, code)
      BY <1>1, <2>9
    <3>2. QED
      BY <1>1, <2>2, <2>9, <3>1, SetCodes
  <2>11. SameShape(d, c)
    BY <2>8, <2>10, SameShapeTrans
  <2>12. ASSUME NEW u \in Nat
         PROVE  CodeAt(d, u, junk) = IF u = t THEN code ELSE CodeAt(c, u, junk)
    <3>1. CodeAt(a, u, junk) = IF u = t THEN code ELSE CodeAt(c, u, junk)
      BY <2>8 DEF SetsTo
    <3>2. CodeAt(d, u, junk) = IF u = t /\ Readable(a, t)
                         THEN Joined(a.type, CodeAt(a, u, junk), code)
                         ELSE CodeAt(a, u, junk)
      BY <2>10 DEF SetsCode
    <3>3. Joined(a.type, CodeAt(a, u, junk), code) = code
      BY <1>8, <2>9 DEF Joined
    <3>4. QED
      BY <3>1, <3>2, <3>3
  <2>13. QED
    BY <2>11, <2>12 DEF SetsTo
<1>9. QED
  BY <1>2, <1>6, <1>7, <1>8 DEF FormatOK


\* A turn of the loop that writes through an iterator.
IterStep(m, id, code) ==
  LET s == Seek(m.column, m.seek, id)
  IN  IF ~m.ok THEN m
      ELSE IF m.column.type # "kNaive" /\ s.block \notin DOMAIN m.column.blocks
      THEN [m EXCEPT !.ok = FALSE]
      ELSE [ok |-> TRUE, seek |-> s, column |-> SetCodeAt(m.column, s, code)]

\* after[i] is what there is after i tuples.
IterRun(after, column, seek, ids, code, result) ==
  /\ after[0] = [ok |-> TRUE, seek |-> seek, column |-> column]
  /\ \A i \in 1..Len(ids) : after[i] = IterStep(after[i - 1], ids[i], code)
  /\ result = after[Len(ids)]

\* The loop, step by step.
LEMMA IteratorSteps ==
  ASSUME NEW column, NEW seek, NEW ids, NEW code, Len(ids) \in Nat,
         NEW result, result = IteratorSetCodes(column, seek, ids, code)
  PROVE  \E after : IterRun(after, column, seek, ids, code, result)
<1> DEFINE Step(m, id) ==
             LET s == Seek(m.column, m.seek, id)
             IN  IF ~m.ok THEN m
                 ELSE IF m.column.type # "kNaive" /\ s.block \notin DOMAIN m.column.blocks
                 THEN [m EXCEPT !.ok = FALSE]
                 ELSE [ok |-> TRUE, seek |-> s,
                       column |-> SetCodeAt(m.column, s, code)]
<1> DEFINE Val(f, i) == IF i = 0 THEN [ok |-> TRUE, seek |-> seek, column |-> column]
                        ELSE Step(f[i - 1], ids[i])
           Is(f, n) == f = [i \in 0..n |-> Val(f, i)]
           S == {n \in Nat : \E f : Is(f, n)}
<1> HIDE DEF Step
<1>1. 0 \in S
  <2>1. Is([i \in 0..0 |-> [ok |-> TRUE, seek |-> seek, column |-> column]], 0)
    OBVIOUS
  <2>2. QED
    BY <2>1
<1>2. ASSUME NEW n \in Nat, n \in S
      PROVE  n + 1 \in S
  <2>1. PICK f : Is(f, n)
    BY <1>2
  <2> DEFINE g == [i \in 0..(n + 1) |-> Val(f, i)]
  <2>2. \A i \in 0..n : g[i] = f[i]
    <3> HIDE DEF Val
    <3>1. QED
      BY <2>1
  <2>3. \A i \in 0..(n + 1) : Val(g, i) = Val(f, i)
    <3> HIDE DEF g
    <3>1. QED
      BY <2>2
  <2>4. Is(g, n + 1)
    <3> HIDE DEF Val
    <3>1. QED
      BY <2>3
  <2> HIDE DEF Is, g
  <2>5. QED
    BY <2>4
<1>3. \A n \in Nat : n \in S
  <2> HIDE DEF S
  <2>1. QED
    BY <1>1, <1>2, Induction
<1>4. PICK e : Is(e, Len(ids))
  BY <1>3
<1> DEFINE after == CHOOSE after : Is(after, Len(ids))
<1>5. Is(after, Len(ids))
  BY <1>4, Zenon
<1>6. result = after[Len(ids)]
  <2> USE DEF Step
  <2>1. QED
    BY DEF IteratorSetCodes
<1> HIDE DEF after
<1>7. \A m, id : Step(m, id) = IterStep(m, id, code)
  BY DEF IterStep, Step
<1>8. after[0] = [ok |-> TRUE, seek |-> seek, column |-> column]
      /\ \A i \in 1..Len(ids) : after[i] = Step(after[i - 1], ids[i])
  <2>1. \A i \in 0..Len(ids) : after[i] = Val(after, i)
    <3> HIDE DEF Val
    <3>1. QED
      BY <1>5
  <2>2. Val(after, 0) = [ok |-> TRUE, seek |-> seek, column |-> column]
        /\ \A i \in 1..Len(ids) : Val(after, i) = Step(after[i - 1], ids[i])
    OBVIOUS
  <2> HIDE DEF Val
  <2>3. 0 \in 0..Len(ids) /\ \A i \in 1..Len(ids) : i \in 0..Len(ids)
    OBVIOUS
  <2>4. QED
    BY <2>1, <2>2, <2>3
<1> HIDE DEF Val, Is, S
<1>9. IterRun(after, column, seek, ids, code, result)
  BY <1>6, <1>7, <1>8 DEF IterRun
<1>10. QED
  BY <1>9

\* Tuples that have a code.
IdsOK(c, ids) ==
  /\ Len(ids) \in Nat
  /\ \A j \in 1..Len(ids) : ids[j] \in Nat /\ Readable(c, ids[j])

\* A tuple after one of a later block.
GoesBack(ids) ==
  \E j \in 1..(Len(ids) - 1) : BlockOf(ids[j + 1]) < BlockOf(ids[j])

\* d has the codes of c, but for code at the first k tuples.
SetsFirst(d, c, ids, k, code, junk) ==
  \A u \in Nat :
    CodeAt(d, u, junk) = IF \E j \in 1..k : u = ids[j] THEN code
                         ELSE CodeAt(c, u, junk)

\* What holds after k turns of the loop.
LoopOK(m, c, ids, k, code, junk) ==
  /\ SameShape(m.column, c)
  /\ m.ok => /\ PlacedAt(m.seek, m.column)
             /\ m.seek.last = IF k = 0 THEN 0 ELSE ids[k]
             /\ SetsFirst(m.column, c, ids, k, code, junk)
  /\ ~m.ok => GoesBack(ids)

\* One turn of a loop over an iterator.
LEMMA LoopStep ==
  ASSUME NEW c, ColumnOK(c), NEW ids, IdsOK(c, ids),
         NEW code, CodeFits(c.type, c.size, code), NEW junk,
         NEW k \in Nat, k < Len(ids), NEW m, LoopOK(m, c, ids, k, code, junk),
         NEW n, n = IterStep(m, ids[k + 1], code)
  PROVE  LoopOK(n, c, ids, k + 1, code, junk)
<1> DEFINE id == ids[k + 1]
           a == m.column
           s == Seek(a, m.seek, id)
           d == SetCodeAt(a, s, code)
<1>1. CASE ~m.ok
  <2>1. n = m
    BY <1>1 DEF IterStep
  <2>2. QED
    BY <1>1, <2>1 DEF LoopOK
<1>2. CASE m.ok
  <2>1. /\ SameShape(a, c) /\ PlacedAt(m.seek, a)
        /\ m.seek.last = IF k = 0 THEN 0 ELSE ids[k]
        /\ SetsFirst(a, c, ids, k, code, junk)
    BY <1>2 DEF LoopOK
  <2>2. /\ ColumnOK(a) /\ a.type = c.type /\ a.size = c.size
        /\ Len(a.blocks) = Len(c.blocks)
        /\ \A i \in 1..Len(c.blocks) : a.blocks[i].num = c.blocks[i].num
    BY <2>1 DEF SameShape
  <2>3. DOMAIN a.blocks = DOMAIN c.blocks /\ DOMAIN c.blocks = 1..Len(c.blocks)
    BY <2>2 DEF ColumnOK
  <2>4. id \in Nat /\ Readable(c, id) /\ k + 1 \in 1..Len(ids) /\ Len(ids) \in Nat
    BY DEF IdsOK
  <2>5. Readable(a, id)
    <3> HIDE DEF id, a
    <3>1. QED
      BY <2>2, <2>3, <2>4 DEF Readable
  <2>6. /\ s.last = id
        /\ \/ PlacedAt(s, a)
           \/ a.type # "kNaive" /\ s.block = 0 /\ BlockOf(id) < BlockOf(m.seek.last)
    <3> HIDE DEF id, a
    <3>1. QED
      BY <2>1, <2>2, <2>4, SeekTo
  <2>7. CASE PlacedAt(s, a)
    <3>1. ~(a.type # "kNaive" /\ s.block \notin DOMAIN a.blocks)
      <4>1. a.type # "kNaive" => s.block = BlockOf(id)
        BY <2>6, <2>7 DEF PlacedAt
      <4>2. BlockOf(id) \in DOMAIN a.blocks
        BY <2>5 DEF Readable
      <4>3. QED
        BY <4>1, <4>2
    <3>2. n = [ok |-> TRUE, seek |-> s, column |-> d]
      BY <1>2, <3>1 DEF IterStep
    <3> HIDE DEF id, a, s, d
    <3>3. SameShape(d, a) /\ SetsTo(d, a, id, code, junk)
      <4>1. Readable(a, s.last) /\ CodeFits(a.type, a.size, code)
        BY <2>2, <2>5, <2>6
      <4>2. SameShape(d, a) /\ SetsTo(d, a, s.last, code, junk)
        BY <2>2, <2>7, <4>1, SetCodeAtOK DEF d
      <4>3. QED
        BY <2>6, <4>2
    <3>4. SameShape(d, c)
      BY <2>1, <3>3, SameShapeTrans
    <3>5. PlacedAt(s, d)
      <4>1. d.type = a.type /\ d.size = a.size
        BY <3>3 DEF SameShape
      <4>2. QED
        BY <2>7, <4>1 DEF PlacedAt, CodesPerSegment
    <3>6. ASSUME NEW u \in Nat
          PROVE  CodeAt(d, u, junk) = IF \E j \in 1..(k + 1) : u = ids[j] THEN code
                                      ELSE CodeAt(c, u, junk)
      <4>1. CodeAt(d, u, junk) = IF u = id THEN code ELSE CodeAt(a, u, junk)
        BY <3>3 DEF SetsTo
      <4>2. CodeAt(a, u, junk) = IF \E j \in 1..k : u = ids[j] THEN code
                                 ELSE CodeAt(c, u, junk)
        BY <2>1 DEF SetsFirst
      <4>3. (\E j \in 1..(k + 1) : u = ids[j]) <=> u = id \/ \E j \in 1..k : u = ids[j]
        BY DEF id
      <4>4. QED
        BY <4>1, <4>2, <4>3
    <3>7. SetsFirst(d, c, ids, k + 1, code, junk)
      BY <3>6 DEF SetsFirst
    <3>8. s.last = IF k + 1 = 0 THEN 0 ELSE ids[k + 1]
      BY <2>6 DEF id
    <3>9. QED
      BY <3>2, <3>4, <3>5, <3>7, <3>8 DEF LoopOK
  <2>8. CASE a.type # "kNaive" /\ s.block = 0 /\ BlockOf(id) < BlockOf(m.seek.last)
    <3>1. s.block \notin DOMAIN a.blocks
      BY <2>3, <2>8
    <3>2. n = [m EXCEPT !.ok = FALSE]
      BY <1>2, <2>8, <3>1 DEF IterStep
    <3>3. GoesBack(ids)
      <4>1. k # 0
        <5>1. SUFFICES ASSUME k = 0 PROVE FALSE
          OBVIOUS
        <5>2. m.seek.last = 0
          BY <2>1, <5>1
        <5>3. BlockOf(0) = 1
          BY BitWordsAssumption DEF BlockOf
        <5>4. BlockOf(id) \in Nat \ {0} /\ BlockOf(id) < 1
          BY <2>4, <2>8, <5>2, <5>3, PlaceOfTuple
        <5>5. QED
          BY <5>4
      <4>2. m.seek.last = ids[k] /\ k \in 1..Len(ids)
        BY <2>1, <2>4, <4>1
      <4>3. ids[k] \in Nat
        BY <4>2 DEF IdsOK
      <4>4. BlockOf(id) \in Nat /\ BlockOf(ids[k]) \in Nat
        <5> HIDE DEF id
        <5>1. QED
          BY <2>4, <4>3, PlaceOfTuple
      <4>5. BlockOf(ids[k + 1]) < BlockOf(ids[k]) /\ k \in 1..(Len(ids) - 1)
        BY <2>4, <2>8, <4>1, <4>2, <4>4
      <4>6. QED
        BY <4>5 DEF GoesBack
    <3>4. DOMAIN m = DOMAIN m
      OBVIOUS
    <3>5. n.column = a /\ ~n.ok
      BY <3>2
    <3>6. QED
      BY <2>1, <3>3, <3>5 DEF LoopOK
  <2>9. QED
    BY <2>6, <2>7, <2>8
<1>3. QED
  BY <1>1, <1>2

\* The loop sets the code of every tuple, unless it dies on its way back to an
\* earlier block.
LEMMA IteratorSetsOK ==
  ASSUME NEW c, ColumnOK(c), NEW ids, IdsOK(c, ids),
         NEW code, CodeFits(c.type, c.size, code), NEW junk,
         NEW result, result = IteratorSetCodes(c, NewSeek, ids, code)
  PROVE  LoopOK(result, c, ids, Len(ids), code, junk)
<1>0. Len(ids) \in Nat
  BY DEF IdsOK
<1>1. PICK after : IterRun(after, c, NewSeek, ids, code, result)
  BY <1>0, IteratorSteps
<1> DEFINE S == {k \in Nat : k <= Len(ids) => LoopOK(after[k], c, ids, k, code, junk)}
<1>2. 0 \in S
  <2>1. after[0] = [ok |-> TRUE, seek |-> NewSeek, column |-> c]
    BY <1>1 DEF IterRun
  <2>2. SetsFirst(c, c, ids, 0, code, junk)
    BY DEF SetsFirst
  <2>3. LoopOK(after[0], c, ids, 0, code, junk)
    BY <2>1, <2>2, SameShapeRefl, NewSeekPlaced DEF LoopOK
  <2>4. QED
    BY <2>3
<1>3. ASSUME NEW k \in Nat, k \in S
      PROVE  k + 1 \in S
  <2> SUFFICES ASSUME k + 1 <= Len(ids)
               PROVE  LoopOK(after[k + 1], c, ids, k + 1, code, junk)
    OBVIOUS
  <2> DEFINE m == after[k]
             n == after[k + 1]
  <2>1. k < Len(ids) /\ LoopOK(m, c, ids, k, code, junk)
    BY <1>0, <1>3
  <2>2. n = IterStep(m, ids[k + 1], code)
    BY <1>0, <1>1 DEF IterRun
  <2> HIDE DEF m, n
  <2>3. LoopOK(n, c, ids, k + 1, code, junk)
    BY <2>1, <2>2, LoopStep
  <2>4. QED
    BY <2>3 DEF n
<1>4. \A k \in Nat : k \in S
  <2> HIDE DEF S
  <2>1. QED
    BY <1>2, <1>3, Induction
<1>5. QED
  BY <1>0, <1>1, <1>4 DEF IterRun

-----------------------------------------------------------------------------
(* Ascending sequences. *)

\* s lists the numbers of S, each once, in their order.
Lists(s, S) ==
  /\ s \in Seq(Nat)
  /\ \A i \in 1..Len(s) : s[i] \in S
  /\ \A x \in S : \E i \in 1..Len(s) : s[i] = x
  /\ \A i, j \in 1..Len(s) : i < j => s[i] < s[j]

\* The empty sequence lists no numbers.
LEMMA ListsEmpty == Lists(<<>>, {})
<1>1. <<>> \in Seq(Nat) /\ Len(<<>>) = 0
  BY EmptySeq
<1>2. QED
  BY <1>1 DEF Lists

\* Lists of numbers that follow one another make one list.
LEMMA ListsConcat ==
  ASSUME NEW s, NEW S, Lists(s, S), NEW t, NEW T, Lists(t, T),
         \A x \in S, y \in T : x < y
  PROVE  Lists(s \o t, S \cup T)
<1> DEFINE m == Len(s)
           n == Len(t)
           u == s \o t
<1>1. s \in Seq(Nat) /\ t \in Seq(Nat) /\ m \in Nat /\ n \in Nat
  BY LenProperties DEF Lists
<1>2. /\ \A i \in 1..m : s[i] \in S
      /\ \A x \in S : \E i \in 1..m : s[i] = x
      /\ \A i, j \in 1..m : i < j => s[i] < s[j]
  BY DEF Lists
<1>3. /\ \A i \in 1..n : t[i] \in T
      /\ \A x \in T : \E i \in 1..n : t[i] = x
      /\ \A i, j \in 1..n : i < j => t[i] < t[j]
  BY DEF Lists
<1>4. u \in Seq(Nat) /\ Len(u) = m + n
      /\ \A i \in 1..(m + n) : u[i] = IF i <= m THEN s[i] ELSE t[i - m]
  BY <1>1, ConcatProperties
<1> HIDE DEF m, n, u
<1>5. \A i \in 1..(m + n) : /\ i <= m => i \in 1..m
                            /\ ~(i <= m) => i - m \in 1..n
  BY <1>1
<1>6. \A i \in 1..(m + n) : u[i] \in S \cup T
  BY <1>2, <1>3, <1>4, <1>5
<1>7. ASSUME NEW x \in S \cup T
      PROVE  \E i \in 1..(m + n) : u[i] = x
  <2>1. CASE x \in S
    <3>1. PICK i \in 1..m : s[i] = x
      BY <1>2, <2>1
    <3>2. i \in 1..(m + n) /\ i <= m
      BY <1>1
    <3>3. u[i] = x
      BY <1>4, <3>1, <3>2
    <3>4. QED
      BY <3>2, <3>3
  <2>2. CASE x \in T
    <3>1. PICK i \in 1..n : t[i] = x
      BY <1>3, <2>2
    <3>2. m + i \in 1..(m + n) /\ ~(m + i <= m) /\ (m + i) - m = i
      BY <1>1
    <3>3. u[m + i] = x
      BY <1>4, <3>1, <3>2
    <3>4. QED
      BY <3>2, <3>3
  <2>3. QED
    BY <2>1, <2>2
<1>8. ASSUME NEW i \in 1..(m + n), NEW j \in 1..(m + n), i < j
      PROVE  u[i] < u[j]
  <2>1. CASE j <= m
    <3>1. i \in 1..m /\ j \in 1..m /\ i <= m
      BY <1>1, <1>8, <2>1
    <3>2. QED
      BY <1>2, <1>4, <1>8, <2>1, <3>1
  <2>2. CASE ~(j <= m) /\ i <= m
    <3>1. i \in 1..m /\ j - m \in 1..n
      BY <1>5, <2>2
    <3>2. u[i] = s[i] /\ u[j] = t[j - m] /\ s[i] \in S /\ t[j - m] \in T
      BY <1>2, <1>3, <1>4, <2>2, <3>1
    <3>3. QED
      BY <3>2
  <2>3. CASE ~(j <= m) /\ ~(i <= m)
    <3>1. i - m \in 1..n /\ j - m \in 1..n /\ i - m < j - m
      BY <1>1, <1>5, <1>8, <2>3
    <3>2. u[i] = t[i - m] /\ u[j] = t[j - m]
      BY <1>4, <2>3
    <3>3. t[i - m] < t[j - m]
      BY <1>3, <3>1
    <3>4. QED
      BY <3>2, <3>3
  <2>4. i <= m \/ ~(i <= m)
    OBVIOUS
  <2>5. QED
    BY <2>1, <2>2, <2>3
<1>9. QED
  BY <1>4, <1>6, <1>7, <1>8 DEF Lists, u

\* One number makes a list.
LEMMA ListsOne ==
  ASSUME NEW x \in Nat
  PROVE  Lists(<<x>>, {x})
<1>1. <<x>> \in Seq(Nat) /\ Len(<<x>>) = 1 /\ <<x>>[1] = x
  OBVIOUS
<1> DEFINE s == <<x>>
<1> HIDE DEF s
<1>2. s \in Seq(Nat) /\ Len(s) = 1 /\ s[1] = x
  BY <1>1 DEF s
<1>3. \A i \in 1..Len(s) : i = 1
  BY <1>2
<1>4. 1 \in 1..Len(s)
  BY <1>2
<1>5. Lists(s, {x})
  BY <1>2, <1>3, <1>4 DEF Lists
<1>6. QED
  BY <1>5 DEF s

\* Only one sequence lists the numbers of a set.
LEMMA ListsPrefix ==
  ASSUME NEW s, NEW t, NEW S, Lists(s, S), Lists(t, S)
  PROVE  \A k \in 1..Len(s) : k <= Len(t) /\ s[k] = t[k]
<1> DEFINE m == Len(s)
           n == Len(t)
           P(k) == \A j \in 1..k : j <= n /\ s[j] = t[j]
           Good == {k \in Nat : k <= m => P(k)}
<1>1. m \in Nat /\ n \in Nat /\ s \in Seq(Nat) /\ t \in Seq(Nat)
  BY LenProperties DEF Lists
<1>2. /\ \A i \in 1..m : s[i] \in S /\ s[i] \in Nat
      /\ \A x \in S : \E i \in 1..m : s[i] = x
      /\ \A i, j \in 1..m : i < j => s[i] < s[j]
  BY <1>1, ElementOfSeq DEF Lists
<1>3. /\ \A i \in 1..n : t[i] \in S /\ t[i] \in Nat
      /\ \A x \in S : \E i \in 1..n : t[i] = x
      /\ \A i, j \in 1..n : i < j => t[i] < t[j]
  BY <1>1, ElementOfSeq DEF Lists
<1> HIDE DEF m, n
<1>4. 0 \in Good
  OBVIOUS
<1>5. ASSUME NEW k \in Nat, k \in Good
      PROVE  k + 1 \in Good
  <2> SUFFICES ASSUME k + 1 <= m PROVE P(k + 1)
    OBVIOUS
  <2>1. P(k) /\ k + 1 \in 1..m
    BY <1>1, <1>5
  <2>2. PICK j \in 1..n : t[j] = s[k + 1]
    BY <1>2, <1>3, <2>1
  <2>3. j >= k + 1
    <3> SUFFICES ASSUME j < k + 1 PROVE FALSE
      BY <1>1
    <3>1. j \in 1..k /\ j \in 1..m
      BY <1>1, <2>1
    <3>2. s[j] = t[j] /\ s[j] < s[k + 1]
      BY <1>2, <2>1, <3>1
    <3>3. s[j] \in Nat /\ s[k + 1] \in Nat
      BY <1>2, <2>1, <3>1
    <3>4. QED
      BY <2>2, <3>2, <3>3
  <2>4. k + 1 \in 1..n
    BY <1>1, <2>3
  <2>5. PICK i \in 1..m : s[i] = t[k + 1]
    BY <1>2, <1>3, <2>4
  <2>6. i >= k + 1
    <3> SUFFICES ASSUME i < k + 1 PROVE FALSE
      BY <1>1
    <3>1. i \in 1..k
      BY <1>1
    <3>2. s[i] = t[i] /\ i \in 1..n /\ t[i] < t[k + 1]
      BY <1>1, <1>3, <2>1, <2>4, <3>1
    <3>3. t[i] \in Nat /\ t[k + 1] \in Nat
      BY <1>3, <2>4, <3>2
    <3>4. QED
      BY <2>5, <3>2, <3>3
  <2> DEFINE a == s[k + 1]
             b == t[k + 1]
  <2>7. a \in Nat /\ b \in Nat
    BY <1>2, <1>3, <2>1, <2>4
  <2>8. b <= a
    <3>1. j = k + 1 \/ t[k + 1] < t[j]
      BY <1>1, <1>3, <2>3, <2>4
    <3>2. QED
      BY <2>2, <2>7, <3>1
  <2>9. a <= b
    <3>1. i = k + 1 \/ s[k + 1] < s[i]
      BY <1>1, <1>2, <2>1, <2>6
    <3>2. QED
      BY <2>5, <2>7, <3>1
  <2>10. s[k + 1] = t[k + 1]
    BY <2>7, <2>8, <2>9
  <2>11. \A l \in 1..(k + 1) : l = k + 1 \/ l \in 1..k
    OBVIOUS
  <2>12. QED
    BY <2>1, <2>4, <2>10, <2>11
<1>6. \A k \in Nat : k \in Good
  <2> HIDE DEF Good
  <2>1. QED
    BY <1>4, <1>5, Induction
<1>7. ASSUME NEW k \in 1..m
      PROVE  k <= n /\ s[k] = t[k]
  <2>1. k \in Nat /\ k <= m /\ k \in 1..k
    BY <1>1
  <2>2. P(k)
    BY <1>6, <2>1
  <2>3. QED
    BY <2>1, <2>2
<1>8. QED
  BY <1>7 DEF m, n

\* There is one list of a set of numbers.
LEMMA ListsUnique ==
  ASSUME NEW s, NEW t, NEW S, Lists(s, S), Lists(t, S)
  PROVE  Len(s) = Len(t) /\ s = t
<1>1. Len(s) \in Nat /\ Len(t) \in Nat /\ s \in Seq(Nat) /\ t \in Seq(Nat)
  BY LenProperties DEF Lists
<1>2. \A k \in 1..Len(s) : k <= Len(t) /\ s[k] = t[k]
  BY ListsPrefix
<1>3. \A k \in 1..Len(t) : k <= Len(s)
  BY ListsPrefix
<1>4. Len(s) = Len(t)
  BY <1>1, <1>2, <1>3
<1>5. QED
  BY <1>1, <1>2, <1>4, SeqEqual


-----------------------------------------------------------------------------
(* The positions of the 1-bits of a block. *)

\* f[i] lists the members of S below i.
AscendingRun(f, S, n, result) ==
  /\ f[0] = <<>>
  /\ \A i \in 1..n : f[i] = IF i - 1 \in S THEN Append(f[i - 1], i - 1) ELSE f[i - 1]
  /\ result = f[n]

\* The recursion of Ascending, step by step.
LEMMA AscendingSteps ==
  ASSUME NEW S, NEW n \in Nat, NEW result, result = Ascending(S, n)
  PROVE  \E f : AscendingRun(f, S, n, result)
<1> DEFINE Val(f, i) == IF i = 0 THEN <<>>
                        ELSE IF i - 1 \in S THEN Append(f[i - 1], i - 1) ELSE f[i - 1]
           Is(f, k) == f = [i \in 0..k |-> Val(f, i)]
           Q == {k \in Nat : \E f : Is(f, k)}
<1>1. 0 \in Q
  <2>1. Is([i \in 0..0 |-> <<>>], 0)
    OBVIOUS
  <2>2. QED
    BY <2>1
<1>2. ASSUME NEW k \in Nat, k \in Q
      PROVE  k + 1 \in Q
  <2>1. PICK f : Is(f, k)
    BY <1>2
  <2> DEFINE g == [i \in 0..(k + 1) |-> Val(f, i)]
  <2>2. \A i \in 0..k : g[i] = f[i]
    <3> HIDE DEF Val
    <3>1. QED
      BY <2>1
  <2>3. \A i \in 0..(k + 1) : Val(g, i) = Val(f, i)
    <3> HIDE DEF g
    <3>1. QED
      BY <2>2
  <2>4. Is(g, k + 1)
    <3> HIDE DEF Val
    <3>1. QED
      BY <2>3
  <2> HIDE DEF Is, g
  <2>5. QED
    BY <2>4
<1>3. \A k \in Nat : k \in Q
  <2> HIDE DEF Q
  <2>1. QED
    BY <1>1, <1>2, Induction
<1>4. PICK e : Is(e, n)
  BY <1>3
<1> DEFINE f0 == CHOOSE f0 : Is(f0, n)
<1>5. Is(f0, n)
  BY <1>4, Zenon
<1>6. result = f0[n]
  BY DEF Ascending
<1> HIDE DEF f0
<1>7. f0[0] = <<>>
      /\ \A i \in 1..n : f0[i] = IF i - 1 \in S THEN Append(f0[i - 1], i - 1) ELSE f0[i - 1]
  <2>1. \A i \in 0..n : f0[i] = Val(f0, i)
    <3> HIDE DEF Val
    <3>1. QED
      BY <1>5
  <2>2. Val(f0, 0) = <<>>
        /\ \A i \in 1..n : Val(f0, i) = IF i - 1 \in S THEN Append(f0[i - 1], i - 1) ELSE f0[i - 1]
    OBVIOUS
  <2> HIDE DEF Val
  <2>3. 0 \in 0..n /\ \A i \in 1..n : i \in 0..n
    OBVIOUS
  <2>4. QED
    BY <2>1, <2>2, <2>3
<1>8. QED
  BY <1>6, <1>7 DEF AscendingRun

\* Ascending lists what it says.
LEMMA AscendingLists ==
  ASSUME NEW S, NEW n \in Nat
  PROVE  Lists(Ascending(S, n), S \cap 0..(n - 1))
<1> DEFINE result == Ascending(S, n)
<1>1. PICK f : AscendingRun(f, S, n, result)
  <2>1. result = Ascending(S, n)
    OBVIOUS
  <2> HIDE DEF result
  <2>2. QED
    BY <2>1, AscendingSteps
<1> HIDE DEF result
<1> DEFINE Good == {i \in Nat : i <= n => Lists(f[i], S \cap 0..(i - 1))}
<1>2. 0 \in Good
  <2>1. S \cap 0..(0 - 1) = {}
    OBVIOUS
  <2>2. f[0] = <<>>
    BY <1>1 DEF AscendingRun
  <2>3. QED
    BY <2>1, <2>2, ListsEmpty
<1>3. ASSUME NEW i \in Nat, i \in Good
      PROVE  i + 1 \in Good
  <2> SUFFICES ASSUME i + 1 <= n PROVE Lists(f[i + 1], S \cap 0..((i + 1) - 1))
    OBVIOUS
  <2> DEFINE s == f[i]
             t == f[i + 1]
             A == S \cap 0..(i - 1)
             B == S \cap 0..((i + 1) - 1)
  <2>1. Lists(s, A)
    BY <1>3
  <2>2. i + 1 \in 1..n /\ (i + 1) - 1 = i
    OBVIOUS
  <2>3. t = IF i \in S THEN Append(s, i) ELSE s
    BY <1>1, <2>2 DEF AscendingRun
  <2>4. B = IF i \in S THEN A \cup {i} ELSE A
    OBVIOUS
  <2>5. \A x \in A, y \in {i} : x < y
    OBVIOUS
  <2> HIDE DEF s, t, A, B
  <2>6. CASE i \in S
    <3>1. Lists(s \o <<i>>, A \cup {i})
      BY <2>1, <2>5, ListsConcat, ListsOne
    <3>2. Append(s, i) = s \o <<i>>
      <4>1. s \in Seq(Nat)
        BY <2>1 DEF Lists
      <4>2. QED
        BY <4>1
    <3>3. QED
      BY <2>3, <2>4, <2>6, <3>1, <3>2 DEF t, B
  <2>7. CASE i \notin S
    BY <2>1, <2>3, <2>4, <2>7 DEF t, B
  <2>8. QED
    BY <2>6, <2>7
<1>4. \A i \in Nat : i \in Good
  <2> HIDE DEF Good
  <2>1. QED
    BY <1>2, <1>3, Induction
<1>5. QED
  BY <1>1, <1>4 DEF AscendingRun, result

\* The numbers of a list can be moved.
LEMMA ListsShift ==
  ASSUME NEW s, NEW S, Lists(s, S), NEW o \in Nat
  PROVE  Lists([i \in DOMAIN s |-> o + s[i]], {o + x : x \in S})
<1> DEFINE n == Len(s)
           t == [i \in DOMAIN s |-> o + s[i]]
<1>1. s \in Seq(Nat) /\ n \in Nat /\ DOMAIN s = 1..n
  BY LenProperties DEF Lists
<1>2. \A i \in 1..n : s[i] \in Nat
  BY <1>1, ElementOfSeq
<1> HIDE DEF n
<1>3. t = [i \in 1..n |-> t[i]] /\ \A i \in 1..n : t[i] = o + s[i]
  BY <1>1
<1> HIDE DEF t
<1>4. Len(t) = n
  BY <1>1, <1>3, LenOfFunction
<1>5. t \in Seq(Nat)
  <2>1. t \in [1..n -> Nat]
    <3>1. \A i \in 1..n : t[i] \in Nat
      BY <1>2, <1>3
    <3>2. QED
      BY <1>3, <3>1
  <2>2. QED
    BY <1>1, <2>1
<1>6. /\ \A i \in 1..n : s[i] \in S
      /\ \A x \in S : \E i \in 1..n : s[i] = x
      /\ \A i, j \in 1..n : i < j => s[i] < s[j]
  BY DEF Lists, n
<1>7. \A i \in 1..n : t[i] \in {o + x : x \in S}
  BY <1>3, <1>6
<1>8. \A y \in {o + x : x \in S} : \E i \in 1..n : t[i] = y
  BY <1>3, <1>6
<1>9. \A i, j \in 1..n : i < j => t[i] < t[j]
  <2> SUFFICES ASSUME NEW i \in 1..n, NEW j \in 1..n, i < j PROVE t[i] < t[j]
    OBVIOUS
  <2>1. s[i] < s[j] /\ t[i] = o + s[i] /\ t[j] = o + s[j]
    BY <1>3, <1>6
  <2>2. s[i] \in Nat /\ s[j] \in Nat
    BY <1>2
  <2>3. QED
    BY <2>1, <2>2
<1>10. Lists(t, {o + x : x \in S})
  BY <1>4, <1>5, <1>7, <1>8, <1>9 DEF Lists
<1>11. QED
  BY <1>10 DEF t

\* The positions of the 1-bits of a word.
LEMMA WordPositionsLists ==
  ASSUME NEW word, NEW offset \in Nat
  PROVE  Lists(WordPositions(word, offset),
               {offset + x : x \in {i \in Bits : BitAt(i) \in word}})
<1> DEFINE S == {i \in Bits : BitAt(i) \in word}
           s == Places(word)
<1>1. Lists(Ascending(S, kNumBitsPerWord), S \cap 0..(kNumBitsPerWord - 1))
  <2> HIDE DEF S
  <2>1. QED
    BY AscendingLists, BitWordsAssumption
<1>2. S \cap 0..(kNumBitsPerWord - 1) = S
  BY DEF Bits
<1>3. s = Ascending(S, kNumBitsPerWord)
  BY DEF Places
<1> HIDE DEF S, s
<1>4. Lists(s, S)
  BY <1>1, <1>2, <1>3
<1>5. Lists([i \in DOMAIN s |-> offset + s[i]], {offset + x : x \in S})
  BY <1>4, ListsShift
<1>6. QED
  BY <1>5 DEF WordPositions, s, S


\* A block of a bit vector: its length and its words.
BitsOK(b, num) ==
  /\ b = [num |-> num, words |-> b.words]
  /\ b.words = [w \in 0..(NumWords(num) - 1) |-> b.words[w]]

\* The positions of its 1-bits, those past the end too, of which there should
\* be none.
BlockBits(b) ==
  {p \in 0..(NumWords(b.num) * kNumBitsPerWord - 1) : BlockGetBit(b, p)}
NoBitsPast(b) == \A p \in BlockBits(b) : p < b.num

\* The words of a block do not go beyond those of a full one.
LEMMA WordsOf ==
  ASSUME NEW num \in 0..kNumCodesPerBlock
  PROVE  /\ num \in Nat /\ NumWords(num) \in Nat
         /\ NumWords(num) * kNumBitsPerWord \in num..kNumCodesPerBlock
         /\ num = kNumCodesPerBlock => NumWords(num) * kNumBitsPerWord = num
<1> DEFINE W == kNumBitsPerWord
           C == kNumCodesPerBlock
           n == NumWords(num)
           y == n * W
           v == VSegments
<1>0. W \in Nat \ {0} /\ C \in Nat \ {0} /\ num \in Nat /\ num <= C
  BY BitWordsAssumption
<1>1. n \in Nat /\ num <= n * W /\ (num > 0 => n > 0 /\ (n - 1) * W < num) /\ CEIL(0, W) = 0
  BY <1>0, CeilBounds DEF NumWords
<1>2. v \in Nat /\ v * W = C
  BY BlockWords
<1>3. num = 0 => n = 0
  BY <1>1 DEF NumWords
<1> HIDE DEF n, v, W, C
<1>4. n <= v
  <2> SUFFICES ASSUME n > v PROVE FALSE
    BY <1>1, <1>2
  <2>1. num > 0
    BY <1>0, <1>1, <1>2, <1>3
  <2> DEFINE e == n - 1 - v
             z == e * W
  <2>2. e \in Nat /\ n - 1 = v + e
    BY <1>1, <1>2
  <2> HIDE DEF e
  <2>3. (n - 1) * W = C + z /\ z \in Nat
    BY <1>0, <1>2, <2>2
  <2> HIDE DEF z
  <2>4. QED
    BY <1>0, <1>1, <2>1, <2>3
<1>5. y \in Nat /\ y <= C
  <2> DEFINE e == v - n
             z == e * W
  <2>1. e \in Nat /\ v = n + e
    BY <1>1, <1>2, <1>4
  <2> HIDE DEF e
  <2>2. C = y + z /\ z \in Nat /\ y \in Nat
    BY <1>0, <1>1, <1>2, <2>1
  <2> HIDE DEF z, y
  <2>3. QED
    BY <1>0, <2>2
<1> HIDE DEF y
<1>6. num <= y
  BY <1>1 DEF y
<1>7. QED
  BY <1>0, <1>1, <1>5, <1>6 DEF y, n, W, C

\* Where a position of a word is.
LEMMA WordPlace ==
  ASSUME NEW w \in Nat, NEW i \in Bits
  PROVE  /\ w * kNumBitsPerWord + i \in Nat
         /\ WordAt(w * kNumBitsPerWord + i) = w
         /\ BitAt(w * kNumBitsPerWord + i) = BitAt(i)
<1> DEFINE W == kNumBitsPerWord
           p == w * W + i
<1>0. W \in Nat \ {0} /\ i \in 0..(W - 1)
  BY BitWordsAssumption DEF Bits
<1> HIDE DEF W
<1>1. p \div W = w /\ p % W = i
  BY <1>0, DivModUnique
<1>2. p \in Nat
  BY <1>0
<1>3. i % W = i
  BY <1>0
<1> HIDE DEF p
<1>4. QED
  BY <1>1, <1>2, <1>3 DEF WordAt, BitAt, W, p

\* And the other way.
LEMMA PlaceInWord ==
  ASSUME NEW p \in Nat
  PROVE  /\ WordAt(p) \in Nat /\ p % kNumBitsPerWord \in Bits
         /\ p = WordAt(p) * kNumBitsPerWord + (p % kNumBitsPerWord)
         /\ BitAt(p) = BitAt(p % kNumBitsPerWord)
<1> DEFINE W == kNumBitsPerWord
           q == p \div W
           r == p % W
<1>0. W \in Nat \ {0}
  BY BitWordsAssumption
<1>1. q \in Nat /\ r \in 0..(W - 1) /\ p = W * q + r
  BY <1>0, DivMod
<1> HIDE DEF q, r
<1>2. W * q = q * W
  BY <1>0, <1>1
<1>3. r % W = r
  BY <1>0, <1>1
<1>4. QED
  BY <1>0, <1>1, <1>2, <1>3 DEF WordAt, BitAt, Bits, q, r

\* seq[w] lists the positions in the first w words.
PositionsRun(seq, block, offset, result) ==
  /\ seq[0] = <<>>
  /\ \A i \in 1..NumWords(block.num) :
       seq[i] = seq[i - 1] \o WordPositions(block.words[i - 1],
                                            offset + (i - 1) * kNumBitsPerWord)
  /\ result = seq[NumWords(block.num)]

\* The recursion of BlockPositions, step by step.
LEMMA PositionsSteps ==
  ASSUME NEW block, NEW offset, NumWords(block.num) \in Nat,
         NEW result, result = BlockPositions(block, offset)
  PROVE  \E seq : PositionsRun(seq, block, offset, result)
<1> DEFINE Val(f, i) == IF i = 0 THEN <<>>
                        ELSE f[i - 1] \o WordPositions(block.words[i - 1], offset + (i - 1) * kNumBitsPerWord)
           Is(f, n) == f = [i \in 0..n |-> Val(f, i)]
           S == {n \in Nat : \E f : Is(f, n)}
<1>1. 0 \in S
  <2>1. Is([i \in 0..0 |-> <<>>], 0)
    OBVIOUS
  <2>2. QED
    BY <2>1
<1>2. ASSUME NEW n \in Nat, n \in S
      PROVE  n + 1 \in S
  <2>1. PICK f : Is(f, n)
    BY <1>2
  <2> DEFINE g == [i \in 0..(n + 1) |-> Val(f, i)]
  <2>2. \A i \in 0..n : g[i] = f[i]
    <3> HIDE DEF Val
    <3>1. QED
      BY <2>1
  <2>3. \A i \in 0..(n + 1) : Val(g, i) = Val(f, i)
    <3> HIDE DEF g
    <3>1. QED
      BY <2>2
  <2>4. Is(g, n + 1)
    <3> HIDE DEF Val
    <3>1. QED
      BY <2>3
  <2> HIDE DEF Is, g
  <2>5. QED
    BY <2>4
<1>3. \A n \in Nat : n \in S
  <2> HIDE DEF S
  <2>1. QED
    BY <1>1, <1>2, Induction
<1>4. PICK e : Is(e, NumWords(block.num))
  BY <1>3
<1> DEFINE f0 == CHOOSE f0 : Is(f0, NumWords(block.num))
<1>5. Is(f0, NumWords(block.num))
  BY <1>4, Zenon
<1>6. result = f0[NumWords(block.num)]
  BY DEF BlockPositions
<1> HIDE DEF f0
<1>7. f0[0] = <<>>
      /\ \A i \in 1..NumWords(block.num) : f0[i] = f0[i - 1] \o WordPositions(block.words[i - 1], offset + (i - 1) * kNumBitsPerWord)
  <2>1. \A i \in 0..NumWords(block.num) : f0[i] = Val(f0, i)
    <3> HIDE DEF Val
    <3>1. QED
      BY <1>5
  <2>2. Val(f0, 0) = <<>>
        /\ \A i \in 1..NumWords(block.num) : Val(f0, i) = f0[i - 1] \o WordPositions(block.words[i - 1], offset + (i - 1) * kNumBitsPerWord)
    <3>1. \A i \in 1..NumWords(block.num) : i # 0
      OBVIOUS
    <3>2. QED
      BY <3>1, Zenon
  <2> HIDE DEF Val
  <2>3. 0 \in 0..NumWords(block.num) /\ \A i \in 1..NumWords(block.num) : i \in 0..NumWords(block.num)
    OBVIOUS
  <2>4. QED
    BY <2>1, <2>2, <2>3
<1>8. QED
  BY <1>6, <1>7 DEF PositionsRun

\* The positions of the 1-bits in the first k words.
BitsUpto(b, k) == {p \in 0..(k * kNumBitsPerWord - 1) : BlockGetBit(b, p)}

PositionsUpto(b, k, offset) == {offset + p : p \in BitsUpto(b, k)}
PositionsIn(b, k, offset) ==
  {(offset + k * kNumBitsPerWord) + x : x \in {i \in Bits : BitAt(i) \in b.words[k]}}

\* The positions in the next word come after those before.
LEMMA NextWord ==
  ASSUME NEW b, NEW k \in Nat, NEW offset \in Nat
  PROVE  /\ PositionsUpto(b, k + 1, offset)
              = PositionsUpto(b, k, offset) \cup PositionsIn(b, k, offset)
         /\ \A x \in PositionsUpto(b, k, offset), y \in PositionsIn(b, k, offset) :
              x < y
<1> DEFINE W == kNumBitsPerWord
           y == k * W
           A == BitsUpto(b, k)
           C == {i \in Bits : BitAt(i) \in b.words[k]}
<1>0. W \in Nat \ {0} /\ y \in Nat /\ (k + 1) * W = y + W
  BY BitWordsAssumption
<1>1. BitsUpto(b, k + 1) = {p \in 0..(y + W - 1) : BlockGetBit(b, p)}
      /\ A = {p \in 0..(y - 1) : BlockGetBit(b, p)}
  BY <1>0 DEF BitsUpto
<1>2. ASSUME NEW i \in Bits
      PROVE  /\ y + i \in y..(y + W - 1)
             /\ BlockGetBit(b, y + i) <=> BitAt(i) \in b.words[k]
  <2>1. WordAt(y + i) = k /\ BitAt(y + i) = BitAt(i)
    BY WordPlace
  <2>2. i \in 0..(W - 1)
    BY DEF Bits
  <2> HIDE DEF y, W
  <2>3. QED
    BY <1>0, <2>1, <2>2 DEF BlockGetBit
<1> HIDE DEF W, y, A, C
<1>3. ASSUME NEW p \in y..(y + W - 1)
      PROVE  p - y \in Bits /\ y + (p - y) = p
  BY <1>0 DEF Bits, W
<1>4. ASSUME NEW p \in Nat
      PROVE  p \in BitsUpto(b, k + 1) <=> p \in A \/ \E x \in C : p = y + x
  <2>1. CASE p \in 0..(y - 1)
    <3>1. \A x \in C : p # y + x
      BY <1>0, <1>2, <2>1 DEF C
    <3>2. p \in 0..(y + W - 1)
      BY <1>0, <2>1
    <3>3. QED
      BY <1>1, <2>1, <3>1, <3>2
  <2>2. CASE p \in y..(y + W - 1)
    <3>1. p - y \in Bits /\ y + (p - y) = p
      BY <1>3, <2>2
    <3>2. BlockGetBit(b, p) <=> BitAt(p - y) \in b.words[k]
      BY <1>2, <3>1
    <3>3. \A x \in Bits : p = y + x => x = p - y
      BY <1>0, <3>1 DEF Bits
    <3>4. BlockGetBit(b, p) <=> \E x \in C : p = y + x
      BY <3>1, <3>2, <3>3 DEF C
    <3>5. p \notin 0..(y - 1) /\ p \in 0..(y + W - 1)
      BY <1>0, <2>2
    <3>6. QED
      BY <1>1, <3>4, <3>5
  <2>3. CASE p > y + W - 1
    <3>1. p \notin 0..(y - 1) /\ p \notin 0..(y + W - 1)
      BY <1>0, <2>3
    <3>2. \A x \in C : p # y + x
      BY <1>0, <1>2, <2>3 DEF C
    <3>3. QED
      BY <1>1, <3>1, <3>2
  <2>4. QED
    BY <1>0, <2>1, <2>2, <2>3
<1>5. (\A p \in BitsUpto(b, k + 1) : p \in Nat) /\ (\A p \in A : p \in 0..(y - 1))
      /\ (\A x \in C : x \in Nat /\ y + x \in Nat)
  BY <1>0, <1>1, <1>2 DEF C, Bits
<1>6. {offset + p : p \in BitsUpto(b, k + 1)}
        = {offset + p : p \in A} \cup {(offset + y) + x : x \in C}
  <2>1. ASSUME NEW p \in BitsUpto(b, k + 1)
        PROVE  offset + p \in {offset + q : q \in A} \cup {(offset + y) + x : x \in C}
    <3>1. p \in A \/ \E x \in C : p = y + x
      BY <1>4, <1>5
    <3>2. CASE p \in A
      BY <3>2
    <3>3. ASSUME NEW x \in C, p = y + x
          PROVE  offset + p = (offset + y) + x
      BY <1>0, <1>5, <3>3
    <3>4. QED
      BY <3>1, <3>2, <3>3
  <2>2. ASSUME NEW p \in A
        PROVE  p \in BitsUpto(b, k + 1)
    BY <1>4, <1>5
  <2>3. ASSUME NEW x \in C
        PROVE  (offset + y) + x = offset + (y + x) /\ y + x \in BitsUpto(b, k + 1)
    BY <1>0, <1>4, <1>5
  <2>4. QED
    BY <2>1, <2>2, <2>3
<1>7. ASSUME NEW p \in A, NEW x \in C
      PROVE  offset + p < (offset + y) + x
  BY <1>0, <1>5
<1>8. /\ PositionsUpto(b, k, offset) = {offset + p : p \in A}
      /\ PositionsUpto(b, k + 1, offset) = {offset + p : p \in BitsUpto(b, k + 1)}
      /\ PositionsIn(b, k, offset) = {(offset + y) + x : x \in C}
  BY DEF PositionsUpto, PositionsIn, A, C, y, W
<1>9. \A x \in PositionsUpto(b, k, offset), z \in PositionsIn(b, k, offset) : x < z
  BY <1>7, <1>8
<1>10. QED
  BY <1>6, <1>8, <1>9

\* The iterator's walk over a block.
LEMMA BlockPositionsList ==
  ASSUME NEW b, NumWords(b.num) \in Nat, NEW offset \in Nat
  PROVE  Lists(BlockPositions(b, offset), {offset + p : p \in BlockBits(b)})
<1> DEFINE result == BlockPositions(b, offset)
           n == NumWords(b.num)
           W == kNumBitsPerWord
           Upto(k) == PositionsUpto(b, k, offset)
<1>1. PICK f : PositionsRun(f, b, offset, result)
  <2>1. result = BlockPositions(b, offset)
    OBVIOUS
  <2> HIDE DEF result
  <2>2. QED
    BY <2>1, PositionsSteps
<1> HIDE DEF result
<1> DEFINE Good == {k \in Nat : k <= n => Lists(f[k], Upto(k))}
<1>2. 0 \in Good
  <2>1. BitsUpto(b, 0) = {}
    BY BitWordsAssumption DEF BitsUpto
  <2>2. Upto(0) = {}
    BY <2>1 DEF PositionsUpto
  <2>3. f[0] = <<>>
    BY <1>1 DEF PositionsRun
  <2> HIDE DEF Upto
  <2>4. QED
    BY <2>2, <2>3, ListsEmpty
<1>3. ASSUME NEW k \in Nat, k \in Good
      PROVE  k + 1 \in Good
  <2> SUFFICES ASSUME k + 1 <= n PROVE Lists(f[k + 1], Upto(k + 1))
    OBVIOUS
  <2> DEFINE o == offset + k * W
             T == PositionsIn(b, k, offset)
             t == WordPositions(b.words[k], o)
             s == f[k]
  <2>1. Lists(s, Upto(k))
    BY <1>3
  <2>2. o \in Nat
    BY BitWordsAssumption
  <2>3. Lists(t, T)
    <3>1. T = {o + x : x \in {i \in Bits : BitAt(i) \in b.words[k]}}
      BY DEF PositionsIn
    <3> HIDE DEF o, T
    <3>2. QED
      BY <2>2, <3>1, WordPositionsLists
  <2>4. f[k + 1] = s \o t
    <3>1. k + 1 \in 1..n /\ (k + 1) - 1 = k
      OBVIOUS
    <3>2. QED
      BY <1>1, <3>1 DEF PositionsRun
  <2>5. Upto(k + 1) = Upto(k) \cup T /\ \A x \in Upto(k), y \in T : x < y
    BY NextWord
  <2> HIDE DEF Upto, T, t, s, o
  <2>6. QED
    BY <2>1, <2>3, <2>4, <2>5, ListsConcat
<1>4. \A k \in Nat : k \in Good
  <2> HIDE DEF Good
  <2>1. QED
    BY <1>2, <1>3, Induction
<1>5. BlockBits(b) = BitsUpto(b, n)
  BY DEF BlockBits, BitsUpto
<1>6. result = f[n] /\ n \in Nat
  BY <1>1 DEF PositionsRun
<1> HIDE DEF n
<1>7. Lists(f[n], Upto(n))
  BY <1>4, <1>6
<1>8. QED
  BY <1>5, <1>6, <1>7 DEF result, PositionsUpto

-----------------------------------------------------------------------------
(* The walk over a vector. *)

\* Block i begins at offset[i - 1], and seq[i] is the walk over the first i
\* blocks.
WalkRun(offset, seq, bv, result) ==
  /\ offset[0] = 0
  /\ \A i \in 1..Len(bv.blocks) : offset[i] = offset[i - 1] + bv.blocks[i].num
  /\ seq[0] = <<>>
  /\ \A i \in 1..Len(bv.blocks) :
       seq[i] = seq[i - 1] \o BlockPositions(bv.blocks[i], offset[i - 1])
  /\ result = seq[Len(bv.blocks)]

\* The recursion of Walk, step by step.
LEMMA WalkSteps ==
  ASSUME NEW bv, Len(bv.blocks) \in Nat, NEW result, result = Walk(bv)
  PROVE  \E offset, seq : WalkRun(offset, seq, bv, result)
<1> DEFINE Valo0(f, i) == IF i = 0 THEN 0
                        ELSE f[i - 1] + bv.blocks[i].num
           Iso0(f, n) == f = [i \in 0..n |-> Valo0(f, i)]
           So0 == {n \in Nat : \E f : Iso0(f, n)}
<1>1. 0 \in So0
  <2>1. Iso0([i \in 0..0 |-> 0], 0)
    OBVIOUS
  <2>2. QED
    BY <2>1
<1>2. ASSUME NEW n \in Nat, n \in So0
      PROVE  n + 1 \in So0
  <2>1. PICK f : Iso0(f, n)
    BY <1>2
  <2> DEFINE g == [i \in 0..(n + 1) |-> Valo0(f, i)]
  <2>2. \A i \in 0..n : g[i] = f[i]
    <3> HIDE DEF Valo0
    <3>1. QED
      BY <2>1
  <2>3. \A i \in 0..(n + 1) : Valo0(g, i) = Valo0(f, i)
    <3> HIDE DEF g
    <3>1. QED
      BY <2>2
  <2>4. Iso0(g, n + 1)
    <3> HIDE DEF Valo0
    <3>1. QED
      BY <2>3
  <2> HIDE DEF Iso0, g
  <2>5. QED
    BY <2>4
<1>3. \A n \in Nat : n \in So0
  <2> HIDE DEF So0
  <2>1. QED
    BY <1>1, <1>2, Induction
<1>4. PICK e : Iso0(e, Len(bv.blocks))
  BY <1>3
<1> DEFINE o0 == CHOOSE o0 : Iso0(o0, Len(bv.blocks))
<1>5. Iso0(o0, Len(bv.blocks))
  BY <1>4, Zenon
<1>7. result = (CHOOSE s : s = [i \in 0..Len(bv.blocks) |-> IF i = 0 THEN <<>> ELSE s[i - 1] \o BlockPositions(bv.blocks[i], o0[i - 1])])[Len(bv.blocks)]
  BY DEF Walk
<1> HIDE DEF o0
<1>8. o0[0] = 0
      /\ \A i \in 1..Len(bv.blocks) : o0[i] = o0[i - 1] + bv.blocks[i].num
  <2>1. \A i \in 0..Len(bv.blocks) : o0[i] = Valo0(o0, i)
    <3> HIDE DEF Valo0
    <3>1. QED
      BY <1>5
  <2>2. Valo0(o0, 0) = 0
        /\ \A i \in 1..Len(bv.blocks) : Valo0(o0, i) = o0[i - 1] + bv.blocks[i].num
    <3>1. \A i \in 1..Len(bv.blocks) : i # 0
      OBVIOUS
    <3>2. QED
      BY <3>1, Zenon
  <2> HIDE DEF Valo0
  <2>3. 0 \in 0..Len(bv.blocks) /\ \A i \in 1..Len(bv.blocks) : i \in 0..Len(bv.blocks)
    OBVIOUS
  <2>4. QED
    BY <2>1, <2>2, <2>3
<1> HIDE DEF Valo0, Iso0, So0
<1> DEFINE Vals0(f, i) == IF i = 0 THEN <<>>
                        ELSE f[i - 1] \o BlockPositions(bv.blocks[i], o0[i - 1])
           Iss0(f, n) == f = [i \in 0..n |-> Vals0(f, i)]
           Ss0 == {n \in Nat : \E f : Iss0(f, n)}
<1>9. 0 \in Ss0
  <2>1. Iss0([i \in 0..0 |-> <<>>], 0)
    OBVIOUS
  <2>2. QED
    BY <2>1
<1>10. ASSUME NEW n \in Nat, n \in Ss0
      PROVE  n + 1 \in Ss0
  <2>1. PICK f : Iss0(f, n)
    BY <1>10
  <2> DEFINE g == [i \in 0..(n + 1) |-> Vals0(f, i)]
  <2>2. \A i \in 0..n : g[i] = f[i]
    <3> HIDE DEF Vals0
    <3>1. QED
      BY <2>1
  <2>3. \A i \in 0..(n + 1) : Vals0(g, i) = Vals0(f, i)
    <3> HIDE DEF g
    <3>1. QED
      BY <2>2
  <2>4. Iss0(g, n + 1)
    <3> HIDE DEF Vals0
    <3>1. QED
      BY <2>3
  <2> HIDE DEF Iss0, g
  <2>5. QED
    BY <2>4
<1>11. \A n \in Nat : n \in Ss0
  <2> HIDE DEF Ss0
  <2>1. QED
    BY <1>9, <1>10, Induction
<1>12. PICK e2 : Iss0(e2, Len(bv.blocks))
  BY <1>11
<1> DEFINE s0 == CHOOSE s0 : Iss0(s0, Len(bv.blocks))
<1>13. Iss0(s0, Len(bv.blocks))
  BY <1>12, Zenon
<1>14. result = s0[Len(bv.blocks)]
  BY <1>7
<1> HIDE DEF s0
<1>15. s0[0] = <<>>
      /\ \A i \in 1..Len(bv.blocks) : s0[i] = s0[i - 1] \o BlockPositions(bv.blocks[i], o0[i - 1])
  <2>1. \A i \in 0..Len(bv.blocks) : s0[i] = Vals0(s0, i)
    <3> HIDE DEF Vals0
    <3>1. QED
      BY <1>13
  <2>2. Vals0(s0, 0) = <<>>
        /\ \A i \in 1..Len(bv.blocks) : Vals0(s0, i) = s0[i - 1] \o BlockPositions(bv.blocks[i], o0[i - 1])
    <3>1. \A i \in 1..Len(bv.blocks) : i # 0
      OBVIOUS
    <3>2. QED
      BY <3>1, Zenon
  <2> HIDE DEF Vals0
  <2>3. 0 \in 0..Len(bv.blocks) /\ \A i \in 1..Len(bv.blocks) : i \in 0..Len(bv.blocks)
    OBVIOUS
  <2>4. QED
    BY <2>1, <2>2, <2>3
<1>16. QED
  BY <1>8, <1>14, <1>15 DEF WalkRun

\* seq[i] are the TIDs of the first i blocks.
TidsRun(seq, bv, result) ==
  /\ seq[0] = <<>>
  /\ \A i \in 1..Len(bv.blocks) : seq[i] = seq[i - 1] \o BlockTids(bv.blocks[i])
  /\ result = seq[Len(bv.blocks)]

\* The recursion of toTids, step by step.
LEMMA TidsSteps ==
  ASSUME NEW bv, Len(bv.blocks) \in Nat, NEW result, result = toTids(bv)
  PROVE  \E seq : TidsRun(seq, bv, result)
<1> DEFINE Vals0(f, i) == IF i = 0 THEN <<>>
                        ELSE f[i - 1] \o BlockTids(bv.blocks[i])
           Iss0(f, n) == f = [i \in 0..n |-> Vals0(f, i)]
           Ss0 == {n \in Nat : \E f : Iss0(f, n)}
<1>1. 0 \in Ss0
  <2>1. Iss0([i \in 0..0 |-> <<>>], 0)
    OBVIOUS
  <2>2. QED
    BY <2>1
<1>2. ASSUME NEW n \in Nat, n \in Ss0
      PROVE  n + 1 \in Ss0
  <2>1. PICK f : Iss0(f, n)
    BY <1>2
  <2> DEFINE g == [i \in 0..(n + 1) |-> Vals0(f, i)]
  <2>2. \A i \in 0..n : g[i] = f[i]
    <3> HIDE DEF Vals0
    <3>1. QED
      BY <2>1
  <2>3. \A i \in 0..(n + 1) : Vals0(g, i) = Vals0(f, i)
    <3> HIDE DEF g
    <3>1. QED
      BY <2>2
  <2>4. Iss0(g, n + 1)
    <3> HIDE DEF Vals0
    <3>1. QED
      BY <2>3
  <2> HIDE DEF Iss0, g
  <2>5. QED
    BY <2>4
<1>3. \A n \in Nat : n \in Ss0
  <2> HIDE DEF Ss0
  <2>1. QED
    BY <1>1, <1>2, Induction
<1>4. PICK e : Iss0(e, Len(bv.blocks))
  BY <1>3
<1> DEFINE s0 == CHOOSE s0 : Iss0(s0, Len(bv.blocks))
<1>5. Iss0(s0, Len(bv.blocks))
  BY <1>4, Zenon
<1>6. result = s0[Len(bv.blocks)]
  BY DEF toTids
<1> HIDE DEF s0
<1>7. s0[0] = <<>>
      /\ \A i \in 1..Len(bv.blocks) : s0[i] = s0[i - 1] \o BlockTids(bv.blocks[i])
  <2>1. \A i \in 0..Len(bv.blocks) : s0[i] = Vals0(s0, i)
    <3> HIDE DEF Vals0
    <3>1. QED
      BY <1>5
  <2>2. Vals0(s0, 0) = <<>>
        /\ \A i \in 1..Len(bv.blocks) : Vals0(s0, i) = s0[i - 1] \o BlockTids(bv.blocks[i])
    <3>1. \A i \in 1..Len(bv.blocks) : i # 0
      OBVIOUS
    <3>2. QED
      BY <3>1, Zenon
  <2> HIDE DEF Vals0
  <2>3. 0 \in 0..Len(bv.blocks) /\ \A i \in 1..Len(bv.blocks) : i \in 0..Len(bv.blocks)
    OBVIOUS
  <2>4. QED
    BY <2>1, <2>2, <2>3
<1>8. QED
  BY <1>6, <1>7 DEF TidsRun


-----------------------------------------------------------------------------
(* The blocks of a vector. *)

\* The lesser of two numbers.
LEMMA LesserOf ==
  ASSUME NEW a \in Int, NEW b \in Int
  PROVE  Min({a, b}) = IF a <= b THEN a ELSE b
<1> DEFINE m == IF a <= b THEN a ELSE b
<1>1. m \in {a, b} /\ \A y \in {a, b} : m <= y
  OBVIOUS
<1>2. \A x \in {a, b} : (\A y \in {a, b} : x <= y) => x = m
  OBVIOUS
<1>3. Min({a, b}) = CHOOSE x \in {a, b} : \A y \in {a, b} : x <= y
  BY DEF Min
<1> HIDE DEF m
<1>4. Min({a, b}) \in {a, b} /\ \A y \in {a, b} : Min({a, b}) <= y
  BY <1>1, <1>3
<1>5. QED
  BY <1>2, <1>4 DEF m

\* All blocks but the last are full, and the last holds what is left.
SizeOK(num, n, i, size) ==
  /\ size \in 1..kNumCodesPerBlock
  /\ i < n => size = kNumCodesPerBlock
  /\ (i - 1) * kNumCodesPerBlock + size <= num
  /\ i = n => (i - 1) * kNumCodesPerBlock + size = num

\* The sizes of the blocks of num bits.
LEMMA SizesOf ==
  ASSUME NEW num \in Nat
  PROVE  /\ Len(BlockSizes(num)) = CEIL(num, kNumCodesPerBlock)
         /\ DOMAIN BlockSizes(num) = 1..CEIL(num, kNumCodesPerBlock)
         /\ \A i \in 1..CEIL(num, kNumCodesPerBlock) :
              SizeOK(num, CEIL(num, kNumCodesPerBlock), i, BlockSizes(num)[i])
<1> DEFINE C == kNumCodesPerBlock
           n == CEIL(num, C)
           f == BlockSizes(num)
<1>0. C \in Nat \ {0} /\ n \in Nat /\ num <= n * C
      /\ (num > 0 => n > 0 /\ (n - 1) * C < num) /\ CEIL(0, C) = 0
  BY BitWordsAssumption, CeilBounds
<1>1. f = [i \in 1..n |-> Min({C, num - (i - 1) * C})]
  BY DEF BlockSizes
<1> HIDE DEF f
<1>2. f = [i \in 1..n |-> f[i]] /\ DOMAIN f = 1..n
      /\ \A i \in 1..n : f[i] = Min({C, num - (i - 1) * C})
  BY <1>1
<1>3. Len(f) = n
  BY <1>0, <1>2, LenOfFunction
<1>4. ASSUME NEW i \in 1..n
      PROVE  SizeOK(num, n, i, f[i])
  <2> DEFINE before == (i - 1) * C
             e == n - i
             rest == e * C
             size == f[i]
  <2>1. n > 0 /\ num > 0
    BY <1>0, <1>4
  <2>2. e \in Nat /\ i \in Nat \ {0} /\ before \in Nat /\ rest \in Nat
    BY <1>0, <1>4
  <2>3. (n - 1) * C = before + rest /\ n * C = before + rest + C
    <3>1. n = i + e
      BY <1>0, <2>2
    <3> HIDE DEF n, e, C
    <3>2. QED
      BY <1>0, <2>2, <3>1
  <2>4. e > 0 => rest >= C
    <3> HIDE DEF e, C
    <3>1. QED
      BY <1>0, <2>2
  <2>5. i < n <=> e > 0
    BY <1>0, <1>4
  <2>6. e = 0 => rest = 0
    BY <1>0
  <2>7. size = Min({C, num - before})
    BY <1>2
  <2> HIDE DEF size, before, rest
  <2>8. size = IF C <= num - before THEN C ELSE num - before
    BY <1>0, <2>2, <2>7, LesserOf
  <2>9. before + rest < num /\ num <= before + rest + C
    BY <1>0, <2>1, <2>3
  <2>10. i = n <=> e = 0
    BY <1>0, <1>4
  <2> HIDE DEF n, C, e
  <2>11. /\ size \in 1..C /\ (i < n => size = C)
         /\ before + size <= num /\ (i = n => before + size = num)
    BY <1>0, <2>2, <2>4, <2>5, <2>6, <2>8, <2>9, <2>10
  <2>12. QED
    BY <2>11 DEF SizeOK, before, size, C
<1>5. QED
  BY <1>2, <1>3, <1>4 DEF f

\* A vector for num tuples: blocks of the sizes they should have.
VectorOK(v, num) ==
  /\ v = [num |-> num, blocks |-> v.blocks]
  /\ v.blocks = [i \in 1..CEIL(num, kNumCodesPerBlock) |-> v.blocks[i]]
  /\ \A i \in 1..CEIL(num, kNumCodesPerBlock) :
       BitsOK(v.blocks[i], BlockSizes(num)[i])

\* The number of its blocks.
LEMMA VectorLen ==
  ASSUME NEW num \in Nat, NEW v, VectorOK(v, num)
  PROVE  /\ Len(v.blocks) = CEIL(num, kNumCodesPerBlock)
         /\ Len(v.blocks) \in Nat
         /\ DOMAIN v.blocks = 1..Len(v.blocks)
         /\ v.num = num
<1>1. CEIL(num, kNumCodesPerBlock) \in Nat
  BY BlocksOf
<1>2. QED
  BY <1>1, LenOfFunction DEF VectorOK

\* A block of a vector, its size and the places that its words have.
LEMMA VectorPart ==
  ASSUME NEW num \in Nat, NEW v, VectorOK(v, num), NEW i \in 1..Len(v.blocks)
  PROVE  /\ BitsOK(v.blocks[i], v.blocks[i].num)
         /\ SizeOK(num, Len(v.blocks), i, v.blocks[i].num)
         /\ v.blocks[i].num = BlockSizes(num)[i]
         /\ v.blocks[i].num \in 0..kNumCodesPerBlock
         /\ NumWords(v.blocks[i].num) \in Nat
         /\ \A p \in BlockBits(v.blocks[i]) : p \in 0..(kNumCodesPerBlock - 1)
<1> DEFINE b == v.blocks[i]
           size == BlockSizes(num)[i]
<1>1. Len(v.blocks) = CEIL(num, kNumCodesPerBlock)
  BY VectorLen
<1>2. BitsOK(b, size) /\ SizeOK(num, Len(v.blocks), i, size)
  BY <1>1, SizesOf DEF VectorOK
<1> HIDE DEF b, size
<1>3. b.num = size
  BY <1>2 DEF BitsOK
<1>4. kNumCodesPerBlock \in Nat /\ size \in 0..kNumCodesPerBlock
  BY <1>2, BitWordsAssumption DEF SizeOK
<1>5. NumWords(size) \in Nat
      /\ NumWords(size) * kNumBitsPerWord \in size..kNumCodesPerBlock
  BY <1>4, WordsOf
<1>6. \A p \in BlockBits(b) : p \in 0..(kNumCodesPerBlock - 1)
  <2> DEFINE y == NumWords(size) * kNumBitsPerWord
  <2>1. \A p \in BlockBits(b) : p \in 0..(y - 1)
    BY <1>3 DEF BlockBits
  <2>2. y \in size..kNumCodesPerBlock
    BY <1>5
  <2> HIDE DEF y
  <2>3. QED
    BY <1>4, <2>1, <2>2
<1>7. QED
  BY <1>2, <1>3, <1>4, <1>5, <1>6 DEF b, size

\* The tuples whose bits are set in block i, and those of the first k blocks.
BitsIn(v, i) == {(i - 1) * kNumCodesPerBlock + p : p \in BlockBits(v.blocks[i])}
BitsBefore(v, k) == UNION {BitsIn(v, i) : i \in 1..k}

\* They are in the places of the block.
LEMMA BitsInBounds ==
  ASSUME NEW num \in Nat, NEW v, VectorOK(v, num), NEW i \in 1..Len(v.blocks),
         NEW x \in BitsIn(v, i)
  PROVE  /\ x \in Nat
         /\ (i - 1) * kNumCodesPerBlock <= x
         /\ x < i * kNumCodesPerBlock
         /\ BlockOf(x) = i
         /\ PlaceOf(x) \in BlockBits(v.blocks[i])
         /\ x = (i - 1) * kNumCodesPerBlock + PlaceOf(x)
<1> DEFINE C == kNumCodesPerBlock
           before == (i - 1) * C
<1>0. C \in Nat \ {0} /\ Len(v.blocks) \in Nat
  BY BitWordsAssumption, VectorLen
<1>1. PICK p \in BlockBits(v.blocks[i]) : x = before + p
  BY DEF BitsIn
<1>2. p \in 0..(C - 1)
  BY VectorPart
<1>3. before \in Nat /\ i * C = before + C /\ i - 1 \in Nat
  BY <1>0
<1>4. x \div C = i - 1 /\ x % C = p
  <2>1. x = (i - 1) * C + p
    BY <1>1
  <2> HIDE DEF before, C
  <2>2. QED
    BY <1>0, <1>2, <1>3, <2>1, DivModUnique
<1> HIDE DEF before
<1>5. x \in Nat /\ before <= x /\ x < i * C
  BY <1>0, <1>1, <1>2, <1>3
<1>6. BlockOf(x) = i /\ PlaceOf(x) = p
  BY <1>0, <1>4 DEF BlockOf, PlaceOf
<1>7. QED
  BY <1>1, <1>5, <1>6 DEF before


-----------------------------------------------------------------------------
(* What the walk over a vector visits. *)

\* The walk of an iterator visits the tuples whose bits are set, in order.
LEMMA WalkLists ==
  ASSUME NEW num \in Nat, NEW v, VectorOK(v, num)
  PROVE  Lists(Walk(v), BitsBefore(v, Len(v.blocks)))
<1> DEFINE result == Walk(v)
           n == Len(v.blocks)
           C == kNumCodesPerBlock
<1>0. n \in Nat /\ C \in Nat \ {0}
  BY VectorLen, BitWordsAssumption
<1>1. PICK o, s : WalkRun(o, s, v, result)
  <2>1. result = Walk(v)
    OBVIOUS
  <2> HIDE DEF result
  <2>2. QED
    BY <1>0, <2>1, WalkSteps
<1> HIDE DEF result, n
<1> DEFINE Good == {k \in Nat : k <= n => /\ k < n => o[k] = k * C
                                          /\ Lists(s[k], BitsBefore(v, k))}
<1>2. 0 \in Good
  <2>1. BitsBefore(v, 0) = {}
    BY DEF BitsBefore
  <2>2. s[0] = <<>> /\ o[0] = 0 /\ 0 = 0 * C
    BY <1>0, <1>1 DEF WalkRun
  <2>3. QED
    BY <2>1, <2>2, ListsEmpty
<1>3. ASSUME NEW k \in Nat, k \in Good
      PROVE  k + 1 \in Good
  <2> SUFFICES ASSUME k + 1 <= n
               PROVE  /\ k + 1 < n => o[k + 1] = (k + 1) * C
                      /\ Lists(s[k + 1], BitsBefore(v, k + 1))
    OBVIOUS
  <2> DEFINE b == v.blocks[k + 1]
             a == o[k]
             t == BlockPositions(b, a)
             T == BitsIn(v, k + 1)
             S == BitsBefore(v, k)
  <2>1. a = k * C /\ Lists(s[k], S) /\ a \in Nat
    BY <1>0, <1>3
  <2>2. k + 1 \in 1..n /\ (k + 1) - 1 = k /\ (k + 1) * C = k * C + C
    BY <1>0
  <2>3. s[k + 1] = s[k] \o t /\ o[k + 1] = a + b.num
    BY <1>1, <2>2 DEF WalkRun, n
  <2>4. NumWords(b.num) \in Nat /\ (k + 1 < n => b.num = C)
    BY <2>2, VectorPart DEF n, SizeOK
  <2>5. T = {a + p : p \in BlockBits(b)}
    BY <2>1, <2>2 DEF BitsIn
  <2>6. Lists(t, T)
    <3> HIDE DEF a, b, T
    <3>1. QED
      BY <2>1, <2>4, <2>5, BlockPositionsList DEF t
  <2>7. BitsBefore(v, k + 1) = S \cup T
    <3>1. \A i \in 1..(k + 1) : i \in 1..k \/ i = k + 1
      OBVIOUS
    <3>2. k + 1 \in 1..(k + 1) /\ \A i \in 1..k : i \in 1..(k + 1)
      OBVIOUS
    <3>3. QED
      BY <3>1, <3>2 DEF BitsBefore
  <2>8. \A x \in S, y \in T : x < y
    <3>1. ASSUME NEW x \in S, NEW y \in T
          PROVE  x < y
      <4>1. PICK i \in 1..k : x \in BitsIn(v, i)
        BY DEF BitsBefore
      <4>2. i \in 1..n
        BY <1>0, <2>2
      <4>3. x \in Nat /\ x < i * C
        BY <4>1, <4>2, BitsInBounds DEF n
      <4>4. y \in Nat /\ k * C <= y
        BY <2>2, BitsInBounds DEF n
      <4>5. i * C <= k * C
        <5> DEFINE e == k - i
                   d == e * C
        <5>1. e \in Nat /\ i \in Nat /\ k = i + e
          OBVIOUS
        <5> HIDE DEF e, C
        <5>2. k * C = i * C + d /\ d \in Nat /\ i * C \in Nat
          BY <1>0, <5>1
        <5> HIDE DEF d
        <5>3. QED
          BY <5>2
      <4>6. i * C \in Nat /\ k * C \in Nat
        BY <1>0
      <4> HIDE DEF C
      <4>7. QED
        BY <4>3, <4>4, <4>5, <4>6
    <3>2. QED
      BY <3>1
  <2> DEFINE sk == s[k]
  <2> HIDE DEF S, T, t, sk
  <2>9. Lists(sk \o t, S \cup T)
    BY <2>1, <2>6, <2>8, ListsConcat DEF sk
  <2>10. Lists(s[k + 1], BitsBefore(v, k + 1))
    BY <2>3, <2>7, <2>9 DEF sk
  <2>11. k + 1 < n => o[k + 1] = (k + 1) * C
    BY <2>1, <2>2, <2>3, <2>4
  <2>12. QED
    BY <2>10, <2>11
<1>4. \A k \in Nat : k \in Good
  <2> HIDE DEF Good
  <2>1. QED
    BY <1>2, <1>3, Induction
<1>5. Lists(s[n], BitsBefore(v, n))
  BY <1>0, <1>4
<1>6. result = s[n]
  BY <1>1 DEF WalkRun, n
<1>7. QED
  BY <1>5, <1>6 DEF result, n

\* No block has a bit past its end when no tuple past the end is visited.
LEMMA NothingPast ==
  ASSUME NEW num \in Nat, NEW v, VectorOK(v, num),
         \A x \in BitsBefore(v, Len(v.blocks)) : x < num
  PROVE  \A i \in 1..Len(v.blocks) : NoBitsPast(v.blocks[i])
<1> DEFINE n == Len(v.blocks)
           C == kNumCodesPerBlock
<1>0. n \in Nat /\ C \in Nat \ {0}
  BY VectorLen, BitWordsAssumption
<1> SUFFICES ASSUME NEW i \in 1..n, NEW p \in BlockBits(v.blocks[i])
             PROVE  p < v.blocks[i].num
  BY DEF NoBitsPast
<1> DEFINE before == (i - 1) * C
           size == v.blocks[i].num
<1>1. SizeOK(num, n, i, size) /\ p \in 0..(C - 1)
  BY VectorPart
<1>2. before + p \in BitsBefore(v, n)
  <2>1. before + p \in BitsIn(v, i)
    BY DEF BitsIn
  <2> HIDE DEF before, n
  <2>2. QED
    BY <2>1 DEF BitsBefore
<1>3. before + p < num
  BY <1>2
<1>4. before \in Nat
  BY <1>0
<1>5. /\ size \in 1..C /\ (i < n => size = C)
      /\ (i = n => before + size = num)
  BY <1>1 DEF SizeOK
<1> HIDE DEF before, size, C, n
<1>6. i < n \/ i = n
  BY <1>0
<1>7. p < size
  BY <1>0, <1>1, <1>3, <1>4, <1>5, <1>6
<1>8. QED
  BY <1>7 DEF size

\* The tuples of a block without bits past its end.
LEMMA BlockSelected ==
  ASSUME NEW b, NumWords(b.num) \in Nat, b.num \in 0..kNumCodesPerBlock,
         NoBitsPast(b)
  PROVE  {p \in 0..(b.num - 1) : BlockGetBit(b, p)} = BlockBits(b)
<1> DEFINE y == NumWords(b.num) * kNumBitsPerWord
           num == b.num
<1>1. y \in num..kNumCodesPerBlock /\ num \in Nat /\ kNumCodesPerBlock \in Nat
  BY WordsOf, BitWordsAssumption
<1>2. BlockBits(b) = {p \in 0..(y - 1) : BlockGetBit(b, p)}
  BY DEF BlockBits
<1>3. \A p \in BlockBits(b) : p < num
  BY DEF NoBitsPast
<1> HIDE DEF y, num
<1>4. \A p \in 0..(num - 1) : p \in 0..(y - 1)
  BY <1>1
<1>5. \A p \in 0..(y - 1) : p < num => p \in 0..(num - 1)
  BY <1>1
<1>6. {p \in 0..(num - 1) : BlockGetBit(b, p)} = BlockBits(b)
  BY <1>2, <1>3, <1>4, <1>5
<1>7. QED
  BY <1>6 DEF num

\* The tuples that a vector stands for are those the walk visits.
LEMMA SelectedOf ==
  ASSUME NEW num \in Nat, NEW v, VectorOK(v, num),
         \A i \in 1..Len(v.blocks) : NoBitsPast(v.blocks[i])
  PROVE  Selected(v) = BitsBefore(v, Len(v.blocks))
<1> DEFINE n == Len(v.blocks)
<1>1. DOMAIN v.blocks = 1..n
  BY VectorLen
<1>2. ASSUME NEW i \in 1..n
      PROVE  {(i - 1) * kNumCodesPerBlock + p :
                p \in {p \in 0..(v.blocks[i].num - 1) :
                         BlockGetBit(v.blocks[i], p)}} = BitsIn(v, i)
  <2> DEFINE b == v.blocks[i]
             A == {p \in 0..(b.num - 1) : BlockGetBit(b, p)}
  <2>1. NumWords(b.num) \in Nat /\ b.num \in 0..kNumCodesPerBlock /\ NoBitsPast(b)
    BY VectorPart
  <2>2. A = BlockBits(b)
    <3> HIDE DEF b
    <3>1. QED
      BY <2>1, BlockSelected
  <2> HIDE DEF A
  <2>3. {(i - 1) * kNumCodesPerBlock + p : p \in A} = BitsIn(v, i)
    BY <2>2 DEF BitsIn
  <2>4. QED
    BY <2>3 DEF A
<1>3. Selected(v) = UNION {BitsIn(v, i) : i \in 1..n}
  <2>1. Selected(v) = UNION {{(i - 1) * kNumCodesPerBlock + p :
            p \in {p \in 0..(v.blocks[i].num - 1) :
                     BlockGetBit(v.blocks[i], p)}} : i \in 1..n}
    BY <1>1 DEF Selected
  <2>2. QED
    BY <1>2, <2>1
<1>4. QED
  BY <1>3 DEF BitsBefore


\* The places of tuples are as many as the tuples.
LEMMA PlacesSeq ==
  ASSUME NEW s \in Seq(Nat)
  PROVE  /\ PlacesOf(s) \in Seq(Nat)
         /\ Len(PlacesOf(s)) = Len(s)
         /\ \A i \in 1..Len(s) : PlacesOf(s)[i] = PlaceOf(s[i])
<1> DEFINE n == Len(s)
           t == PlacesOf(s)
<1>1. n \in Nat /\ DOMAIN s = 1..n /\ \A i \in 1..n : s[i] \in Nat
  BY LenProperties, ElementOfSeq
<1>2. \A i \in 1..n : PlaceOf(s[i]) \in Nat
  <2> SUFFICES ASSUME NEW i \in 1..n PROVE PlaceOf(s[i]) \in Nat
    OBVIOUS
  <2> DEFINE x == s[i]
  <2>1. x \in Nat
    BY <1>1
  <2> HIDE DEF x
  <2>2. PlaceOf(x) \in Nat
    BY <2>1, DivMod, BitWordsAssumption DEF PlaceOf
  <2>3. QED
    BY <2>2 DEF x
<1>3. t = [i \in 1..n |-> PlaceOf(s[i])]
  BY <1>1 DEF PlacesOf
<1> HIDE DEF t, n
<1>4. t = [i \in 1..n |-> t[i]] /\ \A i \in 1..n : t[i] = PlaceOf(s[i])
  BY <1>3
<1>5. Len(t) = n
  BY <1>1, <1>4, LenOfFunction
<1>6. t \in Seq(Nat)
  <2>1. t \in [1..n -> Nat]
    BY <1>2, <1>3
  <2>2. QED
    BY <1>1, <2>1
<1>7. QED
  BY <1>4, <1>5, <1>6 DEF t, n

\* Those of two sequences of tuples, one after the other.
LEMMA PlacesConcat ==
  ASSUME NEW s \in Seq(Nat), NEW t \in Seq(Nat)
  PROVE  PlacesOf(s \o t) = PlacesOf(s) \o PlacesOf(t)
<1> DEFINE m == Len(s)
           n == Len(t)
           u == PlacesOf(s \o t)
           w == PlacesOf(s) \o PlacesOf(t)
           a == PlacesOf(s)
           b == PlacesOf(t)
           st == s \o t
<1>1. m \in Nat /\ n \in Nat
  BY LenProperties
<1>2. st \in Seq(Nat) /\ Len(st) = m + n
      /\ \A i \in 1..(m + n) : st[i] = IF i <= m THEN s[i] ELSE t[i - m]
  BY ConcatProperties
<1>3. /\ a \in Seq(Nat) /\ Len(a) = m /\ \A i \in 1..m : a[i] = PlaceOf(s[i])
      /\ b \in Seq(Nat) /\ Len(b) = n /\ \A i \in 1..n : b[i] = PlaceOf(t[i])
  BY PlacesSeq
<1>4. u \in Seq(Nat) /\ Len(u) = m + n
      /\ \A i \in 1..(m + n) : u[i] = PlaceOf(st[i])
  <2> HIDE DEF st
  <2>1. PlacesOf(st) \in Seq(Nat) /\ Len(PlacesOf(st)) = Len(st)
        /\ \A i \in 1..Len(st) : PlacesOf(st)[i] = PlaceOf(st[i])
    BY <1>2, PlacesSeq
  <2>2. QED
    BY <1>2, <2>1 DEF st
<1> HIDE DEF a, b, m, n
<1>5. w \in Seq(Nat) /\ Len(w) = m + n
      /\ \A i \in 1..(m + n) : w[i] = IF i <= m THEN a[i] ELSE b[i - m]
  <2>1. a \o b \in Seq(Nat) /\ Len(a \o b) = m + n
        /\ \A i \in 1..(m + n) : (a \o b)[i] = IF i <= m THEN a[i] ELSE b[i - m]
    BY <1>3, ConcatProperties
  <2>2. QED
    BY <2>1 DEF a, b
<1> HIDE DEF st, u, w
<1>6. \A i \in 1..(m + n) : u[i] = w[i]
  <2> SUFFICES ASSUME NEW i \in 1..(m + n) PROVE u[i] = w[i]
    OBVIOUS
  <2>1. /\ u[i] = PlaceOf(st[i])
        /\ st[i] = IF i <= m THEN s[i] ELSE t[i - m]
        /\ w[i] = IF i <= m THEN a[i] ELSE b[i - m]
    BY <1>2, <1>4, <1>5
  <2>2. /\ i <= m => i \in 1..m
        /\ ~(i <= m) => i - m \in 1..n
    BY <1>1
  <2>3. /\ i \in 1..m => a[i] = PlaceOf(s[i])
        /\ i - m \in 1..n => b[i - m] = PlaceOf(t[i - m])
    BY <1>3
  <2>4. CASE i <= m
    BY <2>1, <2>2, <2>3, <2>4
  <2>5. CASE ~(i <= m)
    BY <2>1, <2>2, <2>3, <2>5
  <2>6. QED
    BY <2>4, <2>5
<1>7. u = w
  BY <1>4, <1>5, <1>6, SeqEqual
<1>8. QED
  BY <1>7 DEF u, w

\* What toTids lists of a block are the places of what the walk visits there.
LEMMA BlockPlaces ==
  ASSUME NEW b, NumWords(b.num) \in Nat, b.num \in 0..kNumCodesPerBlock,
         NoBitsPast(b), NEW k \in Nat
  PROVE  BlockTids(b) = PlacesOf(BlockPositions(b, k * kNumCodesPerBlock))
<1> DEFINE C == kNumCodesPerBlock
           o == k * C
           S == BlockBits(b)
           s == BlockTids(b)
           t == BlockPositions(b, o)
<1>0. C \in Nat \ {0} /\ o \in Nat /\ b.num \in Nat
  BY BitWordsAssumption
<1>1. Lists(s, S)
  <2> DEFINE A == {p \in 0..(b.num - 1) : BlockGetBit(b, p)}
  <2>1. A = S
    BY BlockSelected
  <2>2. A \cap 0..(b.num - 1) = A
    OBVIOUS
  <2>3. s = Ascending(A, b.num)
    BY DEF BlockTids
  <2> HIDE DEF A, S, s
  <2>4. Lists(Ascending(A, b.num), A \cap 0..(b.num - 1))
    BY <1>0, AscendingLists
  <2>5. QED
    BY <2>1, <2>2, <2>3, <2>4
<1>2. Lists(t, {o + p : p \in S})
  <2> HIDE DEF o
  <2>1. QED
    BY <1>0, BlockPositionsList
<1>3. \A p \in S : p \in 0..(C - 1)
  <2>1. \A p \in S : p \in Nat /\ p < b.num
    BY <1>0 DEF NoBitsPast, BlockBits
  <2> HIDE DEF S
  <2>2. QED
    BY <1>0, <2>1
<1> DEFINE r == [i \in DOMAIN s |-> o + s[i]]
<1> HIDE DEF S, s, t
<1>4. Lists(r, {o + p : p \in S})
  <2> HIDE DEF o
  <2>1. QED
    BY <1>0, <1>1, ListsShift
<1>5. t = r
  <2> HIDE DEF r
  <2>1. QED
    BY <1>2, <1>4, ListsUnique
<1>6. s \in Seq(Nat) /\ Len(s) \in Nat /\ DOMAIN s = 1..Len(s)
      /\ \A i \in 1..Len(s) : s[i] \in S
  BY <1>1, LenProperties DEF Lists
<1>7. \A i \in 1..Len(s) : PlaceOf(o + s[i]) = s[i]
  <2> SUFFICES ASSUME NEW i \in 1..Len(s) PROVE PlaceOf(o + s[i]) = s[i]
    OBVIOUS
  <2> DEFINE x == s[i]
  <2>1. x \in 0..(C - 1)
    BY <1>3, <1>6
  <2> HIDE DEF x, C
  <2>2. (o + x) % C = x
    BY <1>0, <2>1, DivModUnique
  <2>3. QED
    BY <2>2 DEF PlaceOf, x, C
<1>8. PlacesOf(r) = [i \in 1..Len(s) |-> s[i]]
  <2>1. DOMAIN r = 1..Len(s) /\ \A i \in 1..Len(s) : r[i] = o + s[i]
    BY <1>6
  <2> HIDE DEF r
  <2>2. QED
    BY <1>7, <2>1 DEF PlacesOf
<1>9. s = [i \in 1..Len(s) |-> s[i]]
  BY <1>6
<1>10. QED
  BY <1>5, <1>8, <1>9 DEF s, t

\* toTids lists the places of what the walk visits.
LEMMA TidsOf ==
  ASSUME NEW num \in Nat, NEW v, VectorOK(v, num),
         \A i \in 1..Len(v.blocks) : NoBitsPast(v.blocks[i])
  PROVE  toTids(v) = PlacesOf(Walk(v))
<1> DEFINE result == Walk(v)
           tids == toTids(v)
           n == Len(v.blocks)
           C == kNumCodesPerBlock
<1>0. n \in Nat /\ C \in Nat \ {0}
  BY VectorLen, BitWordsAssumption
<1>1. PICK o, s : WalkRun(o, s, v, result)
  <2>1. result = Walk(v)
    OBVIOUS
  <2> HIDE DEF result
  <2>2. QED
    BY <1>0, <2>1, WalkSteps
<1>2. PICK f : TidsRun(f, v, tids)
  <2>1. tids = toTids(v)
    OBVIOUS
  <2> HIDE DEF tids
  <2>2. QED
    BY <1>0, <2>1, TidsSteps
<1> HIDE DEF result, tids, n
<1> DEFINE Good == {k \in Nat : k <= n => /\ k < n => o[k] = k * C
                                          /\ s[k] \in Seq(Nat)
                                          /\ f[k] = PlacesOf(s[k])}
<1>3. 0 \in Good
  <2>1. s[0] = <<>> /\ o[0] = 0 /\ 0 = 0 * C /\ f[0] = <<>>
    BY <1>0, <1>1, <1>2 DEF WalkRun, TidsRun
  <2>2. PlacesOf(<<>>) = <<>> /\ <<>> \in Seq(Nat)
    BY DEF PlacesOf
  <2>3. QED
    BY <2>1, <2>2
<1>4. ASSUME NEW k \in Nat, k \in Good
      PROVE  k + 1 \in Good
  <2> SUFFICES ASSUME k + 1 <= n
               PROVE  /\ k + 1 < n => o[k + 1] = (k + 1) * C
                      /\ s[k + 1] \in Seq(Nat)
                      /\ f[k + 1] = PlacesOf(s[k + 1])
    OBVIOUS
  <2> DEFINE b == v.blocks[k + 1]
             a == o[k]
             t == BlockPositions(b, a)
             sk == s[k]
  <2>1. a = k * C /\ sk \in Seq(Nat) /\ f[k] = PlacesOf(sk) /\ a \in Nat
    BY <1>0, <1>4
  <2>2. k + 1 \in 1..n /\ (k + 1) - 1 = k /\ (k + 1) * C = k * C + C
    BY <1>0
  <2>3. /\ s[k + 1] = sk \o t /\ o[k + 1] = a + b.num
        /\ f[k + 1] = f[k] \o BlockTids(b)
    BY <1>1, <1>2, <2>2 DEF WalkRun, TidsRun, n
  <2>4. /\ NumWords(b.num) \in Nat /\ (k + 1 < n => b.num = C)
        /\ b.num \in 0..kNumCodesPerBlock /\ NoBitsPast(b)
    BY <2>2, VectorPart DEF n, SizeOK
  <2>5. BlockTids(b) = PlacesOf(t)
    <3> HIDE DEF a, b
    <3>1. QED
      BY <2>1, <2>4, BlockPlaces
  <2>6. t \in Seq(Nat)
    <3> HIDE DEF a, b, t
    <3>1. QED
      BY <2>1, <2>4, BlockPositionsList DEF Lists, t
  <2> HIDE DEF sk, t
  <2>7. PlacesOf(sk \o t) = PlacesOf(sk) \o PlacesOf(t) /\ sk \o t \in Seq(Nat)
    BY <2>1, <2>6, PlacesConcat, ConcatProperties
  <2>8. s[k + 1] \in Seq(Nat) /\ f[k + 1] = PlacesOf(s[k + 1])
    BY <2>1, <2>3, <2>5, <2>7
  <2>9. k + 1 < n => o[k + 1] = (k + 1) * C
    BY <2>1, <2>2, <2>3, <2>4
  <2>10. QED
    BY <2>8, <2>9
<1>5. \A k \in Nat : k \in Good
  <2> HIDE DEF Good
  <2>1. QED
    BY <1>3, <1>4, Induction
<1>6. f[n] = PlacesOf(s[n])
  BY <1>0, <1>5
<1>7. result = s[n] /\ tids = f[n]
  BY <1>1, <1>2 DEF WalkRun, TidsRun, n
<1>8. QED
  BY <1>6, <1>7 DEF result, tids

\* What WalkVisitsTheSelection says of a vector.
LEMMA WalkOfVector ==
  ASSUME NEW num \in Nat, NEW v, VectorOK(v, num),
         \A i \in 1..Len(v.blocks) : NoBitsPast(v.blocks[i]),
         NEW walk, walk = Walk(v)
  PROVE  /\ Range(walk) = Selected(v)
         /\ \A i \in 1..(Len(walk) - 1) : walk[i] < walk[i + 1]
         /\ toTids(v) = [i \in DOMAIN walk |-> PlaceOf(walk[i])]
<1> DEFINE S == Selected(v)
<1>1. Lists(walk, S)
  BY WalkLists, SelectedOf
<1>2. walk \in Seq(Nat) /\ Len(walk) \in Nat /\ DOMAIN walk = 1..Len(walk)
  BY <1>1, LenProperties DEF Lists
<1> HIDE DEF S
<1>3. Range(walk) = S
  BY <1>1, <1>2 DEF Lists, Range
<1>4. \A i \in 1..(Len(walk) - 1) : walk[i] < walk[i + 1]
  <2>1. \A i \in 1..(Len(walk) - 1) : i \in 1..Len(walk) /\ i + 1 \in 1..Len(walk) /\ i < i + 1
    BY <1>2
  <2>2. QED
    BY <1>1, <2>1 DEF Lists
<1>5. toTids(v) = PlacesOf(walk)
  BY TidsOf
<1>6. QED
  BY <1>3, <1>4, <1>5 DEF S, PlacesOf


-----------------------------------------------------------------------------
(* What the operations of a block of a vector keep. *)

\* Words for num bits.
WordsFor(num, ws) == ws = [w \in 0..(NumWords(num) - 1) |-> ws[w]]

\* Words can be replaced by as many.
LEMMA WithWords ==
  ASSUME NEW num, NEW b, BitsOK(b, num), NEW ws, WordsFor(num, ws)
  PROVE  /\ BitsOK([b EXCEPT !.words = ws], num)
         /\ [b EXCEPT !.words = ws].words = ws
         /\ [b EXCEPT !.words = ws].num = num
<1> DEFINE d == [b EXCEPT !.words = ws]
<1>1. d = [num |-> num, words |-> ws]
  BY DEF BitsOK
<1> HIDE DEF d
<1>2. d.words = ws /\ d.num = num
  BY <1>1
<1>3. BitsOK(d, num)
  BY <1>1, <1>2 DEF BitsOK, WordsFor
<1>4. QED
  BY <1>2, <1>3 DEF d

\* The number of words and where the last one ends.
LEMMA LastWord ==
  ASSUME NEW num \in Nat, num % kNumBitsPerWord # 0
  PROVE  NumWords(num) = WordAt(num) + 1 /\ WordAt(num) \in Nat
<1> DEFINE W == kNumBitsPerWord
           q == num \div W
           r == num % W
           n == NumWords(num)
<1>0. W \in Nat \ {0}
  BY BitWordsAssumption
<1>1. q \in Nat /\ r \in 0..(W - 1) /\ num = W * q + r /\ r # 0
  BY <1>0, DivMod
<1>2. (num + W - 1) \div W = q + 1
  <2> DEFINE e == r - 1
  <2>1. e \in 0..(W - 1) /\ num + W - 1 = (q + 1) * W + e /\ q + 1 \in Nat
    <3>1. (q + 1) * W = W * q + W
      BY <1>0, <1>1
    <3> HIDE DEF q, r
    <3>2. QED
      BY <1>0, <1>1, <3>1
  <2> HIDE DEF e, W, q
  <2>2. ((q + 1) * W + e) \div W = q + 1
    BY <1>0, <1>1, <2>1, DivModUnique
  <2>3. QED
    BY <2>1, <2>2
<1>3. n = q + 1
  BY <1>2 DEF NumWords, CEIL
<1>4. QED
  BY <1>1, <1>3 DEF WordAt

\* Finalize leaves no bit past the end.
LEMMA FinalizeOK ==
  ASSUME NEW num \in 0..kNumCodesPerBlock, NEW b, BitsOK(b, num)
  PROVE  /\ BitsOK(Finalize(b), num)
         /\ NoBitsPast(Finalize(b))
<1> DEFINE W == kNumBitsPerWord
           r == num % W
           n == NumWords(num)
           e == Finalize(b)
<1>0. W \in Nat \ {0} /\ b.num = num /\ num \in Nat /\ r \in 0..(W - 1) /\ n \in Nat
  BY BitWordsAssumption, DivMod, WordsOf DEF BitsOK
<1>1. CASE r = 0
  <2>1. e = b
    BY <1>0, <1>1 DEF Finalize
  <2>2. \A p \in BlockBits(b) : p < num
    <3> DEFINE y == n * W
    <3>1. \A p \in BlockBits(b) : p \in 0..(y - 1)
      BY <1>0 DEF BlockBits
    <3>2. y = num
      <4> DEFINE q == num \div W
      <4>1. q \in Nat /\ num = W * q + r
        BY <1>0, DivMod
      <4>2. num + W - 1 = q * W + (W - 1) /\ W - 1 \in 0..(W - 1) /\ q * W = num
        BY <1>0, <1>1, <4>1
      <4> HIDE DEF q, W
      <4>3. (q * W + (W - 1)) \div W = q
        BY <1>0, <4>1, <4>2, DivModUnique
      <4>4. n = q
        BY <4>2, <4>3 DEF NumWords, CEIL, W
      <4>5. QED
        BY <4>2, <4>4
    <3> HIDE DEF y
    <3>3. QED
      BY <1>0, <3>1, <3>2
  <2>3. QED
    BY <1>0, <2>1, <2>2 DEF NoBitsPast
<1>2. CASE r # 0
  <2> DEFINE k == WordAt(num)
             new == {x \in b.words[k] : x >= W - r}
             ws == [b.words EXCEPT ![k] = new]
  <2>1. e = [b EXCEPT !.words = ws]
    BY <1>0, <1>2 DEF Finalize
  <2>2. n = k + 1 /\ k \in Nat
    BY <1>0, <1>2, LastWord
  <2>3. b.words = [w \in 0..(n - 1) |-> b.words[w]]
    BY DEF BitsOK
  <2> HIDE DEF n, new
  <2>4. ws = [w \in 0..(n - 1) |-> ws[w]] /\ ws[k] = new
    <3> DEFINE old == b.words
    <3>1. k \in 0..(n - 1) /\ old = [w \in 0..(n - 1) |-> old[w]]
      BY <1>0, <2>2, <2>3
    <3> HIDE DEF old, k
    <3>2. [old EXCEPT ![k] = new] = [w \in 0..(n - 1) |-> [old EXCEPT ![k] = new][w]]
          /\ [old EXCEPT ![k] = new][k] = new
      BY <3>1
    <3>3. QED
      BY <3>2 DEF old
  <2> HIDE DEF ws, e, k
  <2>5. BitsOK(e, num) /\ e.words = ws /\ e.num = num
    <3>1. WordsFor(num, ws)
      BY <2>4 DEF WordsFor, n
    <3>2. QED
      BY <2>1, <3>1, WithWords
  <2>6. ASSUME NEW p \in BlockBits(e)
        PROVE  p < num
    <3> DEFINE y == n * W
               w == WordAt(p)
               z == w * W
               s == p % W
               u == k * W
    <3>1. p \in 0..(y - 1) /\ BlockGetBit(e, p) /\ y \in Nat
      BY <1>0, <2>5 DEF BlockBits, n
    <3>2. p \in Nat /\ w \in Nat /\ s \in 0..(W - 1) /\ p = z + s
      <4>1. p \in Nat
        BY <3>1
      <4>2. QED
        BY <4>1, PlaceInWord DEF Bits
    <3>3. num = u + r
      <4>1. num = k * W + r
        BY <1>0, PlaceInWord DEF k
      <4>2. QED
        BY <4>1
    <3>4. z \in Nat /\ u \in Nat /\ y = u + W
      <4> HIDE DEF W, w
      <4>1. QED
        BY <1>0, <2>2, <3>2
    <3>5. CASE w < k
      <4> DEFINE d == k - w - 1
                 x == d * W
      <4>1. d \in Nat /\ k = w + d + 1
        BY <2>2, <3>2, <3>5
      <4> HIDE DEF d, W, w
      <4>2. u = z + x + W /\ x \in Nat
        BY <1>0, <3>2, <4>1
      <4> HIDE DEF x, u, z, s, y
      <4>3. QED
        BY <1>0, <3>2, <3>3, <3>4, <4>2
    <3>6. CASE w = k
      <4>1. BitAt(p) \in ws[k]
        BY <2>5, <3>1, <3>6 DEF BlockGetBit
      <4>2. W - 1 - s >= W - r
        BY <2>4, <4>1 DEF BitAt, new
      <4>3. z = u
        BY <3>6
      <4> HIDE DEF z, u, s, w
      <4>4. QED
        BY <1>0, <3>2, <3>3, <3>4, <4>2, <4>3
    <3>7. CASE w > k
      <4> DEFINE d == w - k - 1
                 x == d * W
      <4>1. d \in Nat /\ w = k + d + 1
        BY <2>2, <3>2, <3>7
      <4> HIDE DEF d, W, w
      <4>2. z = u + x + W /\ x \in Nat
        BY <1>0, <2>2, <4>1
      <4> HIDE DEF x, u, z, s, y
      <4>3. QED
        BY <1>0, <3>1, <3>2, <3>4, <4>2
    <3>8. w < k \/ w = k \/ w > k
      BY <2>2, <3>2
    <3>9. QED
      BY <3>5, <3>6, <3>7, <3>8
  <2>7. QED
    BY <2>5, <2>6 DEF NoBitsPast, e
<1>3. QED
  BY <1>1, <1>2

\* e is what an operation makes of block b, with no bits past the end that were
\* not there before.
Keeps(e, b) ==
  /\ BitsOK(e, b.num)
  /\ NoBitsPast(b) => NoBitsPast(e)

\* A block that is filled has no bits past its end.
LEMMA FilledOK ==
  ASSUME NEW num \in 0..kNumCodesPerBlock, NEW word
  PROVE  /\ BitsOK(FilledBlock(num, word), num)
         /\ NoBitsPast(FilledBlock(num, word))
<1> DEFINE b == [num |-> num,
                 words |-> [i \in 0..(NumWords(num) - 1) |-> word]]
<1>1. BitsOK(b, num)
  BY DEF BitsOK
<1>2. FilledBlock(num, word) = Finalize(b)
  BY DEF FilledBlock
<1> HIDE DEF b
<1>3. QED
  BY <1>1, <1>2, FinalizeOK

\* A block whose words are replaced, and finalized.
LEMMA FinalizedOK ==
  ASSUME NEW num \in 0..kNumCodesPerBlock, NEW b, BitsOK(b, num),
         NEW ws, ws = [w \in DOMAIN b.words |-> ws[w]],
         NEW e, e = Finalize([b EXCEPT !.words = ws])
  PROVE  BitsOK(e, num) /\ NoBitsPast(e) /\ Keeps(e, b)
<1> DEFINE d == [b EXCEPT !.words = ws]
<1>1. DOMAIN b.words = 0..(NumWords(num) - 1) /\ b.num = num
  BY DEF BitsOK
<1>2. BitsOK(d, num)
  <2>1. WordsFor(num, ws)
    BY <1>1 DEF WordsFor
  <2>2. QED
    BY <2>1, WithWords
<1>3. e = Finalize(d)
  OBVIOUS
<1> HIDE DEF d
<1>4. BitsOK(e, num) /\ NoBitsPast(e)
  BY <1>2, <1>3, FinalizeOK
<1>5. QED
  BY <1>1, <1>4 DEF Keeps

\* Complement keeps the end of a block clean.
LEMMA ComplementOK ==
  ASSUME NEW num \in 0..kNumCodesPerBlock, NEW b, BitsOK(b, num)
  PROVE  Keeps(BlockComplement(b), b)
<1> DEFINE ws == [w \in DOMAIN b.words |-> NOT(b.words[w])]
<1>1. BlockComplement(b) = Finalize([b EXCEPT !.words = ws])
  BY DEF BlockComplement
<1>2. ws = [w \in DOMAIN b.words |-> ws[w]]
  OBVIOUS
<1> HIDE DEF ws
<1>3. QED
  BY <1>1, <1>2, FinalizedOK

\* And and Or keep the end of a block clean.
LEMMA BlockOpOK ==
  ASSUME NEW num \in 0..kNumCodesPerBlock, NEW b, BitsOK(b, num), NEW opt,
         NEW other
  PROVE  Keeps(BlockOp(opt, b, other), b)
<1> DEFINE ws == [w \in DOMAIN b.words |-> Combine(opt, b.words[w], other.words[w])]
<1>0. b.num = num
  BY DEF BitsOK
<1>1. CASE other.num # b.num
  <2>1. BlockOp(opt, b, other) = b
    BY <1>1 DEF BlockOp
  <2>2. QED
    BY <1>0, <2>1 DEF Keeps
<1>2. CASE other.num = b.num
  <2>1. BlockOp(opt, b, other) = Finalize([b EXCEPT !.words = ws])
    BY <1>2 DEF BlockOp
  <2>2. ws = [w \in DOMAIN b.words |-> ws[w]]
    OBVIOUS
  <2> HIDE DEF ws
  <2>3. QED
    BY <2>1, <2>2, FinalizedOK
<1>3. QED
  BY <1>1, <1>2

\* Setting a bit of a tuple.
LEMMA SetBitOK ==
  ASSUME NEW num \in 0..kNumCodesPerBlock, NEW b, BitsOK(b, num),
         NEW pos \in Nat, pos < num, NEW bit
  PROVE  Keeps(BlockSetBit(b, pos, bit), b)
<1> DEFINE k == WordAt(pos)
           x == BitAt(pos)
           new == (b.words[k] \ {x}) \cup (IF bit THEN {x} ELSE {})
           ws == [b.words EXCEPT ![k] = new]
           n == NumWords(num)
           e == BlockSetBit(b, pos, bit)
<1>1. e = [b EXCEPT !.words = ws]
  BY DEF BlockSetBit
<1>2. b.words = [w \in 0..(n - 1) |-> b.words[w]] /\ b.num = num
  BY DEF BitsOK
<1> HIDE DEF n, new
<1>3. ws = [w \in 0..(n - 1) |-> ws[w]]
      /\ \A w \in 0..(n - 1) : ws[w] = IF w = k THEN new ELSE b.words[w]
  BY <1>2
<1> HIDE DEF ws, e, k
<1>4. BitsOK(e, num) /\ e.words = ws /\ e.num = num
  <2>1. WordsFor(num, ws)
    BY <1>3 DEF WordsFor, n
  <2>2. QED
    BY <1>1, <2>1, WithWords
<1>5. ASSUME NoBitsPast(b), NEW p \in BlockBits(e)
      PROVE  p < num
  <2>0. kNumBitsPerWord \in Nat \ {0} /\ n \in Nat
    BY BitWordsAssumption, WordsOf DEF n
  <2>1. p \in 0..(n * kNumBitsPerWord - 1) /\ BitAt(p) \in ws[WordAt(p)]
    BY <1>4 DEF BlockBits, BlockGetBit, n
  <2>2. p \in Nat /\ p < n * kNumBitsPerWord
    BY <2>0, <2>1
  <2>3. WordAt(p) \in Nat /\ WordAt(p) < n
    BY <2>0, <2>2, DivLess, PlaceInWord DEF WordAt
  <2>4. WordAt(p) \in 0..(n - 1)
    BY <2>0, <2>3
  <2>5. BitAt(p) \in b.words[WordAt(p)] \/ (WordAt(p) = k /\ BitAt(p) = x)
    BY <1>3, <2>1, <2>4 DEF new
  <2>6. CASE BitAt(p) \in b.words[WordAt(p)]
    <3>1. p \in BlockBits(b)
      BY <1>2, <2>1, <2>6 DEF BlockBits, BlockGetBit, n
    <3>2. QED
      BY <1>2, <1>5, <3>1 DEF NoBitsPast
  <2>7. CASE WordAt(p) = k /\ BitAt(p) = x
    <3> DEFINE i == p % kNumBitsPerWord
               j == pos % kNumBitsPerWord
    <3>1. i \in Bits /\ j \in Bits
      BY <2>2, PlaceInWord
    <3>2. kNumBitsPerWord - 1 - i = kNumBitsPerWord - 1 - j
      BY <2>7 DEF BitAt
    <3> HIDE DEF i, j
    <3>3. i = j
      BY <2>0, <3>1, <3>2 DEF Bits
    <3>4. p = pos
      <4>1. p \div kNumBitsPerWord = pos \div kNumBitsPerWord
        BY <2>7 DEF WordAt, k
      <4>2. QED
        BY <2>0, <2>2, <3>3, <4>1, DivModEqual DEF i, j
    <3>5. QED
      BY <3>4
  <2>8. QED
    BY <2>5, <2>6, <2>7
<1>6. NoBitsPast(b) => NoBitsPast(e)
  BY <1>4, <1>5 DEF NoBitsPast
<1>7. QED
  BY <1>2, <1>4, <1>6 DEF Keeps, e


-----------------------------------------------------------------------------
(* What the scans of a block keep. *)

\* A turn of the loop of a BitWeaving/H scan.
HGathered(size, matches, s) ==
  UNION {SHR(matches[s * HWordsPerSegment(size) + w], w) :
           w \in 0..(HWordsPerSegment(size) - 1)}
HWrite(opt, m, out) == [m.words EXCEPT ![m.word] = Combine(opt, @, out)]
HTurn(size, opt, matches, m, s) ==
  LET out == m.output \cup SHR(SHL(HGathered(size, matches, s), HEmptyBits(size)),
                               m.offset)
      offset == m.offset + HCodesPerSegment(size)
      left == offset - kNumBitsPerWord
  IN  IF left < 0 THEN [m EXCEPT !.output = out, !.offset = offset]
      ELSE [words |-> HWrite(opt, m, out), word |-> m.word + 1, offset |-> left,
            output |-> SHL(HGathered(size, matches, s), kNumBitsPerWord - left)]

\* after[s] is what there is after s segments.
HRun(after, block, words, opt, matches) ==
  /\ after[0] = [words |-> words, word |-> 0, offset |-> 0, output |-> {}]
  /\ \A i \in 1..HSegments(block.num, block.size) :
       after[i] = HTurn(block.size, opt, matches, after[i - 1], i - 1)
HEnd(block, opt, last) ==
  IF last.offset > HSegments(block.num, block.size) * HCodesPerSegment(block.size)
                     - block.num
  THEN HWrite(opt, last, last.output) ELSE last.words

\* The loop, step by step.
LEMMA HScanSteps ==
  ASSUME NEW block, NEW bv, NEW opt, NEW matches,
         HSegments(block.num, block.size) \in Nat,
         NEW result, result = HScanWords(block, bv, opt, matches)
  PROVE  \E after :
           /\ HRun(after, block, bv.words, opt, matches)
           /\ result = Finalize([bv EXCEPT !.words =
                HEnd(block, opt, after[HSegments(block.num, block.size)])])
<1> DEFINE Step(m, s) == HTurn(block.size, opt, matches, m, s)
<1> HIDE DEF Step
<1> DEFINE Valafter(f, i) == IF i = 0 THEN [words |-> bv.words, word |-> 0, offset |-> 0, output |-> {}]
                        ELSE Step(f[i - 1], i - 1)
           Isafter(f, n) == f = [i \in 0..n |-> Valafter(f, i)]
           Safter == {n \in Nat : \E f : Isafter(f, n)}
<1>1. 0 \in Safter
  <2>1. Isafter([i \in 0..0 |-> [words |-> bv.words, word |-> 0, offset |-> 0, output |-> {}]], 0)
    OBVIOUS
  <2>2. QED
    BY <2>1
<1>2. ASSUME NEW n \in Nat, n \in Safter
      PROVE  n + 1 \in Safter
  <2>1. PICK f : Isafter(f, n)
    BY <1>2
  <2> DEFINE g == [i \in 0..(n + 1) |-> Valafter(f, i)]
  <2>2. \A i \in 0..n : g[i] = f[i]
    <3> HIDE DEF Valafter
    <3>1. QED
      BY <2>1
  <2>3. \A i \in 0..(n + 1) : Valafter(g, i) = Valafter(f, i)
    <3> HIDE DEF g
    <3>1. QED
      BY <2>2
  <2>4. Isafter(g, n + 1)
    <3> HIDE DEF Valafter
    <3>1. QED
      BY <2>3
  <2> HIDE DEF Isafter, g
  <2>5. QED
    BY <2>4
<1>3. \A n \in Nat : n \in Safter
  <2> HIDE DEF Safter
  <2>1. QED
    BY <1>1, <1>2, Induction
<1>4. PICK e : Isafter(e, HSegments(block.num, block.size))
  BY <1>3
<1> DEFINE after == CHOOSE after : Isafter(after, HSegments(block.num, block.size))
<1>5. Isafter(after, HSegments(block.num, block.size))
  BY <1>4, Zenon
<1>6. result = Finalize([bv EXCEPT !.words = HEnd(block, opt, after[HSegments(block.num, block.size)])])
  <2> USE DEF Step
  <2>1. QED
    BY DEF HScanWords, HTurn, HWrite, HGathered, HEnd
<1> HIDE DEF after
<1>7. after[0] = [words |-> bv.words, word |-> 0, offset |-> 0, output |-> {}]
      /\ \A i \in 1..HSegments(block.num, block.size) : after[i] = Step(after[i - 1], i - 1)
  <2>1. \A i \in 0..HSegments(block.num, block.size) : after[i] = Valafter(after, i)
    <3> HIDE DEF Valafter
    <3>1. QED
      BY <1>5
  <2>2. Valafter(after, 0) = [words |-> bv.words, word |-> 0, offset |-> 0, output |-> {}]
        /\ \A i \in 1..HSegments(block.num, block.size) : Valafter(after, i) = Step(after[i - 1], i - 1)
    <3>1. \A i \in 1..HSegments(block.num, block.size) : i # 0
      OBVIOUS
    <3>2. QED
      BY <3>1, Zenon
  <2> HIDE DEF Valafter
  <2>3. 0 \in 0..HSegments(block.num, block.size) /\ \A i \in 1..HSegments(block.num, block.size) : i \in 0..HSegments(block.num, block.size)
    OBVIOUS
  <2>4. QED
    BY <2>1, <2>2, <2>3
<1>8. QED
  BY <1>6, <1>7 DEF HRun, Step


\* The words of a scan are those that it began with, changed.
LikeWords(ws, words) == ws = [w \in DOMAIN words |-> ws[w]]
Writing(m, words) ==
  /\ m = [words |-> m.words, word |-> m.word, offset |-> m.offset,
          output |-> m.output]
  /\ LikeWords(m.words, words)

\* Writing a word of the vector keeps the number of words.
LEMMA HWriteOK ==
  ASSUME NEW words, NEW m, LikeWords(m.words, words), NEW opt, NEW out
  PROVE  LikeWords(HWrite(opt, m, out), words)
<1> DEFINE old == m.words
           new == [old EXCEPT ![m.word] = Combine(opt, @, out)]
<1>1. old = [w \in DOMAIN words |-> old[w]]
  BY DEF LikeWords
<1>2. HWrite(opt, m, out) = new
  BY DEF HWrite
<1> HIDE DEF old
<1>3. DOMAIN old = DOMAIN words
  BY <1>1
<1>4. new = [w \in DOMAIN words |-> new[w]]
  BY <1>3
<1> HIDE DEF new
<1>5. QED
  BY <1>2, <1>4 DEF LikeWords

\* A turn of a BitWeaving/H scan writes in the words there are.
LEMMA HTurnOK ==
  ASSUME NEW words, NEW m, Writing(m, words), NEW size, NEW opt, NEW matches, NEW s
  PROVE  Writing(HTurn(size, opt, matches, m, s), words)
<1> DEFINE out == m.output \cup SHR(SHL(HGathered(size, matches, s), HEmptyBits(size)),
                                    m.offset)
           offset == m.offset + HCodesPerSegment(size)
           left == offset - kNumBitsPerWord
           new == HWrite(opt, m, out)
           rest == SHL(HGathered(size, matches, s), kNumBitsPerWord - left)
           e == HTurn(size, opt, matches, m, s)
<1>1. LikeWords(new, words) /\ LikeWords(m.words, words)
  BY HWriteOK DEF Writing
<1>2. e = IF left < 0 THEN [m EXCEPT !.output = out, !.offset = offset]
          ELSE [words |-> new, word |-> m.word + 1, offset |-> left, output |-> rest]
  BY DEF HTurn
<1> HIDE DEF e, out, new, rest, left, offset
<1>3. CASE left < 0
  <2>1. e = [words |-> m.words, word |-> m.word, offset |-> offset, output |-> out]
    BY <1>2, <1>3 DEF Writing
  <2>2. Writing(e, words)
    BY <1>1, <2>1 DEF Writing
  <2>3. QED
    BY <2>2 DEF e
<1>4. CASE ~(left < 0)
  <2> DEFINE k == m.word + 1
  <2> HIDE DEF k
  <2>1. e = [words |-> new, word |-> k, offset |-> left, output |-> rest]
    BY <1>2, <1>4 DEF k
  <2>2. Writing(e, words)
    BY <1>1, <2>1 DEF Writing
  <2>3. QED
    BY <2>2 DEF e
<1>5. QED
  BY <1>3, <1>4

\* A BitWeaving/H scan leaves a block of the same size, without bits past the end.
LEMMA HScanOK ==
  ASSUME NEW block, HSegments(block.num, block.size) \in Nat,
         NEW num \in 0..kNumCodesPerBlock, NEW b, BitsOK(b, num),
         NEW opt, NEW matches
  PROVE  Keeps(HScanWords(block, b, opt, matches), b)
<1> DEFINE result == HScanWords(block, b, opt, matches)
           n == HSegments(block.num, block.size)
           words == b.words
<1>1. PICK after : /\ HRun(after, block, words, opt, matches)
                   /\ result = Finalize([b EXCEPT !.words = HEnd(block, opt, after[n])])
  <2>1. result = HScanWords(block, b, opt, matches)
    OBVIOUS
  <2> HIDE DEF result
  <2>2. QED
    BY <2>1, HScanSteps
<1> HIDE DEF result
<1> DEFINE Good == {i \in Nat : i <= n => Writing(after[i], words)}
<1>2. 0 \in Good
  <2>1. after[0] = [words |-> words, word |-> 0, offset |-> 0, output |-> {}]
    BY <1>1 DEF HRun
  <2>2. LikeWords(words, words)
    <3>1. words = [w \in 0..(NumWords(num) - 1) |-> words[w]]
      BY DEF BitsOK
    <3> HIDE DEF words
    <3>2. QED
      BY <3>1 DEF LikeWords
  <2> HIDE DEF words
  <2>3. QED
    BY <2>1, <2>2 DEF Writing
<1>3. ASSUME NEW i \in Nat, i \in Good
      PROVE  i + 1 \in Good
  <2> SUFFICES ASSUME i + 1 <= n PROVE Writing(after[i + 1], words)
    OBVIOUS
  <2> DEFINE m == after[i]
  <2>1. Writing(m, words)
    BY <1>3
  <2>2. i + 1 \in 1..n /\ (i + 1) - 1 = i
    OBVIOUS
  <2>3. after[i + 1] = HTurn(block.size, opt, matches, m, i)
    BY <1>1, <2>2 DEF HRun
  <2> HIDE DEF m, words
  <2>4. QED
    BY <2>1, <2>3, HTurnOK
<1>4. \A i \in Nat : i \in Good
  <2> HIDE DEF Good
  <2>1. QED
    BY <1>2, <1>3, Induction
<1> DEFINE last == after[n]
           ws == HEnd(block, opt, last)
<1>5. Writing(last, words)
  BY <1>4
<1> HIDE DEF last
<1>6. LikeWords(ws, words)
  <2>1. ws = HWrite(opt, last, last.output) \/ ws = last.words
    BY DEF HEnd
  <2> HIDE DEF ws, words
  <2>2. QED
    BY <1>5, <2>1, HWriteOK DEF Writing
<1>7. result = Finalize([b EXCEPT !.words = ws])
  BY <1>1 DEF last
<1> HIDE DEF ws
<1>8. ws = [w \in DOMAIN b.words |-> ws[w]]
  BY <1>6 DEF LikeWords
<1>9. QED
  BY <1>7, <1>8, FinalizedOK DEF result

\* The bits that a scan leaves are those there were and those it has found.
Opts3 == {"kSet", "kAnd", "kOr"}
\* A combined bit comes from the vector or from the scan.
LEMMA CombineIn ==
  ASSUME NEW opt \in Opts3, NEW old, NEW found, NEW x \in Combine(opt, old, found)
  PROVE  x \in old \/ x \in found
  BY DEF Combine, Opts3

\* A scan of a naive block leaves a block of the same size, and bits past the
\* end only where there were some, unless it has found codes there.
LEMMA NaiveScanOK ==
  ASSUME NEW num \in 0..kNumCodesPerBlock, NEW b, BitsOK(b, num),
         NEW codes \in Nat, NEW opt \in Opts3,
         NEW holding, holding \subseteq 0..(codes - 1)
  PROVE  /\ BitsOK(NaiveScanWords(codes, b, opt, holding), num)
         /\ codes <= num => Keeps(NaiveScanWords(codes, b, opt, holding), b)
<1> DEFINE e == NaiveScanWords(codes, b, opt, holding)
           n == NumWords(num)
           word(w) == IF w < NumWords(codes)
                      THEN Combine(opt, b.words[w], Found(w, holding)) ELSE {}
           ws == [w \in 0..(n - 1) |-> word(w)]
<1>1. b.words = [w \in 0..(n - 1) |-> b.words[w]] /\ b.num = num
  BY DEF BitsOK
<1>2. e = [b EXCEPT !.words = ws]
  <2>1. DOMAIN b.words = 0..(n - 1)
    BY <1>1
  <2>2. e = [b EXCEPT !.words = [w \in DOMAIN b.words |-> word(w)]]
    BY DEF NaiveScanWords
  <2>3. QED
    BY <2>1, <2>2
<1> HIDE DEF word, e
<1>3. WordsFor(num, ws) /\ \A w \in 0..(n - 1) : ws[w] = word(w)
  BY DEF WordsFor
<1> HIDE DEF ws
<1>4. BitsOK(e, num) /\ e.words = ws /\ e.num = num
  BY <1>2, <1>3, WithWords
<1>5. ASSUME codes <= num, NoBitsPast(b), NEW p \in BlockBits(e)
      PROVE  p < num
  <2>0. kNumBitsPerWord \in Nat \ {0} /\ n \in Nat /\ num \in Nat
    BY BitWordsAssumption, WordsOf
  <2>1. p \in 0..(n * kNumBitsPerWord - 1) /\ BitAt(p) \in ws[WordAt(p)]
    BY <1>4 DEF BlockBits, BlockGetBit
  <2>2. p \in Nat /\ p < n * kNumBitsPerWord
    <3> DEFINE y == n * kNumBitsPerWord
    <3>1. y \in Nat
      BY <2>0
    <3> HIDE DEF y
    <3>2. QED
      BY <2>1, <3>1 DEF y
  <2> HIDE DEF n
  <2>3. WordAt(p) \in Nat /\ WordAt(p) < n
    BY <2>0, <2>2, DivLess, PlaceInWord DEF WordAt
  <2> DEFINE w == WordAt(p)
             old == b.words[w]
             found == Found(w, holding)
  <2>4. w \in 0..(n - 1)
    BY <2>0, <2>3
  <2>5. BitAt(p) \in word(w)
    BY <1>3, <2>1, <2>4 DEF n
  <2>6. BitAt(p) \in Combine(opt, old, found)
    BY <2>5 DEF word
  <2> HIDE DEF old, found
  <2>7. BitAt(p) \in old \/ BitAt(p) \in found
    BY <2>6, CombineIn
  <2>8. CASE BitAt(p) \in old
    <3>1. p \in BlockBits(b)
      BY <1>1, <2>1, <2>8 DEF BlockBits, BlockGetBit, n, old
    <3>2. QED
      BY <1>1, <1>5, <3>1 DEF NoBitsPast
  <2>9. CASE BitAt(p) \in found
    <3>1. PICK q \in holding : WordAt(q) = w /\ BitAt(p) = BitAt(q)
      BY <2>9 DEF Found, found
    <3>2. q \in Nat /\ q < codes
      OBVIOUS
    <3> DEFINE i == p % kNumBitsPerWord
               j == q % kNumBitsPerWord
    <3>3. i \in Bits /\ j \in Bits
      BY <2>2, <3>2, PlaceInWord
    <3>4. kNumBitsPerWord - 1 - i = kNumBitsPerWord - 1 - j
      BY <3>1 DEF BitAt
    <3> HIDE DEF i, j
    <3>5. i = j
      BY <2>0, <3>3, <3>4 DEF Bits
    <3>6. p \div kNumBitsPerWord = q \div kNumBitsPerWord
      BY <3>1 DEF WordAt
    <3>7. p = q
      BY <2>0, <2>2, <3>2, <3>5, <3>6, DivModEqual DEF i, j
    <3>8. QED
      BY <1>5, <2>0, <3>2, <3>7
  <2>10. QED
    BY <2>7, <2>8, <2>9
<1>6. codes <= num => Keeps(e, b)
  BY <1>1, <1>4, <1>5 DEF Keeps, NoBitsPast
<1>7. QED
  BY <1>4, <1>6 DEF e


\* What a scan of a block leaves: a block of the same size, without bits past
\* the end that were not there, unless its codes go on past the end.
ScanLeaves(d, block, b) ==
  /\ BitsOK(d, b.num)
  /\ block.num <= b.num => Keeps(d, b)

\* An operation that keeps the end clean leaves it clean.
LEMMA KeepsLeaves ==
  ASSUME NEW d, NEW block, NEW b, Keeps(d, b)
  PROVE  ScanLeaves(d, block, b)
  BY DEF Keeps, ScanLeaves

\* So does none.
LEMMA SameLeaves ==
  ASSUME NEW num, NEW b, BitsOK(b, num), NEW block
  PROVE  ScanLeaves(b, block, b)
  BY DEF Keeps, ScanLeaves, BitsOK

\* The segments of a block are a number.
LEMMA HSegmentsOf ==
  ASSUME NEW size \in 1..(kNumBitsPerWord - 1), NEW num \in Nat
  PROVE  HSegments(num, size) \in Nat
<1> DEFINE y == size + 1
           q == kNumBitsPerWord \div y
           r == kNumBitsPerWord % y
<1>1. kNumBitsPerWord \in Nat \ {0} /\ y \in Nat \ {0} /\ y <= kNumBitsPerWord
  BY BitWordsAssumption
<1>2. q \in Nat /\ r \in 0..(y - 1) /\ kNumBitsPerWord = y * q + r
  <2> HIDE DEF y
  <2>1. QED
    BY <1>1, DivMod
<1>3. HCodesPerSegment(size) = y * q
  BY DEF HCodesPerSegment, HWordsPerSegment, HCodesPerWord, HBitsPerCode
<1> HIDE DEF y, q, r
<1>4. q # 0
  BY <1>1, <1>2
<1>5. y * q \in Nat \ {0}
  BY <1>1, <1>2, <1>4
<1>6. QED
  BY <1>3, <1>5, CeilBounds DEF HSegments

\* The BitWeaving/V scans.
LEMMA VScanOK ==
  ASSUME NEW num \in 0..kNumCodesPerBlock, NEW b, BitsOK(b, num),
         NEW block, NEW cmp, NEW others, NEW opt
  PROVE  Keeps(VScanWords(block, cmp, others, b, opt), b)
<1> DEFINE found(segment, old) ==
             VResult(cmp, VOverGroups(block.size,
               [equal |-> VInitialMask(opt, old), less |-> {}, greater |-> {}],
               LAMBDA m : m.equal # {},
               LAMBDA m, i : VIteration(m, VWord(block, segment, i),
                                        others[segment][i])))
           ws == [s \in DOMAIN b.words |-> Combine(opt, b.words[s], found(s, b.words[s]))]
<1>1. VScanWords(block, cmp, others, b, opt) = Finalize([b EXCEPT !.words = ws])
  BY DEF VScanWords
<1>2. ws = [w \in DOMAIN b.words |-> ws[w]]
  <2> HIDE DEF found
  <2>1. QED
    OBVIOUS
<1> HIDE DEF ws
<1>3. QED
  BY <1>1, <1>2, FinalizedOK

\* A BitWeaving/V scan with two bounds keeps the end of a block clean.
LEMMA VScanBetweenOK ==
  ASSUME NEW num \in 0..kNumCodesPerBlock, NEW b, BitsOK(b, num),
         NEW block, NEW low, NEW high, NEW opt
  PROVE  Keeps(VScanBetween(block, low, high, b, opt).bv, b)
<1> DEFINE found(segment, old) ==
        LET m == VOverGroups(block.size,
                   [equal1 |-> VInitialMask(opt, old), less |-> {},
                    equal2 |-> VInitialMask(opt, old), greater |-> {}],
                   LAMBDA n : n.equal1 # {} \/ n.equal2 # {},
                   LAMBDA n, i : VIterationBetween(n,
                     VWord(block, segment, i),
                     VLiteralWord(block.size, low, i),
                     VLiteralWord(block.size, high, i)))
        IN  (m.less \cup m.equal2) \cap (m.equal1 \cup m.greater)
           ws == [s \in DOMAIN b.words |-> Combine(opt, b.words[s], found(s, b.words[s]))]
           e == Finalize([b EXCEPT !.words = ws])
           r == VScanBetween(block, low, high, b, opt)
<1>1. r.bv = b \/ r.bv = e
  <2>1. r = IF \/ b.num # block.num
               \/ low >= Pow2[block.size]
               \/ high >= Pow2[block.size]
            THEN [ok |-> FALSE, bv |-> b]
            ELSE [ok |-> TRUE, bv |-> e]
    BY DEF VScanBetween
  <2> HIDE DEF e, r
  <2>2. QED
    BY <2>1
<1>2. ws = [w \in DOMAIN b.words |-> ws[w]]
  <2> HIDE DEF found
  <2>1. QED
    OBVIOUS
<1> HIDE DEF ws, r
<1>3. Keeps(e, b)
  BY <1>2, FinalizedOK
<1>4. Keeps(b, b)
  BY DEF Keeps, BitsOK
<1> HIDE DEF e
<1>5. QED
  BY <1>1, <1>3, <1>4 DEF r

\* A scan with a literal or with two.
LEMMA BlockScanOK ==
  ASSUME NEW type, NEW size, FormatOK(type, size),
         NEW block, BlockOK(block, type, size),
         NEW num \in 0..kNumCodesPerBlock, NEW b, BitsOK(b, num),
         NEW p, p.kind \in {"literal", "between"}, NEW opt \in Opts3
  PROVE  ScanLeaves(BlockScan(block, p, b, opt).bv, block, b)
<1> DEFINE r == BlockScan(block, p, b, opt)
<1>0. /\ b.num = num /\ block.type = type /\ block.size = size /\ block.num \in Nat
      /\ type \in {"kNaive", "kBitWeavingH", "kBitWeavingV"}
      /\ size \in 1..(kNumBitsPerWord - 1)
  BY BitWordsAssumption DEF BitsOK, BlockOK, FormatOK
<1>1. CASE type = "kNaive"
  <2>1. ASSUME NEW holding, holding \subseteq 0..(block.num - 1)
        PROVE  ScanLeaves(NaiveScanWords(block.num, b, opt, holding), block, b)
    BY <1>0, <2>1, NaiveScanOK DEF ScanLeaves
  <2>2. CASE p.kind = "literal"
    <3> DEFINE h == {q \in 0..(block.num - 1) : Compare(p.cmp, block.data[q], p.literal)}
    <3>1. r = [ok |-> TRUE, bv |-> NaiveScanWords(block.num, b, opt, h)]
      BY <1>0, <1>1, <2>2 DEF BlockScan, NaiveScan
    <3>2. h \subseteq 0..(block.num - 1)
      OBVIOUS
    <3> HIDE DEF h, r
    <3>3. r.bv = NaiveScanWords(block.num, b, opt, h)
      BY <3>1
    <3>4. QED
      BY <2>1, <3>2, <3>3 DEF r
  <2>3. CASE p.kind = "between"
    <3> DEFINE h == {q \in 0..(block.num - 1) :
               p.literal <= block.data[q] /\ block.data[q] <= p.literal2}
    <3>1. r = [ok |-> TRUE, bv |-> NaiveScanWords(block.num, b, opt, h)]
      BY <1>0, <1>1, <2>3 DEF BlockScan, NaiveScanBetween
    <3>2. h \subseteq 0..(block.num - 1)
      OBVIOUS
    <3> HIDE DEF h, r
    <3>3. r.bv = NaiveScanWords(block.num, b, opt, h)
      BY <3>1
    <3>4. QED
      BY <2>1, <3>2, <3>3 DEF r
  <2>4. QED
    BY <2>2, <2>3
<1>2. CASE type = "kBitWeavingH"
  <2>1. ASSUME NEW matches
        PROVE  Keeps(HScanWords(block, b, opt, matches), b)
    BY <1>0, HSegmentsOf, HScanOK
  <2>2. CASE p.kind = "literal"
    <3> DEFINE m == [w \in DOMAIN block.data |->
                    HMatchesLiteral(p.cmp, block.size, block.data[w], p.literal)]
    <3>1. r = IF b.num # block.num \/ p.literal >= Pow2[block.size]
              THEN [ok |-> FALSE, bv |-> b]
              ELSE [ok |-> TRUE, bv |-> HScanWords(block, b, opt, m)]
      BY <1>0, <1>2, <2>2 DEF BlockScan, HScan
    <3> HIDE DEF m, r
    <3>2. r.bv = b \/ r.bv = HScanWords(block, b, opt, m)
      BY <3>1
    <3>3. QED
      BY <2>1, <3>2, KeepsLeaves, SameLeaves DEF r
  <2>3. CASE p.kind = "between"
    <3> DEFINE m == [w \in DOMAIN block.data |->
                    HMatchesBetween(block.size, block.data[w],
                                    p.literal, p.literal2)]
    <3>1. r = IF \/ b.num # block.num
                 \/ p.literal >= Pow2[block.size]
                 \/ p.literal2 >= Pow2[block.size]
              THEN [ok |-> FALSE, bv |-> b]
              ELSE [ok |-> TRUE, bv |-> HScanWords(block, b, opt, m)]
      BY <1>0, <1>2, <2>3 DEF BlockScan, HScanBetween
    <3> HIDE DEF m, r
    <3>2. r.bv = b \/ r.bv = HScanWords(block, b, opt, m)
      BY <3>1
    <3>3. QED
      BY <2>1, <3>2, KeepsLeaves, SameLeaves DEF r
  <2>4. QED
    BY <2>2, <2>3
<1>3. CASE type = "kBitWeavingV"
  <2>1. CASE p.kind = "literal"
    <3> DEFINE o == [segment \in DOMAIN b.words |->
                    [i \in 0..(block.size - 1) |->
                       VLiteralWord(block.size, p.literal, i)]]
    <3>1. r = IF b.num # block.num \/ p.literal >= Pow2[block.size]
              THEN [ok |-> FALSE, bv |-> b]
              ELSE [ok |-> TRUE, bv |-> VScanWords(block, p.cmp, o, b, opt)]
      BY <1>0, <1>3, <2>1 DEF BlockScan, VScan
    <3> HIDE DEF o, r
    <3>2. r.bv = b \/ r.bv = VScanWords(block, p.cmp, o, b, opt)
      BY <3>1
    <3>3. QED
      BY <3>2, VScanOK, KeepsLeaves, SameLeaves DEF r
  <2>2. CASE p.kind = "between"
    <3>1. r = VScanBetween(block, p.literal, p.literal2, b, opt)
      BY <1>0, <1>3, <2>2 DEF BlockScan
    <3> HIDE DEF r
    <3>2. QED
      BY <3>1, VScanBetweenOK, KeepsLeaves DEF r
  <2>3. QED
    BY <2>1, <2>2
<1>4. QED
  BY <1>0, <1>1, <1>2, <1>3

\* A scan with a block of another column.
LEMMA BlockScanColumnOK ==
  ASSUME NEW type, NEW size, FormatOK(type, size),
         NEW block, BlockOK(block, type, size),
         NEW num \in 0..kNumCodesPerBlock, NEW b, BitsOK(b, num),
         NEW other, other.num \in Nat, NEW cmp, NEW opt \in Opts3
  PROVE  Keeps(BlockScanColumn(block, cmp, other, b, opt).bv, b)
<1> DEFINE r == BlockScanColumn(block, cmp, other, b, opt)
<1>0. /\ b.num = num /\ block.type = type /\ block.size = size /\ block.num \in Nat
      /\ type \in {"kNaive", "kBitWeavingH", "kBitWeavingV"}
      /\ size \in 1..(kNumBitsPerWord - 1)
  BY BitWordsAssumption DEF BitsOK, BlockOK, FormatOK
<1>4. Keeps(b, b)
  BY DEF Keeps, BitsOK
<1>1. CASE type = "kNaive"
  <2> DEFINE others == [q \in 0..(kNumCodesPerBlock - 1) |-> BlockGetCode(other, q)]
             words == NumWords(Min({block.num, other.num}))
             codes == Min({block.num, words * kNumBitsPerWord})
             h == {q \in 0..(codes - 1) : Compare(cmp, block.data[q], others[q])}
  <2>1. r = IF b.num # block.num THEN [ok |-> FALSE, bv |-> b]
            ELSE [ok |-> TRUE, bv |-> NaiveScanWords(codes, b, opt, h)]
    BY <1>0, <1>1 DEF BlockScanColumn, NaiveScanColumn
  <2>2. codes \in Nat /\ codes <= block.num
    <3> DEFINE m == Min({block.num, other.num})
    <3>1. m \in Nat
      BY <1>0, LesserOf
    <3> HIDE DEF m
    <3>2. NumWords(m) \in Nat /\ kNumBitsPerWord \in Nat
      BY <3>1, CeilBounds, BitWordsAssumption DEF NumWords
    <3> DEFINE x == NumWords(m) * kNumBitsPerWord
    <3>3. x \in Nat
      BY <3>2
    <3>4. codes = Min({block.num, x})
      BY DEF m
    <3> HIDE DEF x, codes
    <3>5. QED
      BY <1>0, <3>3, <3>4, LesserOf
  <2>3. h \subseteq 0..(codes - 1)
    OBVIOUS
  <2> HIDE DEF h, codes, r
  <2>4. block.num = num => Keeps(NaiveScanWords(codes, b, opt, h), b)
    BY <1>0, <2>2, <2>3, NaiveScanOK
  <2>5. QED
    BY <1>0, <1>4, <2>1, <2>4 DEF r
<1>2. CASE type = "kBitWeavingH"
  <2> DEFINE m == [w \in DOMAIN block.data |->
                    HMatches(cmp, block.size, block.data[w], other.data[w])]
  <2>1. r = IF \/ b.num # block.num
               \/ other.num # block.num
               \/ other.type # block.type
               \/ other.size # block.size
            THEN [ok |-> FALSE, bv |-> b]
            ELSE [ok |-> TRUE, bv |-> HScanWords(block, b, opt, m)]
    BY <1>0, <1>2 DEF BlockScanColumn, HScanColumn
  <2> HIDE DEF m, r
  <2>2. r.bv = b \/ r.bv = HScanWords(block, b, opt, m)
    BY <2>1
  <2>3. Keeps(HScanWords(block, b, opt, m), b)
    BY <1>0, HSegmentsOf, HScanOK
  <2>4. QED
    BY <1>4, <2>2, <2>3 DEF r
<1>3. CASE type = "kBitWeavingV"
  <2> DEFINE o == [segment \in DOMAIN b.words |->
                    [i \in 0..(block.size - 1) |->
                       VWord(other, segment, i)]]
  <2>1. r = IF \/ b.num # block.num
               \/ other.num # block.num
               \/ other.type # block.type
               \/ other.size # block.size
            THEN [ok |-> FALSE, bv |-> b]
            ELSE [ok |-> TRUE, bv |-> VScanWords(block, cmp, o, b, opt)]
    BY <1>0, <1>3 DEF BlockScanColumn, VScanColumn
  <2> HIDE DEF o, r
  <2>2. r.bv = b \/ r.bv = VScanWords(block, cmp, o, b, opt)
    BY <2>1
  <2>3. QED
    BY <1>4, <2>2, VScanOK DEF r
<1>5. QED
  BY <1>0, <1>1, <1>2, <1>3


-----------------------------------------------------------------------------
(* What the operations of a vector keep. *)

\* No block has a bit past its end.
AllClean(v) == \A i \in 1..Len(v.blocks) : NoBitsPast(v.blocks[i])

\* w is what an operation makes of vector v for num tuples.
VectorKeeps(w, v, num) ==
  /\ VectorOK(w, num)
  /\ AllClean(v) => AllClean(w)

\* Blocks for a vector in place of those that it has.
BlocksFor(bs, v) ==
  /\ bs = [i \in DOMAIN v.blocks |-> bs[i]]
  /\ \A i \in 1..Len(v.blocks) : BitsOK(bs[i], v.blocks[i].num)

\* A vector with other blocks of the same sizes.
LEMMA WithBlocksOf ==
  ASSUME NEW num \in Nat, NEW v, VectorOK(v, num), NEW bs, BlocksFor(bs, v)
  PROVE  /\ VectorOK([v EXCEPT !.blocks = bs], num)
         /\ [v EXCEPT !.blocks = bs].blocks = bs
         /\ Len(bs) = Len(v.blocks)
<1> DEFINE n == Len(v.blocks)
           w == [v EXCEPT !.blocks = bs]
<1>1. n = CEIL(num, kNumCodesPerBlock) /\ n \in Nat /\ DOMAIN v.blocks = 1..n
  BY VectorLen
<1>2. w = [num |-> num, blocks |-> bs]
  BY DEF VectorOK
<1>3. bs = [i \in 1..n |-> bs[i]]
  BY <1>1 DEF BlocksFor
<1>4. \A i \in 1..n : v.blocks[i].num = BlockSizes(num)[i]
  BY VectorPart
<1>5. \A i \in 1..n : BitsOK(bs[i], BlockSizes(num)[i])
  BY <1>4 DEF BlocksFor
<1> HIDE DEF w, n
<1>6. w.blocks = bs /\ w.num = num
  BY <1>2
<1>7. VectorOK(w, num)
  BY <1>1, <1>2, <1>3, <1>5, <1>6 DEF VectorOK
<1>8. Len(bs) = n
  BY <1>1, <1>3, LenOfFunction
<1>9. QED
  BY <1>6, <1>7, <1>8 DEF w, n

\* A new vector.
LEMMA NewVectorOK ==
  ASSUME NEW num \in Nat
  PROVE  VectorOK(NewBitVector(num), num) /\ AllClean(NewBitVector(num))
<1> DEFINE n == CEIL(num, kNumCodesPerBlock)
           size(i) == BlockSizes(num)[i]
           bs == [i \in 1..n |-> FilledBlock(size(i), Bits)]
           v == NewBitVector(num)
<1>1. n \in Nat /\ DOMAIN BlockSizes(num) = 1..n
  BY SizesOf, BlocksOf
<1>2. v = [num |-> num, blocks |-> bs]
  BY <1>1 DEF NewBitVector
<1>3. \A i \in 1..n : size(i) \in 0..kNumCodesPerBlock
  <2> SUFFICES ASSUME NEW i \in 1..n PROVE size(i) \in 0..kNumCodesPerBlock
    OBVIOUS
  <2> DEFINE s == size(i)
  <2>1. SizeOK(num, n, i, s)
    BY SizesOf
  <2>2. s \in 1..kNumCodesPerBlock
    BY <2>1 DEF SizeOK
  <2> HIDE DEF s
  <2>3. s \in 0..kNumCodesPerBlock
    BY <2>2, BitWordsAssumption
  <2>4. QED
    BY <2>3 DEF s
<1> HIDE DEF n, size
<1>4. ASSUME NEW i \in 1..n
      PROVE  BitsOK(bs[i], size(i)) /\ NoBitsPast(bs[i])
  <2> DEFINE s == size(i)
  <2>1. s \in 0..kNumCodesPerBlock /\ bs[i] = FilledBlock(s, Bits)
    BY <1>3
  <2> HIDE DEF s, bs
  <2>2. BitsOK(bs[i], s) /\ NoBitsPast(bs[i])
    BY <2>1, FilledOK
  <2>3. QED
    BY <2>2 DEF s
<1>5. bs = [i \in 1..n |-> bs[i]]
  OBVIOUS
<1> HIDE DEF bs
<1>6. Len(bs) = n
  BY <1>1, <1>5, LenOfFunction
<1>7. v.blocks = bs
  BY <1>2
<1> HIDE DEF v
<1>8. VectorOK(v, num)
  BY <1>2, <1>4, <1>5, <1>7 DEF VectorOK, n, size
<1>9. AllClean(v)
  BY <1>4, <1>6, <1>7 DEF AllClean
<1>10. QED
  BY <1>8, <1>9 DEF v

\* What an operation makes of each block.
EachKept(bs, v) ==
  /\ bs = [i \in DOMAIN v.blocks |-> bs[i]]
  /\ \A i \in 1..Len(v.blocks) : Keeps(bs[i], v.blocks[i])

\* An operation that works on the blocks one by one.
LEMMA EachBlockOK ==
  ASSUME NEW num \in Nat, NEW v, VectorOK(v, num), NEW bs, EachKept(bs, v)
  PROVE  VectorKeeps([v EXCEPT !.blocks = bs], v, num)
<1> DEFINE w == [v EXCEPT !.blocks = bs]
<1>1. BlocksFor(bs, v)
  BY DEF BlocksFor, EachKept, Keeps
<1>2. VectorOK(w, num) /\ w.blocks = bs /\ Len(bs) = Len(v.blocks)
  BY <1>1, WithBlocksOf
<1> HIDE DEF w
<1>3. AllClean(v) => AllClean(w)
  BY <1>2 DEF AllClean, EachKept, Keeps
<1>4. QED
  BY <1>2, <1>3 DEF VectorKeeps, w

\* Complement keeps the end of a vector clean.
LEMMA ComplementVectorOK ==
  ASSUME NEW num \in Nat, NEW v, VectorOK(v, num)
  PROVE  VectorKeeps(Complement(v), v, num)
<1> DEFINE bs == [i \in DOMAIN v.blocks |-> BlockComplement(v.blocks[i])]
<1>1. Complement(v) = [v EXCEPT !.blocks = bs]
  BY DEF Complement, MapBlocks
<1>2. \A i \in 1..Len(v.blocks) : Keeps(bs[i], v.blocks[i])
  <2> SUFFICES ASSUME NEW i \in 1..Len(v.blocks) PROVE Keeps(bs[i], v.blocks[i])
    OBVIOUS
  <2> DEFINE b == v.blocks[i]
  <2>1. BitsOK(b, b.num) /\ b.num \in 0..kNumCodesPerBlock
    BY VectorPart
  <2>2. bs[i] = BlockComplement(b)
    BY VectorLen
  <2> HIDE DEF b, bs
  <2>3. Keeps(BlockComplement(b), b)
    BY <2>1, ComplementOK
  <2>4. QED
    BY <2>2, <2>3 DEF b
<1>3. EachKept(bs, v)
  BY <1>2 DEF EachKept
<1> HIDE DEF bs
<1>4. QED
  BY <1>1, <1>3, EachBlockOK

\* And and Or keep the end of a vector clean.
LEMMA VectorOpOK ==
  ASSUME NEW num \in Nat, NEW v, VectorOK(v, num), NEW opt, NEW other
  PROVE  VectorKeeps(VectorOp(opt, v, other), v, num)
<1> DEFINE bs == [i \in DOMAIN v.blocks |-> BlockOp(opt, v.blocks[i], other.blocks[i])]
<1>1. VectorOp(opt, v, other) = [v EXCEPT !.blocks = bs]
  BY DEF VectorOp
<1>2. \A i \in 1..Len(v.blocks) : Keeps(bs[i], v.blocks[i])
  <2> SUFFICES ASSUME NEW i \in 1..Len(v.blocks) PROVE Keeps(bs[i], v.blocks[i])
    OBVIOUS
  <2> DEFINE b == v.blocks[i]
             d == other.blocks[i]
  <2>1. BitsOK(b, b.num) /\ b.num \in 0..kNumCodesPerBlock
    BY VectorPart
  <2>2. bs[i] = BlockOp(opt, b, d)
    BY VectorLen
  <2> HIDE DEF b, bs, d
  <2>3. Keeps(BlockOp(opt, b, d), b)
    BY <2>1, BlockOpOK
  <2>4. QED
    BY <2>2, <2>3 DEF b
<1>3. EachKept(bs, v)
  BY <1>2 DEF EachKept
<1> HIDE DEF bs
<1>4. QED
  BY <1>1, <1>3, EachBlockOK

\* The block and the place of a tuple of the vector.
LEMMA TupleOfVector ==
  ASSUME NEW num \in Nat, NEW v, VectorOK(v, num), NEW t \in Nat, t < num
  PROVE  /\ VectorBlock(t) \in 1..Len(v.blocks)
         /\ t % kNumCodesPerBlock \in Nat
         /\ t % kNumCodesPerBlock < v.blocks[VectorBlock(t)].num
<1> DEFINE C == kNumCodesPerBlock
           n == Len(v.blocks)
           q == t \div C
           r == t % C
           k == q + 1
<1>0. C \in Nat \ {0} /\ n \in Nat /\ n = CEIL(num, C)
  BY BitWordsAssumption, VectorLen
<1>1. q \in Nat /\ r \in 0..(C - 1) /\ t = C * q + r
  BY <1>0, DivMod
<1>2. num <= n * C
  BY <1>0, CeilBounds
<1> HIDE DEF q, r, C, n
<1>3. q < n
  <2> SUFFICES ASSUME q >= n PROVE FALSE
    BY <1>0, <1>1
  <2> DEFINE e == q - n
             z == e * C
  <2>1. e \in Nat /\ q = n + e
    BY <1>0, <1>1
  <2> HIDE DEF e
  <2>2. C * q = n * C + z /\ z \in Nat /\ n * C \in Nat
    BY <1>0, <2>1
  <2> HIDE DEF z
  <2>3. QED
    BY <1>0, <1>1, <1>2, <2>2
<1>4. k \in 1..n /\ VectorBlock(t) = k
  BY <1>0, <1>1, <1>3 DEF VectorBlock, q, C
<1> DEFINE size == v.blocks[k].num
<1>5. SizeOK(num, n, k, size)
  BY <1>4, VectorPart DEF n
<1>6. r < size
  <2> DEFINE y == C * q
  <2>1. k - 1 = q /\ (k - 1) * C = y /\ y \in Nat
    BY <1>0, <1>1
  <2>2. /\ k < n => size = C
        /\ k = n => y + size = num
        /\ size \in 1..C
    BY <1>5, <2>1 DEF SizeOK, C
  <2>3. t = y + r
    BY <1>1
  <2> HIDE DEF y, size, k
  <2>4. k < n \/ k = n
    BY <1>0, <1>4
  <2>5. QED
    BY <1>0, <1>1, <2>1, <2>2, <2>3, <2>4
<1>7. QED
  BY <1>1, <1>4, <1>6 DEF r, n, C

\* Setting a bit keeps the end of a vector clean.
LEMMA SetBitVectorOK ==
  ASSUME NEW num \in Nat, NEW v, VectorOK(v, num), NEW t \in Nat, NEW bit
  PROVE  VectorKeeps(GetBit(v, t, bit), v, num)
<1>0. v.num = num /\ DOMAIN v.blocks = 1..Len(v.blocks) /\ Len(v.blocks) \in Nat
  BY VectorLen
<1>1. CASE t >= num
  <2>1. GetBit(v, t, bit) = v
    BY <1>0, <1>1 DEF GetBit, SetBit
  <2>2. QED
    BY <2>1 DEF VectorKeeps
<1>2. CASE t < num
  <2> DEFINE k == VectorBlock(t)
             r == t % kNumCodesPerBlock
             old == v.blocks[k]
             new == BlockSetBit(old, r, bit)
             bs == [v.blocks EXCEPT ![k] = new]
  <2>1. k \in 1..Len(v.blocks) /\ r \in Nat /\ r < old.num
    BY <1>2, TupleOfVector
  <2>2. BitsOK(old, old.num) /\ old.num \in 0..kNumCodesPerBlock
    BY <2>1, VectorPart
  <2>3. GetBit(v, t, bit) = [v EXCEPT !.blocks = bs]
    BY <1>0, <1>2 DEF GetBit, SetBit
  <2> HIDE DEF k, r, old
  <2>4. Keeps(new, old)
    BY <2>1, <2>2, SetBitOK
  <2> HIDE DEF new
  <2>5. bs = [i \in DOMAIN v.blocks |-> bs[i]]
        /\ \A i \in 1..Len(v.blocks) : bs[i] = IF i = k THEN new ELSE v.blocks[i]
    BY <1>0
  <2> HIDE DEF bs
  <2>6. \A i \in 1..Len(v.blocks) : Keeps(bs[i], v.blocks[i])
    <3> SUFFICES ASSUME NEW i \in 1..Len(v.blocks) PROVE Keeps(bs[i], v.blocks[i])
      OBVIOUS
    <3>1. CASE i = k
      BY <2>4, <2>5, <3>1 DEF old
    <3>2. CASE i # k
      <4>1. bs[i] = v.blocks[i]
        BY <2>5, <3>2
      <4>2. BitsOK(v.blocks[i], v.blocks[i].num)
        BY VectorPart
      <4>3. QED
        BY <4>1, <4>2 DEF Keeps
    <3>3. QED
      BY <3>1, <3>2
  <2>7. EachKept(bs, v)
    BY <2>5, <2>6 DEF EachKept
  <2>8. QED
    BY <2>3, <2>7, EachBlockOK
<1>3. QED
  BY <1>1, <1>2



\* The blocks of the column do not go on past those of the vector.
WithinVector(column, v) ==
  \A i \in 1..Len(column.blocks) :
    i <= Len(v.blocks) => column.blocks[i].num <= v.blocks[i].num

\* So does clearing a block.
LEMMA ZerosOK ==
  ASSUME NEW num \in 0..kNumCodesPerBlock, NEW b, BitsOK(b, num)
  PROVE  Keeps(BlockSetZeros(b), b)
<1>1. b.num = num
  BY DEF BitsOK
<1>2. QED
  BY <1>1, FilledOK DEF Keeps, BlockSetZeros

\* A scan with a literal or two leaves a vector of the same size, and bits past
\* the end only where there were some or the column goes on past the end.
LEMMA ColumnScanOK ==
  ASSUME NEW c, ColumnOK(c), NEW num \in Nat, NEW v, VectorOK(v, num),
         NEW p, p.kind \in {"literal", "between"}, NEW opt \in Opts3,
         NEW w, w = ColumnScan(c, p, opt, v)
  PROVE  /\ VectorOK(w, num)
         /\ WithinVector(c, v) => VectorKeeps(w, v, num)
<1> DEFINE n == Len(v.blocks)
           Has(i) == i \in DOMAIN c.blocks
           Scan(i, b) == BlockScan(c.blocks[i], p, b, opt)
           refuses(i) == Has(i) /\ ~Scan(i, v.blocks[i]).ok
           reached(i) == i <= n /\ \A j \in 1..(i - 1) : ~refuses(j)
           new(i) == CASE reached(i) /\ Has(i)  -> Scan(i, v.blocks[i]).bv
                       [] reached(i) /\ ~Has(i) -> IF opt = "kOr" THEN v.blocks[i]
                                                   ELSE BlockSetZeros(v.blocks[i])
                       [] ~reached(i) -> v.blocks[i]
           bs == [i \in DOMAIN v.blocks |-> new(i)]
<1>1. w = [v EXCEPT !.blocks = bs]
  BY DEF ColumnScan, OverBlocks
<1>2. DOMAIN v.blocks = 1..n /\ n \in Nat
  BY VectorLen
<1>3. \A i \in 1..n : \/ Has(i) /\ new(i) = Scan(i, v.blocks[i]).bv
                      \/ new(i) = BlockSetZeros(v.blocks[i])
                      \/ new(i) = v.blocks[i]
  <2> HIDE DEF Has, Scan, reached
  <2>1. QED
    OBVIOUS
<1> HIDE DEF new
<1>4. bs = [i \in DOMAIN v.blocks |-> bs[i]] /\ \A i \in 1..n : bs[i] = new(i)
  BY <1>2
<1> HIDE DEF bs
<1>5. ASSUME NEW i \in 1..n
      PROVE  /\ BitsOK(bs[i], v.blocks[i].num)
             /\ WithinVector(c, v) => Keeps(bs[i], v.blocks[i])
  <2> DEFINE b == v.blocks[i]
             d == c.blocks[i]
             e == Scan(i, b).bv
  <2>1. BitsOK(b, b.num) /\ b.num \in 0..kNumCodesPerBlock
    BY VectorPart
  <2>2. CASE bs[i] = b
    BY <2>1, <2>2 DEF Keeps
  <2>3. CASE bs[i] = BlockSetZeros(b)
    <3> HIDE DEF b
    <3>1. Keeps(BlockSetZeros(b), b)
      BY <2>1, ZerosOK
    <3>2. QED
      BY <2>3, <3>1 DEF Keeps, b
  <2>4. CASE Has(i) /\ bs[i] = e
    <3>1. i \in 1..Len(c.blocks) /\ Len(c.blocks) \in Nat
      BY <2>4 DEF ColumnOK
    <3>2. BlockOK(d, c.type, c.size) /\ FormatOK(c.type, c.size)
      BY <3>1 DEF ColumnOK
    <3>3. ScanLeaves(e, d, b)
      <4> HIDE DEF d, b
      <4>1. QED
        BY <2>1, <3>2, BlockScanOK DEF d
    <3>4. WithinVector(c, v) => d.num <= b.num
      BY <1>2, <3>1 DEF WithinVector
    <3> HIDE DEF d, b, e
    <3>5. QED
      BY <2>4, <3>3, <3>4 DEF ScanLeaves, b
  <2>5. QED
    BY <1>3, <1>4, <2>2, <2>3, <2>4
<1>6. VectorOK(w, num)
  <2>1. BlocksFor(bs, v)
    BY <1>4, <1>5 DEF BlocksFor
  <2>2. QED
    BY <1>1, <2>1, WithBlocksOf
<1>7. ASSUME WithinVector(c, v)
      PROVE  VectorKeeps(w, v, num)
  <2>1. EachKept(bs, v)
    BY <1>4, <1>5, <1>7 DEF EachKept
  <2>2. QED
    BY <1>1, <2>1, EachBlockOK
<1>8. QED
  BY <1>6, <1>7

\* A scan with another column leaves a vector of the same size, and no bits past
\* the end that were not there.
LEMMA ColumnScanColumnOK ==
  ASSUME NEW c, ColumnOK(c), NEW other, ColumnOK(other),
         NEW num \in Nat, NEW v, VectorOK(v, num),
         NEW cmp, NEW opt \in Opts3,
         NEW w, w = ColumnScanColumn(c, cmp, other, opt, v)
  PROVE  VectorKeeps(w, v, num)
<1> DEFINE n == Len(c.blocks)
           Has(i) == i \in DOMAIN c.blocks \cap DOMAIN other.blocks
           Scan(i, b) == BlockScanColumn(c.blocks[i], cmp, other.blocks[i], b, opt)
           refuses(i) == Has(i) /\ ~Scan(i, v.blocks[i]).ok
           reached(i) == i <= n /\ \A j \in 1..(i - 1) : ~refuses(j)
           new(i) == CASE reached(i) /\ Has(i)  -> Scan(i, v.blocks[i]).bv
                       [] reached(i) /\ ~Has(i) -> IF opt = "kOr" THEN v.blocks[i]
                                                   ELSE BlockSetZeros(v.blocks[i])
                       [] ~reached(i) -> v.blocks[i]
           bs == [i \in DOMAIN v.blocks |-> new(i)]
           k == Len(v.blocks)
<1>1. w = [v EXCEPT !.blocks = bs]
  BY DEF ColumnScanColumn, OverBlocks
<1>2. DOMAIN v.blocks = 1..k /\ k \in Nat
  BY VectorLen
<1>3. \A i \in 1..k : \/ Has(i) /\ new(i) = Scan(i, v.blocks[i]).bv
                      \/ new(i) = BlockSetZeros(v.blocks[i])
                      \/ new(i) = v.blocks[i]
  <2> HIDE DEF Has, Scan, reached
  <2>1. QED
    OBVIOUS
<1> HIDE DEF new
<1>4. bs = [i \in DOMAIN v.blocks |-> bs[i]] /\ \A i \in 1..k : bs[i] = new(i)
  BY <1>2
<1> HIDE DEF bs
<1>5. ASSUME NEW i \in 1..k
      PROVE  Keeps(bs[i], v.blocks[i])
  <2> DEFINE b == v.blocks[i]
             d == c.blocks[i]
             o == other.blocks[i]
             e == Scan(i, b).bv
  <2>1. BitsOK(b, b.num) /\ b.num \in 0..kNumCodesPerBlock
    BY VectorPart
  <2>2. CASE bs[i] = b
    BY <2>1, <2>2 DEF Keeps
  <2>3. CASE bs[i] = BlockSetZeros(b)
    <3> HIDE DEF b
    <3>1. Keeps(BlockSetZeros(b), b)
      BY <2>1, ZerosOK
    <3>2. QED
      BY <2>3, <3>1 DEF b
  <2>4. CASE Has(i) /\ bs[i] = e
    <3>1. i \in 1..Len(c.blocks) /\ i \in 1..Len(other.blocks)
      BY <2>4 DEF ColumnOK
    <3>2. /\ BlockOK(d, c.type, c.size) /\ FormatOK(c.type, c.size)
          /\ BlockOK(o, other.type, other.size)
      BY <3>1 DEF ColumnOK
    <3>3. o.num \in Nat
      BY <3>2, BitWordsAssumption DEF BlockOK
    <3>4. Keeps(e, b)
      <4> HIDE DEF d, b, o
      <4>1. QED
        BY <2>1, <3>2, <3>3, BlockScanColumnOK DEF d, o
    <3>5. QED
      BY <2>4, <3>4
  <2>5. QED
    BY <1>3, <1>4, <2>2, <2>3, <2>4
<1>6. EachKept(bs, v)
  BY <1>4, <1>5 DEF EachKept
<1>7. QED
  BY <1>1, <1>6, EachBlockOK

\* A column that has the blocks of its table has those of a vector, and they do
\* not go on past its end.
LEMMA FitsVector ==
  ASSUME NEW c, ColumnOK(c), NEW num \in Nat, Fits(c, num),
         NEW v, VectorOK(v, num)
  PROVE  /\ Len(c.blocks) = Len(v.blocks)
         /\ WithinVector(c, v)
         /\ \A i \in 1..Len(c.blocks) :
              NumWords(c.blocks[i].num) <= NumWords(v.blocks[i].num)
<1> DEFINE n == Len(v.blocks)
           C == kNumCodesPerBlock
<1>0. C \in Nat \ {0} /\ n \in Nat /\ n = CEIL(num, C) /\ Len(c.blocks) = n
  BY BitWordsAssumption, VectorLen DEF Fits
<1>1. ASSUME NEW i \in 1..n
      PROVE  /\ c.blocks[i].num \in Nat /\ v.blocks[i].num \in Nat
             /\ c.blocks[i].num <= v.blocks[i].num
  <2> DEFINE a == c.blocks[i].num
             size == v.blocks[i].num
             before == (i - 1) * C
  <2>1. SizeOK(num, n, i, size)
    BY VectorPart
  <2>2. a \in 0..C
    BY <1>0 DEF ColumnOK, BlockOK
  <2>3. /\ size \in 1..C /\ (i < n => size = C)
        /\ (i = n => before + size = num)
    BY <2>1 DEF SizeOK
  <2>4. CASE i < n
    BY <1>0, <2>2, <2>3, <2>4
  <2>5. CASE i = n
    <3> DEFINE q == n - 1
    <3>1. num > 0
      BY <1>0, BlocksOf
    <3>2. a = num % C
      BY <1>0, <2>5, <3>1 DEF Fits
    <3>3. q \in Nat /\ num = q * C + size
      BY <1>0, <2>3, <2>5
    <3>4. a \in Nat /\ size \in Nat /\ a <= size
      <4> HIDE DEF size, C, n, a, q
      <4>1. CASE size = C
        BY <1>0, <2>2, <4>1
      <4>2. CASE size < C
        <5>1. size \in 0..(C - 1)
          BY <1>0, <2>3, <4>2
        <5>2. num % C = size
          BY <1>0, <3>3, <5>1, DivModUnique
        <5>3. QED
          BY <1>0, <2>2, <2>3, <3>2, <5>2
      <4>3. QED
        BY <1>0, <2>2, <2>3, <4>1, <4>2
    <3>5. QED
      BY <3>4
  <2>6. i < n \/ i = n
    BY <1>0
  <2>7. QED
    BY <2>4, <2>5, <2>6
<1>2. ASSUME NEW x \in Nat, NEW y \in Nat, x <= y
      PROVE  NumWords(x) <= NumWords(y)
  <2> DEFINE W == kNumBitsPerWord
             m == NumWords(x)
             k == NumWords(y)
  <2>0. W \in Nat \ {0}
    BY BitWordsAssumption
  <2>1. /\ m \in Nat /\ k \in Nat /\ y <= k * W
        /\ x > 0 => m > 0 /\ (m - 1) * W < x
        /\ x = 0 => m = 0
    BY <2>0, CeilBounds DEF NumWords
  <2> HIDE DEF m, k, W
  <2> SUFFICES ASSUME m > k PROVE FALSE
    BY <2>1 DEF m, k
  <2> DEFINE e == m - 1 - k
             z == e * W
  <2>2. x > 0 /\ e \in Nat /\ m - 1 = k + e
    BY <2>1
  <2> HIDE DEF e
  <2>3. (m - 1) * W = k * W + z /\ z \in Nat /\ k * W \in Nat
    BY <2>0, <2>1, <2>2
  <2> HIDE DEF z
  <2>4. QED
    BY <1>2, <2>1, <2>2, <2>3
<1>3. WithinVector(c, v)
  BY <1>0, <1>1 DEF WithinVector
<1>4. QED
  BY <1>0, <1>1, <1>2, <1>3
=============================================================================
