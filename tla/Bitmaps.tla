------------------------------ MODULE Bitmaps ------------------------------
(***************************************************************************)
(* The bitmaps of src/Util.h, in which the column indexes mark the rows    *)
(* that a query accepts.  A bitmap is the set of the positions of its ones;*)
(* what a function does to a byte it does to the TIDs of that byte.  The   *)
(* widths are constants: a byte has TIDS_PER_BYTE bits, a vector register  *)
(* as many values as half a byte has bits.                                 *)
(***************************************************************************)
EXTENDS Store, Integers, FiniteSetsExt, SequencesExt

CONSTANTS TIDS_PER_BYTE, \* 8
          VALUE_BITS,    \* 32
          BINS           \* 64, the bits of an imprint

ASSUME BitmapsAssumption ==
  /\ TIDS_PER_BYTE \in Nat /\ TIDS_PER_BYTE % 2 = 0 /\ TIDS_PER_BYTE > 0
  /\ VALUE_BITS \in Nat \ {0} /\ BINS \in Nat /\ BINS >= 2

LINE == 2 * TIDS_PER_BYTE  \* the values of a cache line, two bytes of a bitmap
WIDE == 4 * TIDS_PER_BYTE  \* the bits of the word that SIMDcheck32Tids_AND writes

Following(begin, n) == begin..(begin + n - 1)
Bytes(numberOfBits) == (numberOfBits + TIDS_PER_BYTE - 1) \div TIDS_PER_BYTE

\* memset(result, 255, ...) of the bytes that n bits need.
Ones(n) == Following(0, Bytes(n) * TIDS_PER_BYTE)

\* The loop for (x = 0; x < n; x += step), as the sequence of its values.
Begins(n, step) ==
  [i \in 1..((n + step - 1) \div step) |-> (i - 1) * step]

\* The loops over the dimensions that the query considers.
OverColumns(Op(_, _), q, res) ==
  FoldLeft(LAMBDA r, d : IF q.columns[d] THEN Op(r, d) ELSE r,
           res, Begins(NUM_DIM, 1))

isEqualCStore(TID, query, cols) == \A d \in Dims : cols[d][TID] = query[d]

\* A loop over TIDs in ascending order that returns the first equal row.
FirstEqual(tids, query, cols) ==
  LET equal == {t \in tids : isEqualCStore(t, query, cols)}
  IN  IF equal = {} THEN NOT_FOUND ELSE Min(equal)
-----------------------------------------------------------------------------
addTidsToResult(begin, res) == res \cup Following(begin, LINE)

checkTids_OR(col, begin, res, q, d) ==
  (res \ Following(begin, LINE))
    \cup {t \in Following(begin, LINE) : isIn(q, d, col[t])}

\* Variant: only the first of the two bytes.
checkTids_ANDByte(col, begin, res, q, d) ==
  res \ {t \in Following(begin, TIDS_PER_BYTE) : ~isIn(q, d, col[t])}

checkTids_AND(col, begin, res, q, d) ==
  res \ {t \in Following(begin, LINE) : ~isIn(q, d, col[t])}

\* The registers hold signed numbers, and the bounds are set to the unsigned
\* lower - 1 and upper + 1.
Signed(value) ==
  IF value >= 2^(VALUE_BITS - 1) THEN value - 2^VALUE_BITS ELSE value
lowerSIMD(q, d) == Signed((q.lower[d] - 1) % 2^VALUE_BITS)
upperSIMD(q, d) == Signed((q.upper[d] + 1) % 2^VALUE_BITS)

Outside(col, begin, n, q, d) ==
  LET lower == lowerSIMD(q, d)
      upper == upperSIMD(q, d)
  IN  {t \in Following(begin, n) :
         ~(Signed(col[t]) > lower /\ Signed(col[t]) < upper)}

SIMDcheckTids_AND(col, begin, res, q, d) ==
  res \ Outside(col, begin, LINE, q, d)
SIMDcheck32Tids_AND(col, begin, res, q, d) ==
  res \ Outside(col, begin, WIDE, q, d)

\* Whole bytes of the first numberOfBits.
andBitvectors(res1, res2, numberOfBits) ==
  {t \in res1 : t \in Ones(numberOfBits) => t \in res2}

\* All bits of the full bytes, then the rest of the last one.
returnTids(res, maxSize) ==
  {t \in res :
     \/ t \div TIDS_PER_BYTE < maxSize \div TIDS_PER_BYTE
     \/ /\ t \div TIDS_PER_BYTE < Bytes(maxSize)
        /\ t % TIDS_PER_BYTE < maxSize % TIDS_PER_BYTE}

\* The bin of a value: the last one that does not begin above it, or bin 0.
GETBIN64(X, bins) == Max({0} \cup {W \in DOMAIN bins : bins[W] <= X})
=============================================================================
