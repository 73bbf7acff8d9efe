---------------------------- MODULE ColumnScans ----------------------------
(***************************************************************************)
(* Colseqscan (src/colseqscan.h) and SIMDSeqScan (src/simdseqscan.h): a    *)
(* copy of each column, of which a query checks every value.               *)
(***************************************************************************)
EXTENDS Bitmaps

NumPoints(s) == Cardinality(DOMAIN s)

\* buildIndex: a column is a copy of one dimension of the store.  What is in
\* the memory behind it, 16 values that are never written and what follows
\* them, is junk.
Column(s, d, junk) ==
  [t \in 0..(2 * NumPoints(s) + 2 * WIDE) |->
     IF t \in DOMAIN s THEN s[t][d] ELSE junk]
Columns(s, junk) == [d \in Dims |-> Column(s, d, junk)]
-----------------------------------------------------------------------------
ColseqExactMatch(cols, n, q) == FirstEqual(Following(0, n), q.lower, cols)

\* partialMatch, and windowQuery, which considers all columns.
ColseqMatch(cols, n, q) ==
  LET check(res, d) ==
        FoldLeft(LAMBDA r, tid : checkTids_AND(cols[d], tid, r, q, d),
                 res, Begins(n, LINE))
  IN  returnTids(OverColumns(check, q, Ones(n)), n)
-----------------------------------------------------------------------------
\* exactMatch compares 32 values of the first column at once, as long as the
\* register they begin in is one of the first (n + 7) / 4, and the rows one by
\* one when there is a hit; then the rows that may be left over.
SIMDExactMatch(cols, n, q) ==
  LET lane == TIDS_PER_BYTE \div 2
      simdLines == Begins((n + TIDS_PER_BYTE - 1) \div lane, WIDE \div lane)
      hits == {i \in DOMAIN simdLines :
                 \E t \in Following(simdLines[i] * lane, WIDE) :
                   cols[0][t] = q.lower[0]}
      left == (Len(simdLines) * WIDE)..(n + TIDS_PER_BYTE - 2)
  IN  FirstEqual(UNION {Following(simdLines[i] * lane, WIDE) : i \in hits}
                   \cup left, q.lower, cols)

\* The loops while tid + 31 < n + 7, then while tid + 15 < n + 7.
SIMDMatch(cols, n, q) ==
  LET bits == n + TIDS_PER_BYTE - 1
      wide == [i \in 1..(bits \div WIDE) |-> (i - 1) * WIDE]
      rest == Len(wide) * WIDE
      lines == [i \in 1..((bits - rest) \div LINE) |-> rest + (i - 1) * LINE]
      check(res, d) ==
        FoldLeft(LAMBDA r, tid : SIMDcheckTids_AND(cols[d], tid, r, q, d),
                 FoldLeft(LAMBDA r, tid :
                            SIMDcheck32Tids_AND(cols[d], tid, r, q, d),
                          res, wide),
                 lines)
  IN  returnTids(OverColumns(check, q, Ones(n)), n)
=============================================================================
