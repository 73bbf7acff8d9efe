------------------------------ MODULE Imprints ------------------------------
(***************************************************************************)
(* Column imprints: for each cache line of a column the set of the bins    *)
(* that its values fall into.  ImprintIndex (src/Imprint.h, Imprint.cpp)   *)
(* keeps one imprint for a run of equal ones, with a dictionary of the     *)
(* runs; the three classes without compression keep them all.              *)
(***************************************************************************)
EXTENDS ColumnScans

CONSTANT CNT_BITS  \* 24, the width of the counter in a dictionary line

IMPS_MAX_CNT == 2^CNT_BITS - 1

CacheLines(n) == (n + LINE - 1) \div LINE

\* An equidistant sample of the sorted values, and the largest one.
Bins(s, d) ==
  LET n == NumPoints(s)
      sample == SortSeq([i \in 1..n |-> s[i - 1][d]], LAMBDA x, y : x < y)
  IN  [k \in 0..(BINS - 1) |->
         IF k < BINS - 1 THEN sample[(k * n) \div (BINS - 1) + 1] ELSE sample[n]]

\* The imprints of the cache lines, the last of which may not be full.
LineMasks(s, d, bins) ==
  [i \in 1..CacheLines(NumPoints(s)) |->
     {GETBIN64(s[t][d], bins) :
        t \in Following((i - 1) * LINE, LINE) \cap DOMAIN s}]

\* The bins that can hold a value in the bounds, and those that hold no other.
make_mask(bins, q, d) == GETBIN64(q.lower[d], bins)..GETBIN64(q.upper[d], bins)

DIM_MIN == 0
DIM_MAX == 2^(VALUE_BITS - 1) - 1

\* Variant: the bin of the lower bound is taken to hold no smaller value.
make_innermaskFrom(bins, q, d) ==
  {b \in make_mask(bins, q, d) :
     q.upper[d] # DIM_MAX => b # GETBIN64(q.upper[d], bins)}

make_innermask(bins, q, d) ==
  {b \in make_mask(bins, q, d) :
     /\ q.lower[d] # DIM_MIN => b # GETBIN64(q.lower[d], bins)
     /\ q.upper[d] # DIM_MAX => b # GETBIN64(q.upper[d], bins)}

make_mask_exact(bins, compareValue) == {GETBIN64(compareValue, bins)}
Hits(imprint, mask) == imprint \cap mask # {}
-----------------------------------------------------------------------------
(* ImprintIndex *)

\* imprints_create at the end of a cache line: a run of equal imprints becomes
\* a repeat header, the other lines share a header that counts them.
EndLine(c, mask) ==
  LET last == Len(c.dict)
      one == [cnt |-> 1, repeat |-> FALSE]
      more(line) == [line EXCEPT !.cnt = (@ + 1) % 2^CNT_BITS]
  IN  IF c.prvmask = mask /\ c.dict[last].cnt < IMPS_MAX_CNT - 1
      THEN [c EXCEPT !.dict =
              IF @[last].repeat THEN [@ EXCEPT ![last] = more(@)]
              ELSE IF @[last].cnt > 1
              THEN Append([@ EXCEPT ![last].cnt = @ - 1],
                          [cnt |-> 2, repeat |-> TRUE])
              ELSE [@ EXCEPT ![last] = [cnt |-> 2, repeat |-> TRUE]]]
      ELSE [prvmask |-> mask,
            imps |-> Append(c.imps, mask),
            dict |-> IF last > 0 /\ ~c.dict[last].repeat
                     THEN [c.dict EXCEPT ![last] = more(@)]
                     ELSE Append(c.dict, one)]

imprints_create(masks) ==
  FoldLeft(EndLine, [prvmask |-> {}, imps |-> <<>>, dict |-> <<>>], masks)

\* BATimprints and buildIndex of one column.
BATimprints(s, d) ==
  LET bins == Bins(s, d)
  IN  [bins |-> bins] @@ imprints_create(LineMasks(s, d, bins))

\* range_select_column on one cache line, when its imprint is a hit.
Select(col, begin, res, imprint, bins, q, d) ==
  IF ~Hits(imprint, make_mask(bins, q, d)) THEN res
  ELSE IF imprint \subseteq make_innermask(bins, q, d)
  THEN addTidsToResult(begin, res)
  ELSE checkTids_OR(col, begin, res, q, d)

\* range_select_column: the cache lines of each line of the dictionary.  Only
\* the lines of a repeat header share the imprint at i_cnt.
range_select_column(col, imprints, q, d) ==
  LET lines(w, line) ==
        LET imprint(j) == imprints.imps[IF line.repeat THEN w.i_cnt + 1
                                        ELSE w.i_cnt + j]
        IN  [i_cnt |-> w.i_cnt + (IF line.repeat THEN 1 ELSE line.cnt),
             cache_cnt |-> w.cache_cnt + line.cnt,
             res |-> FoldLeft(LAMBDA r, j :
                       Select(col, (w.cache_cnt + j - 1) * LINE, r, imprint(j),
                              imprints.bins, q, d),
                       w.res, [j \in 1..line.cnt |-> j])]
  IN  FoldLeft(lines, [i_cnt |-> 0, cache_cnt |-> 0, res |-> {}],
               imprints.dict).res

\* partialMatch, and windowQuery, which considers all columns.
ImprintMatch(index, n, q) ==
  LET columns == {d \in Dims : q.columns[d]}
      column(d) == range_select_column(index.cols[d], index.imps[d], q, d)
      both(res, d) == andBitvectors(res, column(d), n)
  IN  returnTids(OverColumns(both, q, column(Min(columns))), n)

\* exactMatch counts the cache lines that it has passed: after a repeat header
\* with cnt of them it adds cnt and, as numImprintsProcessed, one more.
ImprintVisits(imprints) ==
  LET pass(w, line) ==
        IF line.repeat
        THEN [processed |-> w.processed + 1,
              skipped |-> w.skipped + line.cnt,
              visits |-> w.visits \o
                <<[imprint |-> imprints.imps[w.processed + 1],
                   tids |-> Following((w.processed + w.skipped) * LINE,
                                      line.cnt * LINE)]>>]
        ELSE [processed |-> w.processed + line.cnt,
              skipped |-> w.skipped,
              visits |-> w.visits \o
                [j \in 1..line.cnt |->
                  [imprint |-> imprints.imps[w.processed + j],
                   tids |-> Following((w.processed + j - 1 + w.skipped) * LINE,
                                      LINE)]]]
  IN  FoldLeft(pass, [processed |-> 0, skipped |-> 0, visits |-> <<>>],
               imprints.dict).visits

ImprintExactMatch(index, q) ==
  LET imprints == index.imps[0]
      mask == make_mask_exact(imprints.bins, q.lower[0])
      visits == ImprintVisits(imprints)
  IN  FirstEqual(UNION {visits[i].tids :
                          i \in {j \in DOMAIN visits :
                                   Hits(visits[j].imprint, mask)}},
                 q.lower, index.cols)
-----------------------------------------------------------------------------
(* The classes without compression. *)

createColumnImprint(s, d) ==
  LET bins == Bins(s, d) IN [bins |-> bins, imps |-> LineMasks(s, d, bins)]

\* The comparison of one line.
CheckLine(kind, col, begin, res, q, d) ==
  IF kind = "ImprintIndexWithoutCompression"
  THEN checkTids_AND(col, begin, res, q, d)
  ELSE SIMDcheckTids_AND(col, begin, res, q, d)

\* A line without a hit is cleared; one with other bins too becomes checked.
Filter(imprint, begin, width, res, checked, bins, q, d) ==
  IF ~Hits(imprint, make_mask(bins, q, d)) THEN res \ Following(begin, width)
  ELSE IF imprint \subseteq make_innermask(bins, q, d) THEN res
  ELSE checked

\* range_select_column of the lines from the one after skipped on.
FilterLines(kind, col, imprints, skipped, res, q, d) ==
  LET imps == imprints.imps
      line(r, i) == Filter(imps[i], (i - 1) * LINE, LINE, r,
                           CheckLine(kind, col, (i - 1) * LINE, r, q, d),
                           imprints.bins, q, d)
  IN  FoldLeft(line,
               res, [j \in 1..(Len(imps) - skipped) |-> skipped + j])

\* ImprintSIMD64: two lines with one comparison, then the one that is left.
FilterPairs(kind, col, imprints, res, q, d) ==
  LET imps == imprints.imps
      pairs == [i \in 1..(Len(imps) \div 2) |-> i]
      two(r, i) == Filter(imps[2 * i - 1] \cup imps[2 * i],
                          (i - 1) * WIDE, WIDE, r,
                          SIMDcheck32Tids_AND(col, (i - 1) * WIDE, r, q, d),
                          imprints.bins, q, d)
  IN  FilterLines(kind, col, imprints, 2 * Len(pairs),
                  FoldLeft(two, res, pairs), q, d)

\* partialMatch and windowQuery of each class.
WithoutCompression(kind, index, n, q) ==
  LET select(res, d) ==
        LET col == index.cols[d]
            imprints == index.imps[d]
        IN  IF kind = "ImprintSIMD64IndexWithoutCompression"
            THEN FilterPairs(kind, col, imprints, res, q, d)
            ELSE FilterLines(kind, col, imprints, 0, res, q, d)
  IN  returnTids(OverColumns(select, q, Ones(n)), n)

\* The lines that exactMatch looks at: those with a hit, in ImprintSIMD64 both
\* lines of a pair.
HitLines(kind, imps, mask) ==
  LET paired(i) == kind = "ImprintSIMD64IndexWithoutCompression"
                     /\ i <= 2 * (Len(imps) \div 2)
      twin(i) == IF ~paired(i) THEN i ELSE IF i % 2 = 0 THEN i - 1 ELSE i + 1
  IN  {i \in DOMAIN imps : Hits(imps[i], mask) \/ Hits(imps[twin(i)], mask)}

ExactWithoutCompression(kind, index, q) ==
  LET imprints == index.imps[0]
      mask == make_mask_exact(imprints.bins, q.lower[0])
  IN  FirstEqual(UNION {Following((i - 1) * LINE, LINE) :
                          i \in HitLines(kind, imprints.imps, mask)},
                 q.lower, index.cols)
=============================================================================
