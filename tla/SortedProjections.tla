------------------------- MODULE SortedProjections -------------------------
(***************************************************************************)
(* SortedProjection (src/sortedProjections.h): copies of some consecutive  *)
(* dimensions of the table, each sorted by the first of them, and binary   *)
(* search on that.                                                         *)
(***************************************************************************)
EXTENDS ColumnScans, SortingEngine

CONSTANT Projections  \* the pairs of beginDims and endDims, a sequence

\* exactMatch takes the first projection to begin with dimension 0.
ASSUME ProjectionsAssumption ==
  /\ Projections # <<>> /\ Projections[1][1] = 0 /\ Projections[1][2] >= 1
  /\ \A i \in DOMAIN Projections :
       Projections[i][1] <= Projections[i][2] /\ Projections[i][2] \in Dims

\* What readTBL finds out about the table.
maxDims(s) == [d \in Dims |-> Max({s[t][d] : t \in DOMAIN s})]

\* buildIndex: the order of the rows in each projection.  sort is told to look
\* at the first dimension of the copy, and takes the largest value of dimension
\* 0 of the table for the largest one there.
SortedRows(s, first) ==
  sort([t \in DOMAIN s |-> t], [t \in DOMAIN s |-> s[t][first]], maxDims(s)[0])
BuildProjections(s) ==
  [i \in DOMAIN Projections |-> SortedRows(s, Projections[i][1])]

\* std::lower_bound and std::upper_bound: halve what is left until nothing is.
PartitionPoint(before, n) ==
  LET point[begin \in 0..n, len \in 0..n] ==
        IF len = 0 THEN begin
        ELSE LET half == len \div 2
                 middle == begin + half
             IN  IF before[middle] THEN point[middle + 1, len - half - 1]
                 ELSE point[begin, half]
  IN  point[0, n]

lower_bound(values, value) ==
  PartitionPoint([i \in DOMAIN values |-> values[i] < value], Length(values))
upper_bound(values, value) ==
  PartitionPoint([i \in DOMAIN values |-> values[i] <= value], Length(values))
FirstColumn(s, order, first) == [i \in DOMAIN order |-> s[order[i]][first]]

\* exactMatch walks over the rows that begin as the query does.  It compares
\* the dimensions before the last one of the projection.
ProjectionExactMatch(s, projections, q) ==
  LET order == projections[1]
      column == FirstColumn(s, order, Projections[1][1])
      begin == lower_bound(column, q.lower[0])
      walked == {i \in DOMAIN order :
                   i >= begin /\ \A j \in begin..i : column[j] = q.lower[0]}
      equal == {i \in walked : \A d \in 1..(Projections[1][2] - 1) :
                                 s[order[i]][d] = q.lower[d]}
  IN  IF equal = {} THEN NOT_FOUND ELSE order[Min(equal)]

\* The first projection that begins with the first column of the query.
Suitable(q) ==
  {i \in DOMAIN Projections :
     Projections[i][1] = Min({d \in Dims : q.columns[d]})}

\* partialMatch looks at the dimensions of the projection only.  For each row
\* that it accepts it returns what comes in memory after the TID.
ProjectionMatches(s, projections, q) ==
  LET i == Min(Suitable(q))
      first == Projections[i][1]
      order == projections[i]
      column == FirstColumn(s, order, first)
  IN  {order[tid] : tid \in
         {j \in lower_bound(column, q.lower[first])
                  ..(upper_bound(column, q.upper[first]) - 1) :
            \A d \in (first + 1)..Projections[i][2] :
              q.columns[d] => isIn(q, d, s[order[j]][d])}}
=============================================================================
