-------------------------- MODULE BitWeavingIndex --------------------------
(***************************************************************************)
(* BitWeaving (src/bitweaving.cpp), the index that keeps a table of the    *)
(* library in memory: one column for each dimension, a scan for each       *)
(* condition of a query, the TIDs of the bit vector as its answer.  It     *)
(* ignores the status of every call.  A store is a function from TIDs to   *)
(* rows, a row a function from dimensions to values.                       *)
(***************************************************************************)
EXTENDS BwIterator

\* buildIndex: the columns are added to the empty table, then loaded.
BuildIndex(store, dims, ctype, sizes, junk) ==
  LET added[d \in 0..dims] ==
        IF d = 0 THEN NewTable
        ELSE AddColumn(added[d - 1], d - 1, ctype, sizes[d - 1], junk)
      codes(d) == [t \in 1..Cardinality(DOMAIN store) |-> store[t - 1][d]]
      loaded[d \in 0..dims] ==
        IF d = 0 THEN [ok |-> TRUE, table |-> added[dims]]
        ELSE IF ~loaded[d - 1].ok THEN loaded[d - 1]
        ELSE Bulkload(loaded[d - 1].table, d - 1, codes(d - 1), 0, junk)
  IN  loaded[dims]

Literal(cmp, literal) == [kind |-> "literal", cmp |-> cmp, literal |-> literal]
Between(low, high) ==
  [kind |-> "between", literal |-> low, literal2 |-> high]

\* exactMatch: the tuples with the value of dimension 0, in their order, until
\* the row of one is the point that is looked for.
IndexExactMatch(table, store, point, NOT_FOUND) ==
  LET bv == ColumnScan(table.map[0], Literal("kEqual", point[0]), "kSet",
                       NewBitVector(table.num))
      matching == SelectSeq(Walk(bv), LAMBDA t : store[t] = point)
  IN  IF matching = <<>> THEN NOT_FOUND ELSE Head(matching)

\* Variant: an open upper end for equal bounds.
ConditionFrom(low, high) ==
  IF low = high THEN Literal("kGreaterEqual", low) ELSE Between(low, high)

\* The condition on one dimension of windowQuery and partialMatch.
Condition(low, high) ==
  IF low = high THEN Literal("kEqual", low) ELSE Between(low, high)

\* The scans of the dimensions in dims, each kAnd with what there is.
Filter(table, lower, upper, dims, bv) ==
  FoldLeft(LAMBDA v, d : ColumnScan(table.map[d], Condition(lower[d], upper[d]),
                                    "kAnd", v), bv, dims)

IndexWindowQuery(table, lower, upper) ==
  LET first == ColumnScan(table.map[0], Between(lower[0], upper[0]), "kAnd",
                          NewBitVector(table.num))
  IN  toTids(Filter(table, lower, upper,
               [i \in 1..(Cardinality(DOMAIN table.map) - 1) |-> i], first))

\* partialMatch sets the vector with its first condition, and filters it with
\* all of them, the first once more.
IndexPartialMatch(table, lower, upper, columnsForSelect) ==
  LET dims == SelectSeq([i \in 1..Cardinality(DOMAIN table.map) |-> i - 1],
                        LAMBDA d : columnsForSelect[d])
      first == ColumnScan(table.map[Head(dims)],
                          Between(lower[Head(dims)], upper[Head(dims)]),
                          "kSet", NewBitVector(table.num))
  IN  toTids(Filter(table, lower, upper, dims, first))
=============================================================================
