----------------------------- MODULE MCElfIndex -----------------------------
(***************************************************************************)
(* Instances of ElfIndex: three dimensions, the tables of up to three rows *)
(* in descending order, those of four rows with two values on dimension 1, *)
(* and all queries.  ElfIndex takes groups of rows as sets, so that the    *)
(* order of the rows in a table only renames their TIDs.                   *)
(***************************************************************************)
EXTENDS ElfIndex

MCRows == {r \in [0..2 -> 0..2] : r[0] <= 1 /\ r[2] <= 1}

\* All tables of n rows whose first dimension is dense.
DenseTables(n) ==
  {s \in [0..(n - 1) -> MCRows] :
     \A t \in 0..(n - 1) : \A v \in 0..s[t][0] : \E u \in 0..(n - 1) : s[u][0] = v}

\* The rows are distinct.
Distinct(s) == \A t, u \in DOMAIN s : s[t] = s[u] => t = u

RowRank(r) == 6 * r[0] + 2 * r[1] + r[2]
Descending(s) == \A t \in DOMAIN s \ {0} : RowRank(s[t]) <= RowRank(s[t - 1])

MCTables == {s \in UNION {DenseTables(n) : n \in 1..4} :
               /\ Descending(s)
               /\ Cardinality(DOMAIN s) = 4 => \A t \in DOMAIN s : s[t][1] <= 1}

\* Two rows that differ in dimension 0: the last group has a single row.
SingletonTables == {s \in DenseTables(2) : Distinct(s) /\ s[0][0] # s[1][0]}

Bounds(op, columns) ==
  {[op |-> op, lower |-> lo, upper |-> up, columns |-> columns] :
     lo \in MCRows, up \in MCRows}

\* A column that is not selected has the bounds 0 and 0.
Normal(q) == \A d \in 0..2 : /\ q.lower[d] <= q.upper[d]
                             /\ ~q.columns[d] => q.upper[d] = 0

AllColumns == [d \in 0..2 |-> TRUE]

MCQueries == {q \in UNION {Bounds("partial", c) : c \in [0..2 -> BOOLEAN]}
                    \cup Bounds("window", AllColumns) : Normal(q)}
             \cup {q \in Bounds("exact", AllColumns) : q.lower = q.upper}
=============================================================================
