------------------------------ MODULE MCKDTree ------------------------------
(***************************************************************************)
(* Two dimensions with three and two values: all tables of one to three    *)
(* rows, those of four rows with two values in each dimension, so that a   *)
(* path can go through each dimension twice, and all queries with bounds   *)
(* that are in order.                                                      *)
(***************************************************************************)
EXTENDS KDTree

MCPoints == {p \in [0..1 -> 0..2] : p[1] <= 1}
MCTables == UNION {[0..(n - 1) -> MCPoints] : n \in 1..3}
            \cup [0..3 -> [0..1 -> 0..1]]

Bounds(op, columns) ==
  {[op |-> op, lower |-> lo, upper |-> up, columns |-> columns] :
     lo \in MCPoints, up \in MCPoints}

\* A column that is not selected has the bounds 0 and 0.
Normal(q) == \A d \in 0..1 : /\ q.lower[d] <= q.upper[d]
                             /\ ~q.columns[d] => q.upper[d] = 0

AllColumns == [d \in 0..1 |-> TRUE]

MCQueries == {q \in UNION {Bounds("partial", c) : c \in [0..1 -> BOOLEAN]}
                    \cup Bounds("window", AllColumns) : Normal(q)}
             \cup {q \in Bounds("exact", AllColumns) : q.lower = q.upper}
=============================================================================
