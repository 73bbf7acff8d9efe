------------------------------- MODULE Store -------------------------------
(***************************************************************************)
(* The table that the indexes are built on (src/Store.h), the queries, and *)
(* what the tests of src/Util.h say of a row and a query.  STORE is a      *)
(* function from TIDs to rows, a row a function from dimensions to values. *)
(***************************************************************************)
EXTENDS Naturals, FiniteSets

CONSTANTS NUM_DIM,    \* dimensions of a row
          Tables,     \* the tables
          Queries,    \* the queries
          NOT_FOUND,  \* -1: what exactMatch returns when there is no such row
          NoQuery     \* no query is being answered

Dims == 0..(NUM_DIM - 1)
Points == [Dims -> Nat]

\* exactMatch has one point and windowQuery all columns.  A table has a row:
\* the driver reads none that is empty.
ASSUME StoreAssumption ==
  /\ NUM_DIM \in Nat /\ NUM_DIM >= 1
  /\ \A s \in Tables : /\ IsFiniteSet(DOMAIN s) /\ DOMAIN s # {}
                       /\ s \in [0..(Cardinality(DOMAIN s) - 1) -> Points]
                       /\ NOT_FOUND \notin DOMAIN s
  /\ \A q \in Queries :
       /\ q \in [op : {"exact", "window", "partial"}, lower : Points,
                 upper : Points, columns : [Dims -> BOOLEAN]]
       /\ q.op # "partial" => \A d \in Dims : q.columns[d]
       /\ q.op = "exact" => q.lower = q.upper
  /\ NoQuery \notin Queries
-----------------------------------------------------------------------------
\* The bounds of q on dimension d.
isIn(q, d, value) == q.lower[d] <= value /\ value <= q.upper[d]

\* isPartiallyIn, isIn and isEqual on a whole row.
Accepts(q, point) == \A d \in Dims : q.columns[d] => isIn(q, d, point[d])

\* The TIDs that a loop over the whole table accepts.
Scan(s, q) == {t \in DOMAIN s : Accepts(q, s[t])}

\* What the loop returns: the first TID for exactMatch, otherwise all of them.
ScanAnswer(s, q) ==
  CASE q.op # "exact"   -> Scan(s, q)
    [] q.op = "exact" /\ Scan(s, q) = {} -> {NOT_FOUND}
    [] OTHER -> {t \in Scan(s, q) : \A u \in Scan(s, q) : t <= u}
=============================================================================
