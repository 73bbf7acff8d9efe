----------------------------- MODULE MCWorkload -----------------------------
EXTENDS Workload

\* Cache lines of 8 rows.  In a table of 9 or 12 rows some are left over behind
\* the last register, in one of 16 none is.
Table(n, Value(_, _)) == [t \in 0..(n - 1) |-> [d \in Dims |-> Value(t, d)]]

\* Dates up to 2525; discounts, quantities and so on as in LineItem.
Limits == <<2526, 11, 51, 2, 3, 4, 3>>
Steps == <<389, 3, 7, 1, 1, 3, 1>>
LineItems(t, d) == (t * Steps[d + 1]) % Limits[d + 1]

\* A first column of few values, brands up to 24, containers up to 39.
PartLimits == <<3, 25, 40, 16, 7, 5, 3>>
Parts(t, d) == (t * t + (d * t) + d) % PartLimits[d + 1]

\* Three cache lines with equal imprints, another one, and one of one row.
Repeated(t, d) == ((t % 8) * (d + 1)) + (IF t < 24 THEN 0 ELSE (t \div 24) * 3)

\* Bounds at both ends of the registers' range.
Extremes(t, d) ==
  IF (t + d) % 5 = 0 THEN DIM_MAX ELSE ((t * 3) + d) % 4

MCTables == {Table(9, LineItems), Table(12, Parts), Table(33, Repeated),
             Table(16, Extremes)}

\* The two queries of Q14 are for the months k and k + 30: the remainders of 5
\* and 12 are those of k, and of k + 30 from the seventh number on, so that the
\* streams together have every month of the five years.
Drawn(k) ==
  [i \in 1..16 |->
     IF i % 2 = 1 THEN k + (5 * i * (k + i))
     ELSE k + (IF i > 6 THEN 30 ELSE 0) + (12 * i * (k + i))]
MCStreams == {Drawn(k) : k \in 0..29}

MCProjections == <<<<0, 5>>, <<1, 3>>, <<2, 6>>, <<4, 4>>>>
=============================================================================
