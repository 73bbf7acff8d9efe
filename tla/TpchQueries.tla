---------------------------- MODULE TpchQueries ----------------------------
(***************************************************************************)
(* The bounds of the TPC-H queries (src/tpc_h.h, with ORDER_Q6).  For one  *)
(* query of a PartialMatchQueries an update is a function from the         *)
(* dimensions that it selects to their bounds, <<lower, upper>>; the       *)
(* bounds of the others are 0.  r is what the calls of rand() return.      *)
(***************************************************************************)
EXTENDS Integers, Sequences

DATE_COLUMN == 0
DISCOUNT_COLUMN == 1
QUANTITY_COLUMN == 2
LINESTATUS == 3
RETURNFLAG == 4
SHIPINSTR == 5

Exactly(value) == <<value, value>>

\* The function f with y at x, and the one that has nothing else.
With(f, x, y) == [e \in DOMAIN f \cup {x} |-> IF e = x THEN y ELSE f[e]]
Only(x, y) == [e \in {x} |-> y]
-----------------------------------------------------------------------------
(* LineItem *)

generateQ1EndDate(random) == (random % 120) + 2406
updateQ1(r) == Only(DATE_COLUMN, <<0, generateQ1EndDate(r[1])>>)

\* The first days of the years from 1992 on, and the bounds of one of them.
StartDates == <<0, 365, 730, 1095, 1460, 1826, 2191>>
YearOf(random) ==
  <<StartDates[(random % 6) + 1], StartDates[(random % 6) + 2] - 1>>
DiscountOf(random) == <<(random % 8) + 1, (random % 8) + 3>>
QuantityOf(random) == <<0, IF random % 2 = 0 THEN 24 ELSE 25>>

updateQ6(r) ==
  With(With(Only(DATE_COLUMN, YearOf(r[1])),
            DISCOUNT_COLUMN, DiscountOf(r[2])),
       QUANTITY_COLUMN, QuantityOf(r[3]))

updateQ10(r) == Only(4, Exactly(2))

\* A year from 1993 on and a month, every year with 365 days.
MonthLengths == <<31, 28, 31, 30, 31, 30, 31, 31, 30, 31, 30, 31>>
beginMonth[month \in 0..11] ==
  IF month = 0 THEN 0 ELSE beginMonth[month - 1] + MonthLengths[month]
\* Variant: the years begin with 1992.
MonthOf1992(year, month) ==
  <<year * 365 + beginMonth[month],
    year * 365 + beginMonth[month] + MonthLengths[month + 1]>>

MonthOf(year, month) ==
  <<365 + year * 365 + beginMonth[month],
    365 + year * 365 + beginMonth[month] + MonthLengths[month + 1]>>
updateQ14(r) == Only(DATE_COLUMN, MonthOf(r[1] % 5, r[2] % 12))

\* updateLQ19_1, 2 and 3 add 0, 10 and 20 to the quantities.
LQ19(random, add) ==
  With(With(Only(2, <<(random % 10) + add, (random % 10) + add + 9>>),
            5, Exactly(1)),
       6, <<0, 1>>)
updateLQ19_1(r) == LQ19(r[1], 0)
updateLQ19_2(r) == LQ19(r[1], 10)
updateLQ19_3(r) == LQ19(r[1], 20)

\* Queries of four to six columns.
updateVeit(r) == With(updateQ6(r), LINESTATUS, Exactly(r[4] % 2))
updateVeit5(r) ==
  With(updateVeit(r), RETURNFLAG, <<r[5] % 2, (r[5] % 2) + 1>>)
updateVeit6(r) ==
  With(updateVeit5(r), SHIPINSTR, <<r[6] % 3, (r[6] % 3) + 1>>)
-----------------------------------------------------------------------------
(* Part: brand, container and, in Q19, quantity. *)

updateQ17(r) == With(Only(1, Exactly(r[1] % 25)), 2, Exactly(r[2] % 40))
Q19(random, container, quantity) ==
  With(With(Only(1, Exactly(random % 25)), 2, container), 3, quantity)
updateQ19_1(r) == Q19(r[1], <<25, 28>>, <<0, 4>>)
updateQ19_2(r) == Q19(r[1], <<16, 19>>, <<0, 9>>)
updateQ19_3(r) == Q19(r[1], <<9, 12>>, <<0, 14>>)
-----------------------------------------------------------------------------
\* The update of that name, and how often it calls rand() for one query.
Update(name, r) ==
  CASE name = "Q1"     -> updateQ1(r)     [] name = "Q6"     -> updateQ6(r)
    [] name = "Q10"    -> updateQ10(r)    [] name = "Q14"    -> updateQ14(r)
    [] name = "LQ19_1" -> updateLQ19_1(r) [] name = "LQ19_2" -> updateLQ19_2(r)
    [] name = "LQ19_3" -> updateLQ19_3(r) [] name = "Q17"    -> updateQ17(r)
    [] name = "Q19_1"  -> updateQ19_1(r)  [] name = "Q19_2"  -> updateQ19_2(r)
    [] name = "Q19_3"  -> updateQ19_3(r)  [] name = "Veit"   -> updateVeit(r)
    [] name = "Veit5"  -> updateVeit5(r)  [] name = "Veit6"  -> updateVeit6(r)

Rands(name) ==
  CASE name = "Q10" -> 0
    [] name \in {"Q14", "Q17"} -> 2
    [] name = "Q6" -> 3
    [] name = "Veit" -> 4
    [] name = "Veit5" -> 5
    [] name = "Veit6" -> 6
    [] OTHER -> 1

\* The first days of the months of 1993 to 1997 as the program counts days,
\* with a leap day in 1996: what the bounds of Q14 should be.
FirstDay(year, month) ==
  StartDates[year + 2] + beginMonth[month]
    + (IF year = 3 /\ month > 1 THEN 1 ELSE 0)
DaysOf(year, month) ==
  MonthLengths[month + 1] + (IF year = 3 /\ month = 1 THEN 1 ELSE 0)
=============================================================================
