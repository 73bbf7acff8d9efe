--------------------------- MODULE WorkloadProofs ---------------------------
(***************************************************************************)
(* Proofs about Workload: for every table, every stream of random numbers  *)
(* and every number of queries, the bounds that the driver generates are   *)
(* those of its statements, and a comparison lets only lost TIDs pass that *)
(* the junk of another answer hides.                                       *)
(***************************************************************************)
EXTENDS Workload, FiniteSetTheorems, SequenceTheorems, WellFoundedInduction,
        TLAPS

(* The updates of src/tpc_h.h. *)

LastDate == 2525

\* Bounds that are dates, the lower one first.
DatesOK(b) ==
  /\ b[1] \in Nat /\ b[2] \in Nat
  /\ b[1] <= b[2] /\ b[2] <= LastDate

\* An update of the columns S.
UpdateOK(f, S) == DOMAIN f = S /\ \A d \in S : DatesOK(f[d])

LEMMA OnlyOK ==
  ASSUME NEW x, NEW b, DatesOK(b)
  PROVE  UpdateOK(Only(x, b), {x})
BY DEF UpdateOK, Only

LEMMA WithOK ==
  ASSUME NEW f, NEW S, UpdateOK(f, S), NEW x, NEW b, DatesOK(b)
  PROVE  UpdateOK(With(f, x, b), S \cup {x})
BY DEF UpdateOK, With

\* The first days of the months, counted from the first day of the year.
LEMMA BeginOfMonths ==
  beginMonth = [month \in 0..11 |->
    <<0, 31, 59, 90, 120, 151, 181, 212, 243, 273, 304, 334>>[month + 1]]
<1> DEFINE table == [month \in 0..11 |->
      <<0, 31, 59, 90, 120, 151, 181, 212, 243, 273, 304, 334>>[month + 1]]
    begin(f) == [month \in 0..11 |->
      IF month = 0 THEN 0 ELSE f[month - 1] + MonthLengths[month]]
<1>1. table = begin(table)
  BY DEF MonthLengths
<1>2. beginMonth = begin(beginMonth)
  BY <1>1, Zenon DEF beginMonth
<1> HIDE DEF table
<1>3. ASSUME NEW m \in 0..11
      PROVE  /\ m = 0 => beginMonth[m] = 0
             /\ m # 0 => beginMonth[m] = beginMonth[m - 1] + MonthLengths[m]
  BY <1>2, <1>3
<1>4. /\ beginMonth[0] = 0 /\ beginMonth[1] = 31 /\ beginMonth[2] = 59
      /\ beginMonth[3] = 90 /\ beginMonth[4] = 120 /\ beginMonth[5] = 151
      /\ beginMonth[6] = 181 /\ beginMonth[7] = 212 /\ beginMonth[8] = 243
      /\ beginMonth[9] = 273 /\ beginMonth[10] = 304 /\ beginMonth[11] = 334
  BY <1>3 DEF MonthLengths
<1>5. QED
  BY <1>2, <1>4 DEF table

\* The year and the month of a query of Q14.
LEMMA MonthFacts ==
  ASSUME NEW year \in 0..4, NEW month \in 0..11
  PROVE  /\ beginMonth[month] \in 0..334
         /\ MonthLengths[month + 1] \in 28..31
         /\ DatesOK(MonthOf(year, month))
<1>1. beginMonth[month] \in 0..334 /\ MonthLengths[month + 1] \in 28..31
  BY BeginOfMonths DEF MonthLengths
<1>2. DatesOK(MonthOf(year, month))
  <2> DEFINE begin == beginMonth[month]
             length == MonthLengths[month + 1]
  <2>1. begin \in 0..334 /\ length \in 28..31
    BY <1>1
  <2>2. MonthOf(year, month)
          = <<365 + year * 365 + begin, 365 + year * 365 + begin + length>>
    BY DEF MonthOf
  <2> HIDE DEF begin, length
  <2>3. QED
    BY <2>1, <2>2 DEF DatesOK, LastDate
<1>3. QED
  BY <1>1, <1>2

UpdateNames == {"Q1", "Q6", "Q10", "Q14", "LQ19_1", "LQ19_2", "LQ19_3", "Q17",
                "Q19_1", "Q19_2", "Q19_3", "Veit", "Veit5", "Veit6"}

\* The columns that an update selects, whatever the random numbers are.
UpdateColumns(name) ==
  CASE name \in {"Q1", "Q14"} -> {0}
    [] name = "Q10" -> {4}
    [] name \in {"LQ19_1", "LQ19_2", "LQ19_3"} -> {2, 5, 6}
    [] name = "Q17" -> {1, 2}
    [] name \in {"Q19_1", "Q19_2", "Q19_3"} -> {1, 2, 3}
    [] name = "Q6" -> {0, 1, 2}
    [] name = "Veit" -> {0, 1, 2, 3}
    [] name = "Veit5" -> {0, 1, 2, 3, 4}
    [] name = "Veit6" -> {0, 1, 2, 3, 4, 5}

LEMMA WithDomain ==
  ASSUME NEW f, NEW x, NEW y
  PROVE  DOMAIN With(f, x, y) = DOMAIN f \cup {x}
BY DEF With

LEMMA OnlyDomain ==
  ASSUME NEW x, NEW y
  PROVE  DOMAIN Only(x, y) = {x}
BY DEF Only

LEMMA ColumnsOfUpdates ==
  ASSUME NEW name \in UpdateNames, NEW r
  PROVE  DOMAIN Update(name, r) = UpdateColumns(name)
<1> USE DEF DATE_COLUMN, DISCOUNT_COLUMN, QUANTITY_COLUMN, LINESTATUS,
            RETURNFLAG, SHIPINSTR
<1>1. CASE name = "Q1"
  BY <1>1, WithDomain, OnlyDomain DEF Update, UpdateColumns, updateQ1
<1>2. CASE name = "Q10"
  BY <1>2, WithDomain, OnlyDomain DEF Update, UpdateColumns, updateQ10
<1>3. CASE name = "Q14"
  BY <1>3, WithDomain, OnlyDomain DEF Update, UpdateColumns, updateQ14
<1>4. ASSUME NEW random, NEW add
      PROVE  DOMAIN LQ19(random, add) = {2, 5, 6}
  BY DEF LQ19, With, Only
<1>5. CASE name \in {"LQ19_1", "LQ19_2", "LQ19_3"}
  BY <1>4, <1>5 DEF Update, UpdateColumns, updateLQ19_1, updateLQ19_2,
                    updateLQ19_3
<1>6. CASE name = "Q17"
  BY <1>6 DEF Update, UpdateColumns, updateQ17, With, Only
<1>7. ASSUME NEW random, NEW container, NEW quantity
      PROVE  DOMAIN Q19(random, container, quantity) = {1, 2, 3}
  BY DEF Q19, With, Only
<1>8. CASE name \in {"Q19_1", "Q19_2", "Q19_3"}
  BY <1>7, <1>8 DEF Update, UpdateColumns, updateQ19_1, updateQ19_2,
                    updateQ19_3
<1>9. DOMAIN updateQ6(r) = {0, 1, 2}
  BY DEF updateQ6, With, Only
<1>10. DOMAIN updateVeit(r) = {0, 1, 2, 3}
  BY <1>9 DEF updateVeit, With
<1>11. DOMAIN updateVeit5(r) = {0, 1, 2, 3, 4}
  BY <1>10 DEF updateVeit5, With
<1>12. DOMAIN updateVeit6(r) = {0, 1, 2, 3, 4, 5}
  BY <1>11 DEF updateVeit6, With
<1>13. CASE name \in {"Q6", "Veit", "Veit5", "Veit6"}
  BY <1>9, <1>10, <1>11, <1>12, <1>13 DEF Update, UpdateColumns
<1>14. QED
  BY <1>1, <1>2, <1>3, <1>5, <1>6, <1>8, <1>13 DEF UpdateNames

LEMMA RandsOfUpdates ==
  ASSUME NEW name \in UpdateNames
  PROVE  /\ Rands(name) \in 0..6
         /\ name \in {"Q1", "LQ19_1", "LQ19_2", "LQ19_3", "Q19_1", "Q19_2",
                      "Q19_3"} => Rands(name) = 1
         /\ name \in {"Q14", "Q17"} => Rands(name) = 2
         /\ name = "Q6" => Rands(name) = 3
         /\ name = "Veit" => Rands(name) = 4
         /\ name = "Veit5" => Rands(name) = 5
         /\ name = "Veit6" => Rands(name) = 6
BY DEF UpdateNames, Rands

\* The bounds of an update are dates, the lower ones first.
LEMMA BoundsOfUpdates ==
  ASSUME NEW name \in UpdateNames, NEW r \in [1..Rands(name) -> Nat]
  PROVE  UpdateOK(Update(name, r), UpdateColumns(name))
<1> USE DEF DATE_COLUMN, DISCOUNT_COLUMN, QUANTITY_COLUMN, LINESTATUS,
            RETURNFLAG, SHIPINSTR
<1>0. ASSUME NEW n \in 1..Rands(name)
      PROVE  r[n] \in Nat
  BY <1>0
<1>1. CASE name = "Q1"
  <2>1. r[1] \in Nat
    BY <1>0, <1>1, RandsOfUpdates
  <2>2. DatesOK(<<0, generateQ1EndDate(r[1])>>)
    BY <2>1 DEF DatesOK, generateQ1EndDate, LastDate
  <2>3. QED
    BY <1>1, <2>2, OnlyOK DEF Update, UpdateColumns, updateQ1
<1>2. CASE name = "Q10"
  <2>1. DatesOK(Exactly(2))
    BY DEF DatesOK, Exactly, LastDate
  <2>2. QED
    BY <1>2, <2>1, OnlyOK DEF Update, UpdateColumns, updateQ10
<1>3. CASE name = "Q14"
  <2> DEFINE year == r[1] % 5
             month == r[2] % 12
  <2>1. r[1] \in Nat /\ r[2] \in Nat
    BY <1>0, <1>3, RandsOfUpdates
  <2>2. year \in 0..4 /\ month \in 0..11
    BY <2>1
  <2> HIDE DEF year, month
  <2>3. DatesOK(MonthOf(year, month))
    BY <2>2, MonthFacts
  <2>4. QED
    BY <1>3, <2>3, OnlyOK DEF Update, UpdateColumns, updateQ14, year, month
<1>4. ASSUME NEW random \in Nat, NEW add \in 0..20
      PROVE  UpdateOK(LQ19(random, add), {2, 5, 6})
  <2> DEFINE quantity == <<(random % 10) + add, (random % 10) + add + 9>>
             once == Exactly(1)
             instr == <<0, 1>>
  <2>1. DatesOK(quantity) /\ DatesOK(once) /\ DatesOK(instr)
    BY DEF DatesOK, Exactly, LastDate
  <2> HIDE DEF quantity, once, instr
  <2>2. UpdateOK(With(With(Only(2, quantity), 5, once), 6, instr),
                 ({2} \cup {5}) \cup {6})
    BY <2>1, OnlyOK, WithOK
  <2>3. ({2} \cup {5}) \cup {6} = {2, 5, 6}
    OBVIOUS
  <2>4. LQ19(random, add) = With(With(Only(2, quantity), 5, once), 6, instr)
    BY DEF LQ19, quantity, once, instr
  <2>5. QED
    BY <2>2, <2>3, <2>4
<1>5. CASE name \in {"LQ19_1", "LQ19_2", "LQ19_3"}
  <2>1. r[1] \in Nat
    BY <1>0, <1>5, RandsOfUpdates
  <2>2. /\ UpdateOK(updateLQ19_1(r), {2, 5, 6})
        /\ UpdateOK(updateLQ19_2(r), {2, 5, 6})
        /\ UpdateOK(updateLQ19_3(r), {2, 5, 6})
    BY <1>4, <2>1 DEF updateLQ19_1, updateLQ19_2, updateLQ19_3
  <2>3. QED
    BY <1>5, <2>2 DEF Update, UpdateColumns
<1>6. CASE name = "Q17"
  <2> DEFINE brand == Exactly(r[1] % 25)
             container == Exactly(r[2] % 40)
  <2>1. r[1] \in Nat /\ r[2] \in Nat
    BY <1>0, <1>6, RandsOfUpdates
  <2>2. DatesOK(brand) /\ DatesOK(container)
    BY <2>1 DEF DatesOK, Exactly, LastDate
  <2> HIDE DEF brand, container
  <2>3. UpdateOK(With(Only(1, brand), 2, container), {1} \cup {2})
    BY <2>2, OnlyOK, WithOK
  <2>4. {1} \cup {2} = {1, 2}
    OBVIOUS
  <2>5. QED
    BY <1>6, <2>3, <2>4 DEF Update, UpdateColumns, updateQ17, brand, container
<1>7. ASSUME NEW random \in Nat, NEW container, NEW quantity,
             DatesOK(container), DatesOK(quantity)
      PROVE  UpdateOK(Q19(random, container, quantity), {1, 2, 3})
  <2> DEFINE brand == Exactly(random % 25)
  <2>1. DatesOK(brand)
    BY DEF DatesOK, Exactly, LastDate
  <2> HIDE DEF brand
  <2>2. UpdateOK(With(With(Only(1, brand), 2, container), 3, quantity),
                 ({1} \cup {2}) \cup {3})
    BY <1>7, <2>1, OnlyOK, WithOK
  <2>3. ({1} \cup {2}) \cup {3} = {1, 2, 3}
    OBVIOUS
  <2>4. QED
    BY <2>2, <2>3 DEF Q19, brand
<1>8. CASE name \in {"Q19_1", "Q19_2", "Q19_3"}
  <2>1. r[1] \in Nat
    BY <1>0, <1>8, RandsOfUpdates
  <2>2. /\ DatesOK(<<25, 28>>) /\ DatesOK(<<0, 4>>)
        /\ DatesOK(<<16, 19>>) /\ DatesOK(<<0, 9>>)
        /\ DatesOK(<<9, 12>>) /\ DatesOK(<<0, 14>>)
    BY DEF DatesOK, LastDate
  <2>3. /\ UpdateOK(updateQ19_1(r), {1, 2, 3})
        /\ UpdateOK(updateQ19_2(r), {1, 2, 3})
        /\ UpdateOK(updateQ19_3(r), {1, 2, 3})
    BY <1>7, <2>1, <2>2 DEF updateQ19_1, updateQ19_2, updateQ19_3
  <2>4. QED
    BY <1>8, <2>3 DEF Update, UpdateColumns
<1>9. ASSUME r[1] \in Nat, r[2] \in Nat, r[3] \in Nat
      PROVE  UpdateOK(updateQ6(r), {0, 1, 2})
  <2> DEFINE year == YearOf(r[1])
             discount == DiscountOf(r[2])
             quantity == QuantityOf(r[3])
  <2>1. DatesOK(year)
    <3> DEFINE k == r[1] % 6
    <3>1. k \in 0..5
      BY <1>9
    <3>2. year = <<StartDates[k + 1], StartDates[k + 2] - 1>>
      BY DEF YearOf
    <3> HIDE DEF k, year
    <3>3. DatesOK(<<StartDates[k + 1], StartDates[k + 2] - 1>>)
      BY <3>1 DEF DatesOK, StartDates, LastDate
    <3>4. QED
      BY <3>2, <3>3
  <2>2. DatesOK(discount) /\ DatesOK(quantity)
    BY <1>9 DEF DatesOK, DiscountOf, QuantityOf, LastDate
  <2> HIDE DEF year, quantity, discount
  <2>3. UpdateOK(With(With(Only(0, year), 1, discount), 2, quantity),
                 ({0} \cup {1}) \cup {2})
    BY <2>1, <2>2, OnlyOK, WithOK
  <2>4. ({0} \cup {1}) \cup {2} = {0, 1, 2}
    OBVIOUS
  <2>5. QED
    BY <2>3, <2>4 DEF updateQ6, year, quantity, discount
<1>10. ASSUME UpdateOK(updateQ6(r), {0, 1, 2}), r[4] \in Nat
       PROVE  UpdateOK(updateVeit(r), {0, 1, 2, 3})
  <2>1. DatesOK(Exactly(r[4] % 2))
    BY <1>10 DEF DatesOK, Exactly, LastDate
  <2>2. UpdateOK(updateVeit(r), {0, 1, 2} \cup {3})
    BY <1>10, <2>1, WithOK DEF updateVeit
  <2>3. {0, 1, 2} \cup {3} = {0, 1, 2, 3}
    OBVIOUS
  <2>4. QED
    BY <2>2, <2>3
<1>11. ASSUME UpdateOK(updateVeit(r), {0, 1, 2, 3}), r[5] \in Nat
       PROVE  UpdateOK(updateVeit5(r), {0, 1, 2, 3, 4})
  <2>1. DatesOK(<<r[5] % 2, (r[5] % 2) + 1>>)
    BY <1>11 DEF DatesOK, LastDate
  <2>2. UpdateOK(updateVeit5(r), {0, 1, 2, 3} \cup {4})
    BY <1>11, <2>1, WithOK DEF updateVeit5
  <2>3. {0, 1, 2, 3} \cup {4} = {0, 1, 2, 3, 4}
    OBVIOUS
  <2>4. QED
    BY <2>2, <2>3
<1>12. ASSUME UpdateOK(updateVeit5(r), {0, 1, 2, 3, 4}), r[6] \in Nat
       PROVE  UpdateOK(updateVeit6(r), {0, 1, 2, 3, 4, 5})
  <2>1. DatesOK(<<r[6] % 3, (r[6] % 3) + 1>>)
    BY <1>12 DEF DatesOK, LastDate
  <2>2. UpdateOK(updateVeit6(r), {0, 1, 2, 3, 4} \cup {5})
    BY <1>12, <2>1, WithOK DEF updateVeit6
  <2>3. {0, 1, 2, 3, 4} \cup {5} = {0, 1, 2, 3, 4, 5}
    OBVIOUS
  <2>4. QED
    BY <2>2, <2>3
<1>13. CASE name \in {"Q6", "Veit", "Veit5", "Veit6"}
  <2>1. /\ r[1] \in Nat /\ r[2] \in Nat /\ r[3] \in Nat
        /\ name # "Q6" => r[4] \in Nat
        /\ name \in {"Veit5", "Veit6"} => r[5] \in Nat
        /\ name = "Veit6" => r[6] \in Nat
    BY <1>0, <1>13, RandsOfUpdates
  <2>2. QED
    BY <1>9, <1>10, <1>11, <1>12, <1>13, <2>1 DEF Update, UpdateColumns
<1>14. QED
  BY <1>1, <1>2, <1>3, <1>5, <1>6, <1>8, <1>13 DEF UpdateNames

-----------------------------------------------------------------------------
(* The preparation: what its statements are, one after the other. *)

Step(c, k) == Preparation(c)[k]
NumberOfSteps(c) ==
  CASE c = "LineItem" -> 14 [] c = "Part" -> 8 [] c = "Veit" -> 6

\* The array of each PartialMatchQueries, and the columns that it ends up with.
ArrayOf(c) ==
  CASE c = "LineItem" -> <<1, 2, 3, 1, 4, 4, 4>>
    [] c = "Part" -> <<1, 2, 2, 2>>
    [] c = "Veit" -> <<1, 2, 3>>
ColumnsFor(c) ==
  CASE c = "LineItem" -> <<{0}, {0, 1, 2}, {4}, {2, 5, 6}>>
    [] c = "Part" -> <<{1, 2}, {1, 2, 3}>>
    [] c = "Veit" -> <<{0, 1, 2, 3}, {0, 1, 2, 3, 4}, {0, 1, 2, 3, 4, 5}>>

\* The statement that makes it, and the one that updates it.
NewAt(c) ==
  CASE c = "LineItem" -> <<1, 2, 5, 7, 9, 10, 11>>
    [] c = "Part" -> <<1, 2, 3, 4>>
    [] c = "Veit" -> <<1, 3, 5>>
FillAt(c) ==
  CASE c = "LineItem" -> <<3, 4, 6, 8, 12, 13, 14>>
    [] c = "Part" -> <<5, 6, 7, 8>>
    [] c = "Veit" -> <<2, 4, 6>>
PartialsOf(c) ==
  CASE c = "LineItem" -> 1..7 [] c = "Part" -> 1..4 [] c = "Veit" -> 1..3

\* The random numbers since the last srand, for one query: Spent(c)[k + 1]
\* after k statements.
Spent(c) ==
  CASE c = "LineItem" -> <<0, 2, 2, 3, 6, 2, 2, 2, 4, 2, 2, 2, 3, 4, 5>>
    [] c = "Part" -> <<0, 2, 2, 2, 2, 4, 5, 6, 7>>
    [] c = "Veit" -> <<0, 2, 6, 2, 7, 2, 8>>

\* Statement k makes p.
NewOK(c, k, p) ==
  /\ Step(c, k) = New(p, ArrayOf(c)[p])
  /\ p \in PartialsOf(c) /\ NewAt(c)[p] = k /\ k < FillAt(c)[p]
  /\ \A q \in PartialsOf(c) : (q # p => NewAt(c)[q] # k) /\ FillAt(c)[q] # k
  /\ Spent(c)[k + 1] = 2

\* Statement k updates p, which is there.
FillOK(c, k, p, name) ==
  /\ Step(c, k) = Fill(p, name)
  /\ p \in PartialsOf(c) /\ FillAt(c)[p] = k /\ NewAt(c)[p] < k
  /\ \A q \in PartialsOf(c) : (q # p => FillAt(c)[q] # k) /\ NewAt(c)[q] # k
  /\ name \in UpdateNames
  /\ ColumnsFor(c)[ArrayOf(c)[p]] = UpdateColumns(name)
  /\ Spent(c)[k + 1] = Spent(c)[k] + Rands(name)

LEMMA LineItemSteps ==
  ASSUME NEW k \in 1..14
  PROVE  \/ \E p \in PartialsOf("LineItem") : NewOK("LineItem", k, p)
         \/ \E p \in PartialsOf("LineItem"), name \in UpdateNames :
              FillOK("LineItem", k, p, name)
<1> USE DEF Step, ArrayOf, NewAt, FillAt, PartialsOf, Spent
<1>1. CASE k = 1
  <2>1. NewOK("LineItem", 1, 1)
    BY DEF NewOK, Preparation, New
  <2>2. QED
    BY <1>1, <2>1
<1>2. CASE k = 2
  <2>1. NewOK("LineItem", 2, 2)
    BY DEF NewOK, Preparation, New
  <2>2. QED
    BY <1>2, <2>1
<1>3. CASE k = 3
  <2>1. FillOK("LineItem", 3, 1, "Q1")
    BY DEF FillOK, Preparation, Fill, UpdateNames, ColumnsFor,
           UpdateColumns, Rands
  <2>2. QED
    BY <1>3, <2>1 DEF UpdateNames
<1>4. CASE k = 4
  <2>1. FillOK("LineItem", 4, 2, "Q6")
    BY DEF FillOK, Preparation, Fill, UpdateNames, ColumnsFor,
           UpdateColumns, Rands
  <2>2. QED
    BY <1>4, <2>1 DEF UpdateNames
<1>5. CASE k = 5
  <2>1. NewOK("LineItem", 5, 3)
    BY DEF NewOK, Preparation, New
  <2>2. QED
    BY <1>5, <2>1
<1>6. CASE k = 6
  <2>1. FillOK("LineItem", 6, 3, "Q10")
    BY DEF FillOK, Preparation, Fill, UpdateNames, ColumnsFor,
           UpdateColumns, Rands
  <2>2. QED
    BY <1>6, <2>1 DEF UpdateNames
<1>7. CASE k = 7
  <2>1. NewOK("LineItem", 7, 4)
    BY DEF NewOK, Preparation, New
  <2>2. QED
    BY <1>7, <2>1
<1>8. CASE k = 8
  <2>1. FillOK("LineItem", 8, 4, "Q14")
    BY DEF FillOK, Preparation, Fill, UpdateNames, ColumnsFor,
           UpdateColumns, Rands
  <2>2. QED
    BY <1>8, <2>1 DEF UpdateNames
<1>9. CASE k = 9
  <2>1. NewOK("LineItem", 9, 5)
    BY DEF NewOK, Preparation, New
  <2>2. QED
    BY <1>9, <2>1
<1>10. CASE k = 10
  <2>1. NewOK("LineItem", 10, 6)
    BY DEF NewOK, Preparation, New
  <2>2. QED
    BY <1>10, <2>1
<1>11. CASE k = 11
  <2>1. NewOK("LineItem", 11, 7)
    BY DEF NewOK, Preparation, New
  <2>2. QED
    BY <1>11, <2>1
<1>12. CASE k = 12
  <2>1. FillOK("LineItem", 12, 5, "LQ19_1")
    BY DEF FillOK, Preparation, Fill, UpdateNames, ColumnsFor,
           UpdateColumns, Rands
  <2>2. QED
    BY <1>12, <2>1 DEF UpdateNames
<1>13. CASE k = 13
  <2>1. FillOK("LineItem", 13, 6, "LQ19_2")
    BY DEF FillOK, Preparation, Fill, UpdateNames, ColumnsFor,
           UpdateColumns, Rands
  <2>2. QED
    BY <1>13, <2>1 DEF UpdateNames
<1>14. CASE k = 14
  <2>1. FillOK("LineItem", 14, 7, "LQ19_3")
    BY DEF FillOK, Preparation, Fill, UpdateNames, ColumnsFor,
           UpdateColumns, Rands
  <2>2. QED
    BY <1>14, <2>1 DEF UpdateNames
<1>15. QED
  BY <1>1, <1>2, <1>3, <1>4, <1>5, <1>6, <1>7, <1>8, <1>9, <1>10, <1>11,
     <1>12, <1>13, <1>14

LEMMA PartSteps ==
  ASSUME NEW k \in 1..8
  PROVE  \/ \E p \in PartialsOf("Part") : NewOK("Part", k, p)
         \/ \E p \in PartialsOf("Part"), name \in UpdateNames :
              FillOK("Part", k, p, name)
<1> USE DEF Step, ArrayOf, NewAt, FillAt, PartialsOf, Spent
<1>1. CASE k = 1
  <2>1. NewOK("Part", 1, 1)
    BY DEF NewOK, Preparation, New
  <2>2. QED
    BY <1>1, <2>1
<1>2. CASE k = 2
  <2>1. NewOK("Part", 2, 2)
    BY DEF NewOK, Preparation, New
  <2>2. QED
    BY <1>2, <2>1
<1>3. CASE k = 3
  <2>1. NewOK("Part", 3, 3)
    BY DEF NewOK, Preparation, New
  <2>2. QED
    BY <1>3, <2>1
<1>4. CASE k = 4
  <2>1. NewOK("Part", 4, 4)
    BY DEF NewOK, Preparation, New
  <2>2. QED
    BY <1>4, <2>1
<1>5. CASE k = 5
  <2>1. FillOK("Part", 5, 1, "Q17")
    BY DEF FillOK, Preparation, Fill, UpdateNames, ColumnsFor,
           UpdateColumns, Rands
  <2>2. QED
    BY <1>5, <2>1 DEF UpdateNames
<1>6. CASE k = 6
  <2>1. FillOK("Part", 6, 2, "Q19_1")
    BY DEF FillOK, Preparation, Fill, UpdateNames, ColumnsFor,
           UpdateColumns, Rands
  <2>2. QED
    BY <1>6, <2>1 DEF UpdateNames
<1>7. CASE k = 7
  <2>1. FillOK("Part", 7, 3, "Q19_2")
    BY DEF FillOK, Preparation, Fill, UpdateNames, ColumnsFor,
           UpdateColumns, Rands
  <2>2. QED
    BY <1>7, <2>1 DEF UpdateNames
<1>8. CASE k = 8
  <2>1. FillOK("Part", 8, 4, "Q19_3")
    BY DEF FillOK, Preparation, Fill, UpdateNames, ColumnsFor,
           UpdateColumns, Rands
  <2>2. QED
    BY <1>8, <2>1 DEF UpdateNames
<1>9. QED
  BY <1>1, <1>2, <1>3, <1>4, <1>5, <1>6, <1>7, <1>8

LEMMA VeitSteps ==
  ASSUME NEW k \in 1..6
  PROVE  \/ \E p \in PartialsOf("Veit") : NewOK("Veit", k, p)
         \/ \E p \in PartialsOf("Veit"), name \in UpdateNames :
              FillOK("Veit", k, p, name)
<1> USE DEF Step, ArrayOf, NewAt, FillAt, PartialsOf, Spent
<1>1. CASE k = 1
  <2>1. NewOK("Veit", 1, 1)
    BY DEF NewOK, Preparation, New
  <2>2. QED
    BY <1>1, <2>1
<1>2. CASE k = 2
  <2>1. FillOK("Veit", 2, 1, "Veit")
    BY DEF FillOK, Preparation, Fill, UpdateNames, ColumnsFor,
           UpdateColumns, Rands
  <2>2. QED
    BY <1>2, <2>1 DEF UpdateNames
<1>3. CASE k = 3
  <2>1. NewOK("Veit", 3, 2)
    BY DEF NewOK, Preparation, New
  <2>2. QED
    BY <1>3, <2>1
<1>4. CASE k = 4
  <2>1. FillOK("Veit", 4, 2, "Veit5")
    BY DEF FillOK, Preparation, Fill, UpdateNames, ColumnsFor,
           UpdateColumns, Rands
  <2>2. QED
    BY <1>4, <2>1 DEF UpdateNames
<1>5. CASE k = 5
  <2>1. NewOK("Veit", 5, 3)
    BY DEF NewOK, Preparation, New
  <2>2. QED
    BY <1>5, <2>1
<1>6. CASE k = 6
  <2>1. FillOK("Veit", 6, 3, "Veit6")
    BY DEF FillOK, Preparation, Fill, UpdateNames, ColumnsFor,
           UpdateColumns, Rands
  <2>2. QED
    BY <1>6, <2>1 DEF UpdateNames
<1>7. QED
  BY <1>1, <1>2, <1>3, <1>4, <1>5, <1>6

\* The statements of every configuration.
LEMMA StepsOK ==
  ASSUME NEW c \in {"LineItem", "Part", "Veit"}
  PROVE  /\ NumberOfSteps(c) \in Nat \ {0}
         /\ Len(Preparation(c)) = NumberOfSteps(c)
         /\ \A k \in 1..NumberOfSteps(c) :
              \/ \E p \in PartialsOf(c) : NewOK(c, k, p)
              \/ \E p \in PartialsOf(c), name \in UpdateNames :
                   FillOK(c, k, p, name)
         /\ \A k \in 0..NumberOfSteps(c) : Spent(c)[k + 1] \in 0..8
         /\ \A p \in PartialsOf(c) :
              /\ NewAt(c)[p] \in 1..NumberOfSteps(c)
              /\ FillAt(c)[p] \in 1..NumberOfSteps(c)
         /\ Spent(c)[1] = 0
<1>1. CASE c = "LineItem"
  BY <1>1, LineItemSteps
     DEF NumberOfSteps, Preparation, Spent, PartialsOf, NewAt, FillAt
<1>2. CASE c = "Part"
  BY <1>2, PartSteps
     DEF NumberOfSteps, Preparation, Spent, PartialsOf, NewAt, FillAt
<1>3. CASE c = "Veit"
  BY <1>3, VeitSteps
     DEF NumberOfSteps, Preparation, Spent, PartialsOf, NewAt, FillAt
<1>4. QED
  BY <1>1, <1>2, <1>3

-----------------------------------------------------------------------------
(* The queries: the invariant of the preparation. *)

ChosenInv == config \in Configs /\ stream \in Streams /\ STORE \in Tables

\* The bounds of one query, the lower ones first, within a register.
BoxOK(b) ==
  \A d \in Dims : 0 <= b.lower[d] /\ b.lower[d] <= b.upper[d]
                    /\ b.upper[d] <= DIM_MAX

\* What x, which is number p of the configuration c, is after k statements,
\* when the arrays are cols.  Its bounds are the corners of a box until they
\* are those of an update, which has made its array what it is.
PartialOK(c, k, cols, p, x) ==
  /\ x = [bounds |-> x.bounds, array |-> x.array, name |-> x.name]
  /\ x.array = ArrayOf(c)[p] /\ x.array \in DOMAIN cols
  /\ DOMAIN x.bounds = 1..NUM_Partials
  /\ \/ /\ x.name = "random" /\ k < FillAt(c)[p]
        /\ \A i \in 1..NUM_Partials : BoxOK(x.bounds[i])
     \/ /\ x.name \in UpdateNames
        /\ cols[x.array] = UpdateColumns(x.name)
        /\ ColumnsFor(c)[x.array] = UpdateColumns(x.name)
        /\ \A i \in 1..NUM_Partials : \E r \in [1..Rands(x.name) -> Nat] :
             x.bounds[i] = Bounds(Update(x.name, r))

PrepInv ==
  /\ done \in 0..NumberOfSteps(config)
  /\ next = "prepare" <=> done < NumberOfSteps(config)
  /\ drawn = Spent(config)[done + 1] * NUM_Partials
  /\ partials = [p \in DOMAIN partials |-> partials[p]]
  /\ columns = [a \in DOMAIN columns |-> columns[a]]
  /\ DOMAIN partials = {p \in PartialsOf(config) : NewAt(config)[p] <= done}
  /\ \A p \in DOMAIN partials :
       PartialOK(config, done, columns, p, partials[p])

LEMMA Configurations ==
  ASSUME ChosenInv
  PROVE  /\ config \in {"LineItem", "Part", "Veit"}
         /\ NUM_Partials \in Nat \ {0}
         /\ stream \in Seq(Nat) /\ Len(stream) >= 8 * NUM_Partials
         /\ \A n \in 1..(8 * NUM_Partials) : stream[n] \in Nat
BY WorkloadAssumption DEF ChosenInv

\* Values and dates are in the range of a register.
LEMMA Registers ==
  ASSUME ChosenInv
  PROVE  /\ DIM_MAX \in Int /\ LastDate <= DIM_MAX
         /\ \A t \in DOMAIN STORE, d \in Dims :
              STORE[t][d] \in Nat /\ STORE[t][d] <= DIM_MAX
         /\ NumPoints(STORE) \in Nat \ {0}
         /\ DOMAIN STORE = 0..(NumPoints(STORE) - 1)
<1>1. DIM_MAX \in Int
  BY BitmapsAssumption DEF DIM_MAX
<1>2. LastDate <= DIM_MAX
  BY <1>1, WorkloadAssumption DEF LastDate, generateQ1EndDate
<1>3. /\ IsFiniteSet(DOMAIN STORE) /\ DOMAIN STORE # {}
      /\ STORE \in [0..(Cardinality(DOMAIN STORE) - 1) -> Points]
  BY StoreAssumption DEF ChosenInv
<1>4. \A t \in DOMAIN STORE, d \in Dims :
        STORE[t][d] \in Nat /\ STORE[t][d] <= DIM_MAX
  BY <1>3, WorkloadAssumption DEF ChosenInv, Points
<1>5. Cardinality(DOMAIN STORE) \in Nat
  BY <1>3, FS_CardinalityType
<1>6. NumPoints(STORE) \in Nat \ {0}
  BY <1>3, <1>5, FS_EmptySet DEF NumPoints
<1>7. QED
  BY <1>1, <1>2, <1>3, <1>4, <1>6 DEF NumPoints

\* The corners of a box are in order.
LEMMA RandomRangesOK ==
  ASSUME ChosenInv
  PROVE  /\ DOMAIN RandomRanges(STORE) = 1..NUM_Partials
         /\ \A i \in 1..NUM_Partials : BoxOK(RandomRanges(STORE)[i])
<1>1. DOMAIN RandomRanges(STORE) = 1..NUM_Partials
  BY DEF RandomRanges
<1>2. ASSUME NEW i \in 1..NUM_Partials
      PROVE  BoxOK(RandomRanges(STORE)[i])
  <2> DEFINE random1 == stream[2 * i - 1]
             random2 == stream[2 * i]
             p1 == STORE[random1 % NumPoints(STORE)]
             p2 == STORE[random2 % NumPoints(STORE)]
  <2>1. NUM_Partials \in Nat \ {0} /\ i \in Nat /\ 1 <= i /\ i <= NUM_Partials
    BY Configurations
  <2>2. 2 * i - 1 \in 1..(8 * NUM_Partials) /\ 2 * i \in 1..(8 * NUM_Partials)
    BY <2>1
  <2>3. random1 \in Nat /\ random2 \in Nat
    BY <2>2, Configurations
  <2> HIDE DEF random1, random2
  <2>4. /\ random1 % NumPoints(STORE) \in DOMAIN STORE
        /\ random2 % NumPoints(STORE) \in DOMAIN STORE
    BY <2>3, Registers
  <2>5. \A d \in Dims : /\ p1[d] \in Nat /\ p1[d] <= DIM_MAX
                        /\ p2[d] \in Nat /\ p2[d] <= DIM_MAX
    BY <2>4, Registers
  <2>6. RandomRanges(STORE)[i] = Corners(STORE, random1, random2)
    BY DEF RandomRanges, random1, random2
  <2>7. Corners(STORE, random1, random2) =
          [lower |-> [d \in Dims |-> IF p1[d] < p2[d] THEN p1[d] ELSE p2[d]],
           upper |-> [d \in Dims |-> IF p1[d] < p2[d] THEN p2[d] ELSE p1[d]]]
    BY DEF Corners
  <2> HIDE DEF p1, p2
  <2>8. QED
    BY <2>5, <2>6, <2>7, Registers DEF BoxOK
<1>3. QED
  BY <1>1, <1>2

\* The bounds of an update, for whatever random numbers.
LEMMA UpdateBoxOK ==
  ASSUME ChosenInv, NEW name \in UpdateNames, NEW r \in [1..Rands(name) -> Nat]
  PROVE  BoxOK(Bounds(Update(name, r)))
<1> DEFINE f == Update(name, r)
<1>1. \A d \in DOMAIN f : DatesOK(f[d])
  BY BoundsOfUpdates DEF UpdateOK
<1> HIDE DEF f
<1>2. DIM_MAX \in Int /\ LastDate <= DIM_MAX
  BY Registers
<1>3. BoxOK(Bounds(f))
  BY <1>1, <1>2 DEF BoxOK, Bounds, DatesOK, LastDate
<1>4. QED
  BY <1>3 DEF f

\* The random numbers that an update draws.
LEMMA UpdatesOK ==
  ASSUME ChosenInv, NEW name \in UpdateNames, NEW spent \in Nat,
         drawn = spent * NUM_Partials, spent + Rands(name) <= 8
  PROVE  /\ DOMAIN Updates(name) = 1..NUM_Partials
         /\ \A i \in 1..NUM_Partials : \E r \in [1..Rands(name) -> Nat] :
              Updates(name)[i] = Update(name, r)
<1>1. DOMAIN Updates(name) = 1..NUM_Partials
  BY DEF Updates
<1>2. ASSUME NEW i \in 1..NUM_Partials
      PROVE  \E r \in [1..Rands(name) -> Nat] :
               Updates(name)[i] = Update(name, r)
  <2> DEFINE R == Rands(name)
             r == [n \in 1..R |-> rand((i - 1) * R + n)]
  <2>1. R \in 0..6
    BY RandsOfUpdates
  <2>2. NUM_Partials \in Nat \ {0} /\ i \in Nat /\ 1 <= i /\ i <= NUM_Partials
    BY Configurations
  <2>3. ASSUME NEW n \in 1..R
        PROVE  rand((i - 1) * R + n) \in Nat
    <3>1. (i - 1) * R \in Nat /\ (i - 1) * R + R <= NUM_Partials * R
      <4>1. (i - 1) * R + R = i * R
        BY <2>1, <2>2
      <4>2. i * R <= NUM_Partials * R
        BY <2>1, <2>2
      <4>3. (i - 1) * R \in Nat
        BY <2>1, <2>2
      <4>4. QED
        BY <4>1, <4>2, <4>3, <2>1, <2>2
    <3>2. spent * NUM_Partials + NUM_Partials * R <= 8 * NUM_Partials
      <4>1. spent \in 0..8 /\ R <= 8 - spent
        BY <2>1
      <4>2. NUM_Partials * R <= NUM_Partials * (8 - spent)
        BY <4>1, <2>1, <2>2
      <4>3. QED
        BY <4>1, <4>2, <2>1, <2>2
    <3>3. spent * NUM_Partials \in Nat /\ NUM_Partials * R \in Nat
      BY <2>1, <2>2
    <3> DEFINE place == (i - 1) * R
               all == NUM_Partials * R
    <3> HIDE DEF place, all
    <3>4. drawn \in Nat /\ place \in Nat /\ place + R <= all
          /\ drawn + all <= 8 * NUM_Partials /\ all \in Nat
      BY <3>1, <3>2, <3>3 DEF place, all
    <3>5. drawn + (place + n) \in 1..(8 * NUM_Partials)
      BY <3>4, <2>1, <2>2, <2>3
    <3>6. stream[drawn + (place + n)] \in Nat
      BY <3>5, Configurations
    <3>7. QED
      BY <3>6 DEF rand, place
  <2>4. r \in [1..R -> Nat]
    BY <2>3
  <2>5. Updates(name)[i] = Update(name, r)
    BY DEF Updates
  <2>6. QED
    BY <2>4, <2>5
<1>3. QED
  BY <1>1, <1>2

LEMMA PrepInit ==
  ASSUME Init
  PROVE  ChosenInv /\ PrepInv
<1>1. ChosenInv
  BY DEF Init, ChosenInv
<1>2. config \in {"LineItem", "Part", "Veit"} /\ NUM_Partials \in Nat \ {0}
  BY <1>1, Configurations
<1>3. done = 0 /\ NumberOfSteps(config) \in Nat \ {0} /\ next = "prepare"
  BY <1>2, StepsOK DEF Init
<1>4. drawn = Spent(config)[done + 1] * NUM_Partials
  <2>1. drawn = 0 /\ Spent(config)[1] = 0
    BY <1>2, StepsOK DEF Init
  <2>2. QED
    BY <1>2, <1>3, <2>1
<1>5. /\ partials = [p \in DOMAIN partials |-> partials[p]]
      /\ columns = [a \in DOMAIN columns |-> columns[a]]
      /\ DOMAIN partials = {}
  BY DEF Init
<1>6. {p \in PartialsOf(config) : NewAt(config)[p] <= done} = {}
  BY <1>2, <1>3, StepsOK
<1>7. QED
  BY <1>1, <1>3, <1>4, <1>5, <1>6 DEF PrepInv

\* New PartialMatchQueries: they are random, and an array that is there stays.
LEMMA NewStep ==
  ASSUME ChosenInv, PrepInv, NEW p \in PartialsOf(config),
         done \in Nat, NewOK(config, done + 1, p),
         NewQueries(New(p, ArrayOf(config)[p])),
         done' = done + 1, UNCHANGED Chosen
  PROVE  /\ drawn' = Spent(config)[done' + 1] * NUM_Partials
         /\ partials' = [q \in DOMAIN partials' |-> partials'[q]]
         /\ columns' = [a \in DOMAIN columns' |-> columns'[a]]
         /\ DOMAIN partials'
              = {q \in PartialsOf(config) : NewAt(config)[q] <= done'}
         /\ \A q \in DOMAIN partials' :
              PartialOK(config', done', columns', q, partials'[q])
<1> DEFINE array == ArrayOf(config)[p]
           made == [bounds |-> RandomRanges(STORE), array |-> array,
                    name |-> "random"]
<1>1. /\ drawn' = 2 * NUM_Partials
      /\ partials' = With(partials, p, made)
      /\ columns' = IF array \in DOMAIN columns THEN columns
                    ELSE With(columns, array, {})
  BY DEF NewQueries, New
<1>2. config' = config /\ STORE' = STORE /\ stream' = stream
  BY DEF Chosen
<1>3. /\ NewAt(config)[p] = done + 1 /\ done + 1 < FillAt(config)[p]
      /\ \A q \in PartialsOf(config) :
           /\ q # p => NewAt(config)[q] # done + 1
           /\ FillAt(config)[q] # done + 1
      /\ Spent(config)[(done + 1) + 1] = 2
  BY DEF NewOK
<1> HIDE DEF array, made
<1>4. /\ DOMAIN partials' = DOMAIN partials \cup {p}
      /\ partials'[p] = made
      /\ \A q \in DOMAIN partials : q # p => partials'[q] = partials[q]
      /\ partials' = [q \in DOMAIN partials' |-> partials'[q]]
  BY <1>1 DEF With
<1>5. /\ array \in DOMAIN columns' /\ DOMAIN columns \subseteq DOMAIN columns'
      /\ \A a \in DOMAIN columns : columns'[a] = columns[a]
      /\ columns' = [a \in DOMAIN columns' |-> columns'[a]]
  <2>1. columns = [a \in DOMAIN columns |-> columns[a]]
    BY DEF PrepInv
  <2>2. CASE array \in DOMAIN columns
    BY <1>1, <2>1, <2>2
  <2>3. CASE array \notin DOMAIN columns
    BY <1>1, <2>3 DEF With
  <2>4. QED
    BY <2>2, <2>3
<1>6. drawn' = Spent(config)[done' + 1] * NUM_Partials
  BY <1>1, <1>3
<1>7. DOMAIN partials' = {q \in PartialsOf(config) : NewAt(config)[q] <= done'}
  <2>1. DOMAIN partials = {q \in PartialsOf(config) : NewAt(config)[q] <= done}
    BY DEF PrepInv
  <2>2. \A q \in PartialsOf(config) : NewAt(config)[q] \in Nat
    BY Configurations, StepsOK
  <2>3. QED
    BY <1>3, <1>4, <2>1, <2>2
<1>8. ASSUME NEW q \in DOMAIN partials'
      PROVE  PartialOK(config', done', columns', q, partials'[q])
  <2>1. CASE q = p
    <3>1. /\ made = [bounds |-> made.bounds, array |-> made.array,
                     name |-> made.name]
          /\ made.bounds = RandomRanges(STORE) /\ made.array = array
          /\ made.name = "random"
      BY DEF made
    <3>2. /\ DOMAIN made.bounds = 1..NUM_Partials
          /\ \A i \in 1..NUM_Partials : BoxOK(made.bounds[i])
      BY <3>1, RandomRangesOK
    <3>3. array = ArrayOf(config')[q] /\ done' < FillAt(config')[q]
      BY <1>2, <1>3, <2>1 DEF array
    <3>4. PartialOK(config', done', columns', q, made)
      BY <1>5, <3>1, <3>2, <3>3 DEF PartialOK
    <3>5. QED
      BY <1>4, <2>1, <3>4
  <2>2. CASE q # p
    <3> DEFINE x == partials[q]
    <3>1. q \in DOMAIN partials /\ partials'[q] = x
      BY <1>4, <2>2
    <3>2. PartialOK(config, done, columns, q, x) /\ q \in PartialsOf(config)
      BY <3>1 DEF PrepInv
    <3>3. FillAt(config)[q] \in Nat /\ FillAt(config)[q] # done + 1
      BY <1>3, <3>2, Configurations, StepsOK
    <3> HIDE DEF x
    <3>4. done < FillAt(config)[q] => done' < FillAt(config)[q]
      BY <3>3
    <3>5. x.array \in DOMAIN columns
      BY <3>2 DEF PartialOK
    <3>6. x.array \in DOMAIN columns' /\ columns'[x.array] = columns[x.array]
      BY <1>5, <3>5
    <3>7. PartialOK(config, done', columns', q, x)
      BY <3>2, <3>4, <3>6 DEF PartialOK
    <3>8. QED
      BY <1>2, <3>1, <3>7
  <2>3. QED
    BY <2>1, <2>2
<1>9. QED
  BY <1>4, <1>5, <1>6, <1>7, <1>8

\* An update: the other PartialMatchQueries with the same array have the same
\* columns.
LEMMA UpdateStep ==
  ASSUME ChosenInv, PrepInv,
         NEW p \in PartialsOf(config), NEW name \in UpdateNames,
         done \in 0..(NumberOfSteps(config) - 1),
         FillOK(config, done + 1, p, name),
         UpdateQueries(Fill(p, name)),
         done' = done + 1, UNCHANGED Chosen
  PROVE  /\ drawn' = Spent(config)[done' + 1] * NUM_Partials
         /\ partials' = [q \in DOMAIN partials' |-> partials'[q]]
         /\ columns' = [a \in DOMAIN columns' |-> columns'[a]]
         /\ DOMAIN partials'
              = {q \in PartialsOf(config) : NewAt(config)[q] <= done'}
         /\ \A q \in DOMAIN partials' :
              PartialOK(config', done', columns', q, partials'[q])
<1> DEFINE array == partials[p].array
           box == [i \in 1..NUM_Partials |-> Bounds(Updates(name)[i])]
           updated == [bounds |-> box, array |-> array, name |-> name]
<1>1. /\ partials' = With(partials, p, updated)
      /\ columns' = [columns EXCEPT ![array] = DOMAIN Updates(name)[1]]
      /\ drawn' = drawn + NUM_Partials * Rands(name)
  BY DEF UpdateQueries, Fill
<1>2. config' = config
  BY DEF Chosen
<1>3. /\ FillAt(config)[p] = done + 1 /\ NewAt(config)[p] < done + 1
      /\ \A q \in PartialsOf(config) :
           /\ q # p => FillAt(config)[q] # done + 1
           /\ NewAt(config)[q] # done + 1
      /\ ColumnsFor(config)[ArrayOf(config)[p]] = UpdateColumns(name)
      /\ Spent(config)[(done + 1) + 1] = Spent(config)[done + 1] + Rands(name)
  BY DEF FillOK
<1>4. /\ \A q \in PartialsOf(config) : NewAt(config)[q] \in Nat
                                         /\ FillAt(config)[q] \in Nat
      /\ Spent(config)[done + 1] \in Nat
      /\ Spent(config)[done + 1] + Rands(name) <= 8
      /\ NUM_Partials \in Nat \ {0}
  <2>1. /\ done \in 0..NumberOfSteps(config)
        /\ done + 1 \in 0..NumberOfSteps(config)
    BY Configurations, StepsOK
  <2>2. /\ Spent(config)[done + 1] \in 0..8
        /\ Spent(config)[(done + 1) + 1] \in 0..8
    BY <2>1, Configurations, StepsOK
  <2>3. \A q \in PartialsOf(config) : NewAt(config)[q] \in Nat
                                        /\ FillAt(config)[q] \in Nat
    <3>1. config \in {"LineItem", "Part", "Veit"}
      BY Configurations
    <3>2. /\ NumberOfSteps(config) \in Nat
          /\ \A q \in PartialsOf(config) :
               /\ NewAt(config)[q] \in 1..NumberOfSteps(config)
               /\ FillAt(config)[q] \in 1..NumberOfSteps(config)
      BY <3>1, StepsOK
    <3>3. QED
      BY <3>2
  <2>4. NUM_Partials \in Nat \ {0}
    BY Configurations
  <2>5. QED
    BY <1>3, <2>2, <2>3, <2>4
<1>5. drawn = Spent(config)[done + 1] * NUM_Partials
  BY DEF PrepInv
<1>6. /\ DOMAIN Updates(name) = 1..NUM_Partials
      /\ \A i \in 1..NUM_Partials : \E r \in [1..Rands(name) -> Nat] :
           Updates(name)[i] = Update(name, r)
  BY <1>4, <1>5, UpdatesOK
<1>7. DOMAIN Updates(name)[1] = UpdateColumns(name)
  <2>1. 1 \in 1..NUM_Partials
    BY <1>4
  <2>2. PICK r \in [1..Rands(name) -> Nat] : Updates(name)[1] = Update(name, r)
    BY <1>6, <2>1
  <2>3. QED
    BY <2>2, ColumnsOfUpdates
<1>8. drawn' = Spent(config)[done' + 1] * NUM_Partials
  <2>1. Rands(name) \in Nat
    BY RandsOfUpdates
  <2>2. QED
    BY <1>1, <1>3, <1>4, <1>5, <2>1
<1>9. /\ p \in DOMAIN partials
      /\ PartialOK(config, done, columns, p, partials[p])
      /\ array = ArrayOf(config)[p]
  BY <1>3, <1>4 DEF PrepInv, PartialOK
<1>10. array \in DOMAIN columns
  BY <1>9 DEF PartialOK
<1> HIDE DEF updated, array
<1>11. /\ DOMAIN partials' = DOMAIN partials
       /\ partials'[p] = updated
       /\ \A q \in DOMAIN partials : q # p => partials'[q] = partials[q]
       /\ partials' = [q \in DOMAIN partials' |-> partials'[q]]
  BY <1>1, <1>9 DEF With
<1>12. /\ DOMAIN columns' = DOMAIN columns
       /\ columns'[array] = UpdateColumns(name)
       /\ \A a \in DOMAIN columns : a # array => columns'[a] = columns[a]
       /\ columns' = [a \in DOMAIN columns' |-> columns'[a]]
  BY <1>1, <1>7, <1>10 DEF PrepInv
<1>13. DOMAIN partials' = {q \in PartialsOf(config) : NewAt(config)[q] <= done'}
  BY <1>3, <1>4, <1>11 DEF PrepInv
<1>14. ASSUME NEW q \in DOMAIN partials'
       PROVE  PartialOK(config', done', columns', q, partials'[q])
  <2>1. CASE q = p
    <3>1. /\ updated = [bounds |-> updated.bounds, array |-> updated.array,
                        name |-> updated.name]
          /\ updated.bounds = box /\ updated.array = array
          /\ updated.name = name
      BY DEF updated
    <3>2. \A i \in 1..NUM_Partials : \E r \in [1..Rands(name) -> Nat] :
            box[i] = Bounds(Update(name, r))
      BY <1>6
    <3>3. DOMAIN box = 1..NUM_Partials
      OBVIOUS
    <3> HIDE DEF box
    <3>4. PartialOK(config, done', columns', p, updated)
      BY <1>3, <1>9, <1>10, <1>12, <3>1, <3>2, <3>3 DEF PartialOK
    <3>5. QED
      BY <1>2, <1>11, <2>1, <3>4
  <2>2. CASE q # p
    <3> DEFINE x == partials[q]
    <3>1. q \in DOMAIN partials /\ partials'[q] = x
      BY <1>11, <2>2
    <3>2. PartialOK(config, done, columns, q, x) /\ q \in PartialsOf(config)
      BY <3>1 DEF PrepInv
    <3> HIDE DEF x
    <3>3. done < FillAt(config)[q] => done' < FillAt(config)[q]
      BY <1>3, <1>4, <2>2, <3>2
    <3>4. x.array \in DOMAIN columns
      BY <3>2 DEF PartialOK
    <3>5. /\ ColumnsFor(config)[x.array] = UpdateColumns(x.name)
          /\ columns[x.array] = UpdateColumns(x.name)
          => columns'[x.array] = UpdateColumns(x.name)
      BY <1>3, <1>9, <1>12, <3>4
    <3>6. PartialOK(config, done', columns', q, x)
      BY <1>12, <3>2, <3>3, <3>4, <3>5 DEF PartialOK
    <3>7. QED
      BY <1>2, <3>1, <3>6
  <2>3. QED
    BY <2>1, <2>2
<1>15. QED
  BY <1>8, <1>11, <1>12, <1>13, <1>14

LEMMA PrepareStep ==
  ASSUME ChosenInv, PrepInv, Prepare
  PROVE  ChosenInv' /\ PrepInv'
<1> DEFINE step == Preparation(config)[done + 1]
<1>1. /\ next = "prepare" /\ done' = done + 1
      /\ NewQueries(step) \/ UpdateQueries(step)
      /\ next' = IF done' = Len(Preparation(config)) THEN "build" ELSE "prepare"
      /\ UNCHANGED Chosen
  BY DEF Prepare
<1>2. /\ config \in {"LineItem", "Part", "Veit"}
      /\ Len(Preparation(config)) = NumberOfSteps(config)
      /\ NumberOfSteps(config) \in Nat \ {0}
  BY Configurations, StepsOK
<1>3. /\ done \in 0..(NumberOfSteps(config) - 1)
      /\ done + 1 \in 1..NumberOfSteps(config)
  BY <1>1, <1>2 DEF PrepInv
<1>4. ChosenInv' /\ config' = config
  BY <1>1 DEF Chosen, ChosenInv
<1>5. /\ drawn' = Spent(config)[done' + 1] * NUM_Partials
      /\ partials' = [q \in DOMAIN partials' |-> partials'[q]]
      /\ columns' = [a \in DOMAIN columns' |-> columns'[a]]
      /\ DOMAIN partials'
           = {q \in PartialsOf(config) : NewAt(config)[q] <= done'}
      /\ \A q \in DOMAIN partials' :
           PartialOK(config', done', columns', q, partials'[q])
  <2>1. CASE \E p \in PartialsOf(config) : NewOK(config, done + 1, p)
    <3>1. PICK p \in PartialsOf(config) : NewOK(config, done + 1, p)
      BY <2>1
    <3>2. step = New(p, ArrayOf(config)[p])
      BY <3>1 DEF NewOK, Step
    <3>3. NewQueries(New(p, ArrayOf(config)[p]))
      <4>1. ~UpdateQueries(step)
        BY <3>2 DEF UpdateQueries, New
      <4>2. QED
        BY <1>1, <3>2, <4>1
    <3>4. done \in Nat
      BY <1>3
    <3>5. QED
      BY <1>1, <3>1, <3>3, <3>4, NewStep
  <2>2. CASE \E p \in PartialsOf(config), name \in UpdateNames :
               FillOK(config, done + 1, p, name)
    <3>1. PICK p \in PartialsOf(config), name \in UpdateNames :
            FillOK(config, done + 1, p, name)
      BY <2>2
    <3>2. step = Fill(p, name)
      BY <3>1 DEF FillOK, Step
    <3>3. UpdateQueries(Fill(p, name))
      <4>1. ~NewQueries(step)
        BY <3>2 DEF NewQueries, Fill
      <4>2. QED
        BY <1>1, <3>2, <4>1
    <3>4. QED
      BY <1>1, <1>3, <3>1, <3>3, UpdateStep
  <2>3. QED
    BY <1>2, <1>3, <2>1, <2>2, StepsOK
<1>6. /\ done' \in 0..NumberOfSteps(config)
      /\ next' = "prepare" <=> done' < NumberOfSteps(config)
  BY <1>1, <1>2, <1>3
<1>7. QED
  BY <1>4, <1>5, <1>6 DEF PrepInv

\* After the preparation every PartialMatchQueries has had its update.
LEMMA PreparedQueries ==
  ASSUME ChosenInv, PrepInv, next # "prepare", NEW p \in DOMAIN partials
  PROVE  /\ partials[p].name \in UpdateNames
         /\ columns[partials[p].array] = UpdateColumns(partials[p].name)
         /\ \A i \in 1..NUM_Partials :
              \E r \in [1..Rands(partials[p].name) -> Nat] :
                partials[p].bounds[i] = Bounds(Update(partials[p].name, r))
<1>1. /\ PartialOK(config, done, columns, p, partials[p])
      /\ p \in PartialsOf(config)
      /\ done \in 0..NumberOfSteps(config) /\ ~(done < NumberOfSteps(config))
  BY DEF PrepInv
<1>2. ~(done < FillAt(config)[p])
  <2>1. /\ NumberOfSteps(config) \in Nat
        /\ FillAt(config)[p] \in 1..NumberOfSteps(config)
    BY <1>1, Configurations, StepsOK
  <2>2. QED
    BY <1>1, <2>1
<1>3. QED
  BY <1>1, <1>2 DEF PartialOK

LEMMA BoxesOfQueries ==
  ASSUME ChosenInv, PrepInv,
         NEW p \in DOMAIN partials, NEW i \in 1..NUM_Partials
  PROVE  BoxOK(partials[p].bounds[i])
<1> DEFINE x == partials[p]
<1>1. PartialOK(config, done, columns, p, x)
  BY DEF PrepInv
<1> HIDE DEF x
<1>2. CASE x.name = "random"
  <2>1. x.name \notin UpdateNames
    BY <1>2 DEF UpdateNames
  <2>2. QED
    BY <1>1, <2>1 DEF PartialOK, x
<1>3. CASE x.name \in UpdateNames
  <2>1. PICK r \in [1..Rands(x.name) -> Nat] :
          x.bounds[i] = Bounds(Update(x.name, r))
    <3>1. x.name # "random"
      BY <1>3 DEF UpdateNames
    <3>2. QED
      BY <1>1, <3>1 DEF PartialOK
  <2>2. QED
    BY <1>3, <2>1, UpdateBoxOK DEF x
<1>4. QED
  BY <1>1, <1>2, <1>3 DEF PartialOK

LEMMA DrawnInRange ==
  ASSUME ChosenInv, PrepInv
  PROVE  drawn \in 0..Len(stream)
<1>1. /\ Spent(config)[done + 1] \in 0..8 /\ NUM_Partials \in Nat
      /\ Len(stream) >= 8 * NUM_Partials /\ Len(stream) \in Nat
  BY Configurations, StepsOK, LenProperties DEF PrepInv
<1> DEFINE spent == Spent(config)[done + 1]
<1>2. drawn = spent * NUM_Partials
  BY DEF PrepInv
<1>3. spent * NUM_Partials \in Nat /\ spent * NUM_Partials <= 8 * NUM_Partials
  <2>1. spent \in 0..8 /\ NUM_Partials \in Nat
    BY <1>1
  <2> HIDE DEF spent
  <2>2. QED
    BY <2>1
<1>4. QED
  BY <1>1, <1>2, <1>3

LEMMA AgreeInPrepared ==
  ASSUME ChosenInv, PrepInv
  PROVE  SharedColumnsAgree
<1> SUFFICES ASSUME next # "prepare", NEW p \in DOMAIN partials
             PROVE  LET mine == DOMAIN Update(partials[p].name,
                                              <<0, 0, 0, 0, 0, 0>>)
                    IN  /\ columns[partials[p].array] = mine
                        /\ \A i \in 1..NUM_Partials : \A d \in Dims \ mine :
                             partials[p].bounds[i].lower[d] = 0
                               /\ partials[p].bounds[i].upper[d] = 0
  BY DEF SharedColumnsAgree
<1> DEFINE name == partials[p].name
           mine == DOMAIN Update(name, <<0, 0, 0, 0, 0, 0>>)
<1>1. name \in UpdateNames /\ columns[partials[p].array] = UpdateColumns(name)
  BY PreparedQueries
<1>2. mine = UpdateColumns(name)
  BY <1>1, ColumnsOfUpdates
<1>3. ASSUME NEW i \in 1..NUM_Partials, NEW d \in Dims \ mine
      PROVE  partials[p].bounds[i].lower[d] = 0
               /\ partials[p].bounds[i].upper[d] = 0
  <2>1. PICK r \in [1..Rands(name) -> Nat] :
          partials[p].bounds[i] = Bounds(Update(name, r))
    BY PreparedQueries
  <2> DEFINE f == Update(name, r)
  <2>2. d \notin DOMAIN f
    BY <1>1, <1>2, ColumnsOfUpdates
  <2> HIDE DEF f
  <2>3. Bounds(f).lower[d] = 0 /\ Bounds(f).upper[d] = 0
    BY <2>2 DEF Bounds
  <2>4. QED
    BY <2>1, <2>3 DEF f
<1>4. QED
  BY <1>1, <1>2, <1>3

\* The days of a month, and those that the bounds of Q14 add to them.
LEMMA DaysOfMonths ==
  ASSUME NEW year \in 0..4, NEW month \in 0..11
  PROVE  LET days == Following(FirstDay(year, month), DaysOf(year, month))
             found == MonthOf(year, month)[1]..MonthOf(year, month)[2]
         IN  /\ days \subseteq found
             /\ Cardinality(found \ days)
                  = IF year = 3 /\ month = 1 THEN 0 ELSE 1
<1> DEFINE days == Following(FirstDay(year, month), DaysOf(year, month))
           begin == 365 + year * 365 + beginMonth[month]
           length == MonthLengths[month + 1]
<1>0. beginMonth[month] \in 0..334 /\ length \in 28..31
  <2>1. /\ beginMonth[month] \in 0..334
        /\ MonthLengths[month + 1] \in 28..31
        /\ DatesOK(MonthOf(year, month))
    BY MonthFacts
  <2>2. QED
    BY <2>1
<1>1. begin \in Nat /\ length \in 28..31
  BY <1>0
<1>2. /\ MonthOf(year, month)[1] = begin
      /\ MonthOf(year, month)[2] = begin + length
  BY DEF MonthOf
<1>3. /\ FirstDay(year, month) =
           IF year = 4 \/ (year = 3 /\ month > 1) THEN begin + 1 ELSE begin
      /\ DaysOf(year, month) =
           IF year = 3 /\ month = 1 THEN length + 1 ELSE length
  <2>1. beginMonth[month] \in Nat
    BY <1>0
  <2>2. StartDates[year + 2] = 365 + year * 365 + (IF year = 4 THEN 1 ELSE 0)
    BY DEF StartDates
  <2> DEFINE first == beginMonth[month]
  <2>3. FirstDay(year, month) =
          IF year = 4 \/ (year = 3 /\ month > 1) THEN begin + 1 ELSE begin
    <3>1. first \in Nat
      BY <2>1
    <3> HIDE DEF first
    <3>2. 365 + year * 365 + (IF year = 4 THEN 1 ELSE 0) + first
            + (IF year = 3 /\ month > 1 THEN 1 ELSE 0)
          = IF year = 4 \/ (year = 3 /\ month > 1)
            THEN 365 + year * 365 + first + 1 ELSE 365 + year * 365 + first
      BY <3>1
    <3>3. QED
      BY <2>2, <3>2 DEF FirstDay, first
  <2>4. DaysOf(year, month) =
          IF year = 3 /\ month = 1 THEN length + 1 ELSE length
    BY <1>1 DEF DaysOf
  <2>5. QED
    BY <2>3, <2>4
<1> DEFINE found == begin..(begin + length)
<1> SUFFICES /\ days \subseteq found
             /\ Cardinality(found \ days)
                  = IF year = 3 /\ month = 1 THEN 0 ELSE 1
  BY <1>2
<1>4. days = FirstDay(year, month)
               ..(FirstDay(year, month) + DaysOf(year, month) - 1)
  BY DEF Following
<1> HIDE DEF days, begin, length
<1>5. CASE year = 3 /\ month = 1
  <2>1. days = begin..(begin + (length + 1) - 1)
    BY <1>3, <1>4, <1>5
  <2>2. days = found
    BY <1>1, <2>1
  <2>3. found \ days = {}
    BY <2>2
  <2>4. QED
    BY <1>5, <2>2, <2>3, FS_EmptySet
<1>6. CASE ~(year = 3 /\ month = 1) /\ (year = 4 \/ (year = 3 /\ month > 1))
  <2>1. days = (begin + 1)..((begin + 1) + length - 1)
    BY <1>3, <1>4, <1>6
  <2>2. days \subseteq found /\ found \ days = {begin}
    BY <1>1, <2>1
  <2>3. QED
    BY <1>6, <2>2, FS_Singleton
<1>7. CASE ~(year = 3 /\ month = 1) /\ ~(year = 4 \/ (year = 3 /\ month > 1))
  <2>1. days = begin..(begin + length - 1)
    BY <1>3, <1>4, <1>7
  <2>2. days \subseteq found /\ found \ days = {begin + length}
    BY <1>1, <2>1
  <2>3. QED
    BY <1>7, <2>2, FS_Singleton
<1>8. QED
  BY <1>5, <1>6, <1>7

LEMMA MonthsInPrepared ==
  ASSUME ChosenInv, PrepInv
  PROVE  MonthsAreCovered
<1> SUFFICES ASSUME NEW p \in DOMAIN partials, partials[p].name = "Q14",
                    NEW i \in 1..NUM_Partials
             PROVE  \E year \in 0..4, month \in 0..11 :
                      LET days == Following(FirstDay(year, month),
                                            DaysOf(year, month))
                          bounds == partials[p].bounds[i]
                          found == bounds.lower[DATE_COLUMN]
                                     ..bounds.upper[DATE_COLUMN]
                      IN  /\ days \subseteq found
                          /\ Cardinality(found \ days)
                               = IF year = 3 /\ month = 1 THEN 0 ELSE 1
  BY DEF MonthsAreCovered
<1>1. PICK r \in [1..Rands("Q14") -> Nat] :
        partials[p].bounds[i] = Bounds(Update("Q14", r))
  <2> DEFINE x == partials[p]
  <2>1. PartialOK(config, done, columns, p, x)
    BY DEF PrepInv
  <2>2. x.name = "Q14" /\ x.name # "random"
    OBVIOUS
  <2> HIDE DEF x
  <2>3. \A n \in 1..NUM_Partials : \E r \in [1..Rands(x.name) -> Nat] :
          x.bounds[n] = Bounds(Update(x.name, r))
    BY <2>1, <2>2 DEF PartialOK
  <2>4. QED
    BY <2>2, <2>3 DEF x
<1>2. r[1] \in Nat /\ r[2] \in Nat
  BY DEF Rands
<1> DEFINE year == r[1] % 5
           month == r[2] % 12
<1>3. year \in 0..4 /\ month \in 0..11
  <2>1. \A x \in Nat : x % 5 \in 0..4 /\ x % 12 \in 0..11
    OBVIOUS
  <2>2. QED
    BY <1>2, <2>1
<1>4. Update("Q14", r) = Only(0, MonthOf(year, month))
  BY DEF Update, updateQ14, DATE_COLUMN
<1> HIDE DEF year, month
<1>5. 0 \in Dims
  BY StoreAssumption DEF Dims
<1>6. /\ partials[p].bounds[i].lower[DATE_COLUMN] = MonthOf(year, month)[1]
      /\ partials[p].bounds[i].upper[DATE_COLUMN] = MonthOf(year, month)[2]
  BY <1>1, <1>4, <1>5 DEF Bounds, Only, DATE_COLUMN
<1> DEFINE bounds == partials[p].bounds[i]
           found == bounds.lower[DATE_COLUMN]..bounds.upper[DATE_COLUMN]
           days == Following(FirstDay(year, month), DaysOf(year, month))
<1>7. /\ days \subseteq found
      /\ Cardinality(found \ days) = IF year = 3 /\ month = 1 THEN 0 ELSE 1
  <2>1. found = MonthOf(year, month)[1]..MonthOf(year, month)[2]
    BY <1>6
  <2>2. QED
    BY <1>3, <2>1, DaysOfMonths, Zenon
<1>8. QED
  BY <1>3, <1>7

-----------------------------------------------------------------------------
(* The runs: what the comparison of two answers lets pass. *)

LEMMA LeastNumber ==
  ASSUME NEW S \in SUBSET Nat, S # {}
  PROVE  \E m \in S : \A k \in S : m <= k
<1>1. PICK m \in S : \A k \in S : ~(<<k, m>> \in OpToRel(<, Nat))
  BY NatLessThanWellFounded, WFMin, Zenon
<1>2. ASSUME NEW k \in S
      PROVE  m <= k
  <2>1. ~(k < m)
    BY <1>1, Zenon DEF OpToRel
  <2>2. k \in Nat /\ m \in Nat
    OBVIOUS
  <2>3. QED
    BY <2>1, <2>2
<1>3. QED
  BY <1>2

\* A function on the numbers up to n is a sequence.
LEMMA FunctionIsSequence ==
  ASSUME NEW n \in Nat, NEW f, f = [i \in 1..n |-> f[i]]
  PROVE  Len(f) \in Nat /\ DOMAIN f = 1..Len(f)
<1> DEFINE S == {f[i] : i \in 1..n}
<1>1. f \in [1..n -> S]
  OBVIOUS
<1> HIDE DEF S
<1>2. f \in Seq(S)
  BY <1>1, SeqDef
<1>3. QED
  BY <1>2, LenProperties

\* Answers without junk have a TID as often as there are answers with it.
LEMMA TimesWithoutJunk ==
  ASSUME NEW answers, Len(answers) \in Nat, DOMAIN answers = 1..Len(answers),
         \A i \in DOMAIN answers : answers[i].junks = 0, NEW t
  PROVE  Times(answers, t)
           = Cardinality({i \in DOMAIN answers : t \in answers[i].tids})
<1> DEFINE n == Len(answers)
           sums(f) == [i \in 0..n |->
                         IF i = 0 THEN 0 ELSE f[i - 1] + answers[i].junks]
           junks == CHOOSE f : f = sums(f)
<1>1. Times(answers, t)
        = Cardinality({i \in DOMAIN answers : t \in answers[i].tids})
            + (IF t = junk THEN junks[n] ELSE 0)
  BY DEF Times
<1>2. junks = sums(junks)
  <2> DEFINE zero == [i \in 0..n |-> 0]
  <2>1. ASSUME NEW i \in 0..n
        PROVE  zero[i] = IF i = 0 THEN 0 ELSE zero[i - 1] + answers[i].junks
    <3>1. CASE i = 0
      BY <3>1
    <3>2. CASE i # 0
      <4>1. i \in DOMAIN answers /\ i - 1 \in 0..n
        BY <3>2
      <4>2. QED
        BY <3>2, <4>1
    <3>3. QED
      BY <3>1, <3>2
  <2>2. zero = sums(zero)
    BY <2>1
  <2> HIDE DEF zero
  <2>3. QED
    BY <2>2
<1> HIDE DEF junks
<1>3. junks[n] = 0
  <2> DEFINE Others == {i \in 0..n : junks[i] # 0}
  <2>1. Others = {}
    <3> SUFFICES ASSUME Others # {} PROVE FALSE
      OBVIOUS
    <3>1. PICK m \in Others : \A k \in Others : m <= k
      <4>1. Others \in SUBSET Nat
        OBVIOUS
      <4>2. QED
        BY <4>1, LeastNumber
    <3>2. m \in 0..n /\ junks[m] # 0
      OBVIOUS
    <3>3. junks[m] = IF m = 0 THEN 0 ELSE junks[m - 1] + answers[m].junks
      BY <1>2, <3>2
    <3>4. m # 0 /\ m - 1 \in 0..n /\ m \in DOMAIN answers
      BY <3>2, <3>3
    <3>5. junks[m - 1] = 0
      <4>1. m - 1 \notin Others
        BY <3>1, <3>2
      <4>2. QED
        BY <3>4, <4>1
    <3>6. QED
      BY <3>2, <3>3, <3>4, <3>5
  <2>2. n \in 0..n
    OBVIOUS
  <2>3. QED
    BY <2>1, <2>2
<1>4. IsFiniteSet({i \in DOMAIN answers : t \in answers[i].tids})
  <2>1. IsFiniteSet(1..n)
    BY FS_Interval
  <2>2. {i \in DOMAIN answers : t \in answers[i].tids} \subseteq 1..n
    OBVIOUS
  <2>3. QED
    BY <2>1, <2>2, FS_Subset
<1>5. Cardinality({i \in DOMAIN answers : t \in answers[i].tids}) \in Nat
  BY <1>4, FS_CardinalityType
<1>6. QED
  BY <1>1, <1>3, <1>5

\* Answers like those of a scan of s to qs, which the sequential Elf gives.
ScanAnswers(s, qs) ==
  [i \in DOMAIN qs |-> [query |-> qs[i], tids |-> Scan(s, qs[i]), junks |-> 0]]

\* Answers of which some TIDs may be missing, with some junk.
Lossy(answers, full) ==
  /\ Len(answers) \in Nat /\ DOMAIN answers = 1..Len(answers)
  /\ DOMAIN answers = DOMAIN full
  /\ \A i \in DOMAIN full : /\ answers[i].query = full[i].query
                            /\ answers[i].tids \subseteq full[i].tids
                            /\ answers[i].junks \in Nat

LEMMA RacedIsLossy ==
  ASSUME NEW s, NEW n \in Nat, NEW qs, DOMAIN qs = 1..n,
         NEW answers \in Raced(ScanAnswers(s, qs))
  PROVE  /\ Lossy(answers, ScanAnswers(s, qs))
         /\ Lossy(ScanAnswers(s, qs), ScanAnswers(s, qs))
<1> DEFINE full == ScanAnswers(s, qs)
           LossyAt(i) == /\ answers[i].query = full[i].query
                         /\ answers[i].tids \subseteq full[i].tids
                         /\ answers[i].junks \in Nat
<1>1. /\ full = [i \in 1..n |-> full[i]]
      /\ \A i \in 1..n :
           full[i] = [query |-> qs[i], tids |-> Scan(s, qs[i]), junks |-> 0]
  BY DEF ScanAnswers
<1>2. Len(full) \in Nat /\ DOMAIN full = 1..Len(full) /\ DOMAIN full = 1..n
  BY <1>1, FunctionIsSequence
<1>3. \A i \in 1..n : full[i].junks = 0
  BY <1>1
<1> DEFINE some == {i \in DOMAIN full : full[i].tids # {}}
<1>4. \/ answers = full
      \/ \E i \in some, j \in 0..1 :
           answers = [full EXCEPT ![i] = Hurt(@, j)]
      \/ \E x \in {y \in some \X some : y[1] # y[2]} :
           answers = [full EXCEPT ![x[1]] = Hurt(@, 0), ![x[2]] = Hurt(@, 1)]
  BY DEF Raced
<1> HIDE DEF full
<1>5. ASSUME NEW i \in 1..n, NEW j \in 0..1
      PROVE  /\ Hurt(full[i], j).query = full[i].query
             /\ Hurt(full[i], j).tids \subseteq full[i].tids
             /\ Hurt(full[i], j).junks \in Nat
  BY <1>1, <1>5 DEF Hurt
<1>6. answers = [i \in 1..n |-> answers[i]] /\ \A i \in 1..n : LossyAt(i)
  <2>1. CASE answers = full
    BY <1>1, <1>3, <2>1
  <2>2. CASE \E i \in some, j \in 0..1 :
               answers = [full EXCEPT ![i] = Hurt(@, j)]
    <3>1. PICK i \in some, j \in 0..1 :
            answers = [full EXCEPT ![i] = Hurt(@, j)]
      BY <2>2
    <3>2. i \in 1..n
      BY <1>2
    <3>3. /\ answers = [k \in 1..n |-> answers[k]]
          /\ \A k \in 1..n : k # i => answers[k] = full[k]
          /\ answers[i] = Hurt(full[i], j)
      BY <1>1, <3>1, <3>2
    <3>4. QED
      BY <1>3, <1>5, <3>2, <3>3
  <2>3. CASE \E x \in {y \in some \X some : y[1] # y[2]} :
               answers = [full EXCEPT ![x[1]] = Hurt(@, 0),
                                      ![x[2]] = Hurt(@, 1)]
    <3>1. PICK x \in {y \in some \X some : y[1] # y[2]} :
            answers = [full EXCEPT ![x[1]] = Hurt(@, 0), ![x[2]] = Hurt(@, 1)]
      BY <2>3
    <3> DEFINE a == x[1]
               b == x[2]
    <3>2. a \in 1..n /\ b \in 1..n /\ a # b
      BY <1>2
    <3>3. answers = [full EXCEPT ![a] = Hurt(@, 0), ![b] = Hurt(@, 1)]
      BY <3>1
    <3> HIDE DEF a, b
    <3>4. /\ answers = [k \in 1..n |-> answers[k]]
          /\ \A k \in 1..n : k # a /\ k # b => answers[k] = full[k]
          /\ answers[a] = Hurt(full[a], 0)
          /\ answers[b] = Hurt(full[b], 1)
      BY <1>1, <3>2, <3>3
    <3>5. QED
      BY <1>3, <1>5, <3>2, <3>4
  <2>4. QED
    BY <1>4, <2>1, <2>2, <2>3
<1>7. Len(answers) \in Nat /\ DOMAIN answers = 1..Len(answers)
        /\ DOMAIN answers = 1..n
  BY <1>6, FunctionIsSequence
<1>8. Lossy(answers, full)
  BY <1>2, <1>6, <1>7 DEF Lossy
<1>9. Lossy(full, full)
  BY <1>2, <1>3 DEF Lossy
<1>10. QED
  BY <1>8, <1>9 DEF full

\* A TID that is missing makes a difference, if no junk is taken for it.
LEMMA LossIsDifference ==
  ASSUME NEW full, Lossy(full, full), \A i \in DOMAIN full : full[i].junks = 0,
         Lossy(result, full), result_ELF = full, result_difference = {},
         NEW i \in DOMAIN result, NEW t \in DOMAIN STORE,
         t \in full[i].tids, t \notin result[i].tids
  PROVE  t = junk /\ \E j \in DOMAIN result : result[j].junks > 0
<1> DEFINE all == {k \in DOMAIN full : t \in full[k].tids}
           found == {k \in DOMAIN result : t \in result[k].tids}
<1>1. Cardinality(all) \in Nat /\ Cardinality(found) \in Nat
        /\ Cardinality(found) < Cardinality(all)
  <2>1. IsFiniteSet(all)
    <3>1. IsFiniteSet(1..Len(full)) /\ all \subseteq 1..Len(full)
      BY FS_Interval DEF Lossy
    <3>2. QED
      BY <3>1, FS_Subset
  <2>2. found \subseteq all /\ i \in all /\ i \notin found
    BY DEF Lossy
  <2>3. found \subseteq all /\ found # all
    BY <2>2
  <2> HIDE DEF all, found
  <2>4. QED
    BY <2>1, <2>3, FS_Subset, FS_CardinalityType
<1>2. Times(result_ELF, t) = Cardinality(all)
  BY TimesWithoutJunk DEF Lossy
<1>3. ~(Times(result_ELF, t) > Times(result, t))
  BY DEF result_difference
<1>4. ASSUME Times(result, t) = Cardinality(found)
      PROVE  FALSE
  BY <1>1, <1>2, <1>3, <1>4
<1>5. t = junk
  <2> SUFFICES ASSUME t # junk PROVE FALSE
    OBVIOUS
  <2>1. Times(result, t) = Cardinality(found) + 0
    BY DEF Times
  <2>2. QED
    BY <1>1, <1>4, <2>1
<1>6. \E j \in DOMAIN result : result[j].junks > 0
  <2> SUFFICES ASSUME \A j \in DOMAIN result : ~(result[j].junks > 0)
               PROVE  FALSE
    OBVIOUS
  <2>1. \A j \in DOMAIN result : result[j].junks = 0
    BY DEF Lossy
  <2>2. Times(result, t) = Cardinality(found)
    BY <2>1, TimesWithoutJunk DEF Lossy
  <2>3. QED
    BY <1>4, <2>2
<1>7. QED
  BY <1>5, <1>6

\* The queries of run n of configuration c.
QueriesFor(c, n, parts, cols) ==
  LET ps == Runs(c)[n]
  IN  [m \in 1..(NUM_Partials * Len(ps)) |->
         LET p == parts[ps[((m - 1) % Len(ps)) + 1]]
         IN  Query(p.bounds[((m - 1) \div Len(ps)) + 1], cols[p.array])]

ElfPhases == {"subtree", "compare subtree", "node level",
              "compare node level", "clear"}

\* While the parallel Elfs are asked, result_ELF has the answers of the
\* sequential one, and before a comparison result is a race away from them.
RunInv ==
  /\ next \in {"prepare", "build", "exact", "range", "run", "end", "exit"}
                \cup ElfPhases
  /\ run \in 1..(Len(Runs(config)) + 1)
  /\ next # "end" => run \in 1..Len(Runs(config))
  /\ next \in ElfPhases =>
       /\ kind = "Elf"
       /\ result_ELF = ScanAnswers(STORE,
            QueriesFor(config, run, partials, columns))
  /\ next \in {"compare subtree", "compare node level"} =>
       result \in Raced(result_ELF)
  /\ LossesAreNoticed

LEMMA RunsOK ==
  ASSUME ChosenInv
  PROVE  /\ Len(Runs(config)) \in Nat \ {0}
         /\ \A n \in 1..Len(Runs(config)) : Len(Runs(config)[n]) \in Nat
<1>1. config \in {"LineItem", "Part", "Veit"}
  BY Configurations
<1>2. QED
  BY <1>1 DEF Runs

\* What the sequential Elf answers.
LEMMA ElfAnswers ==
  ASSUME kind = "Elf"
  PROVE  Answers(ThisRun)
           = ScanAnswers(STORE, QueriesFor(config, run, partials, columns))
<1>1. ThisRun = QueriesFor(config, run, partials, columns)
  BY Zenon DEF ThisRun, QueriesOf, QueriesFor
<1> DEFINE qs == QueriesFor(config, run, partials, columns)
<1> HIDE DEF qs
<1>2. ASSUME NEW i \in DOMAIN qs
      PROVE  Answered(qs[i])
               = [query |-> qs[i], tids |-> Scan(STORE, qs[i]), junks |-> 0]
  <2>1. Match(qs[i]) = Scan(STORE, qs[i])
    BY DEF Match, CompressedImprints, PlainImprints
  <2>2. QED
    BY <2>1 DEF Answered
<1>3. Answers(qs) = ScanAnswers(STORE, qs)
  BY <1>2 DEF Answers, ScanAnswers
<1>4. QED
  BY <1>1, <1>3 DEF qs

-----------------------------------------------------------------------------
(* Every action keeps the invariant. *)

WorkloadInv == ChosenInv /\ PrepInv /\ RunInv

LEMMA WorkloadInit ==
  ASSUME Init
  PROVE  WorkloadInv
<1>1. ChosenInv /\ PrepInv
  BY PrepInit
<1>2. next = "prepare" /\ run = 1 /\ Len(Runs(config)) \in Nat \ {0}
  BY <1>1, RunsOK DEF Init
<1>3. LossesAreNoticed
  BY <1>2 DEF LossesAreNoticed
<1>4. RunInv
  BY <1>2, <1>3 DEF RunInv, ElfPhases
<1>5. QED
  BY <1>1, <1>4 DEF WorkloadInv

\* What the steps after the preparation leave alone.
LEMMA PreparedStays ==
  ASSUME ChosenInv, PrepInv, UNCHANGED Chosen, UNCHANGED Prepared,
         next # "prepare", next' # "prepare"
  PROVE  ChosenInv' /\ PrepInv'
BY DEF ChosenInv, PrepInv, Chosen, Prepared

LEMMA PrepareKeeps ==
  ASSUME WorkloadInv, Prepare
  PROVE  WorkloadInv'
<1>1. ChosenInv' /\ PrepInv'
  BY PrepareStep DEF WorkloadInv
<1>2. /\ next = "prepare" /\ next' \in {"prepare", "build"}
      /\ run' = run /\ config' = config
  BY DEF Prepare, Chosen
<1>3. LossesAreNoticed'
  BY <1>2 DEF LossesAreNoticed
<1>4. RunInv'
  BY <1>2, <1>3 DEF WorkloadInv, RunInv, ElfPhases
<1>5. QED
  BY <1>1, <1>4 DEF WorkloadInv

LEMMA BuildKeeps ==
  ASSUME WorkloadInv, NEW k \in Kinds, buildIndex(k)
  PROVE  WorkloadInv'
<1>1. /\ next = "build" /\ next' = "exact" /\ run' = run /\ config' = config
      /\ UNCHANGED Chosen /\ UNCHANGED Prepared
  BY DEF buildIndex, Chosen
<1>2. ChosenInv' /\ PrepInv'
  BY <1>1, PreparedStays DEF WorkloadInv
<1>3. LossesAreNoticed'
  BY <1>1 DEF LossesAreNoticed
<1>4. RunInv'
  BY <1>1, <1>3 DEF WorkloadInv, RunInv, ElfPhases
<1>5. QED
  BY <1>2, <1>4 DEF WorkloadInv

LEMMA ExactAndRangeKeep ==
  ASSUME WorkloadInv, UTrunExactMatch \/ runRangeQuery
  PROVE  WorkloadInv'
<1>1. /\ next \in {"exact", "range"} /\ next' \in {"run", "range"}
      /\ run' = run /\ config' = config
      /\ UNCHANGED Chosen /\ UNCHANGED Prepared
  <2>1. CASE UTrunExactMatch
    BY <2>1 DEF UTrunExactMatch, Chosen
  <2>2. CASE runRangeQuery
    BY <2>2 DEF runRangeQuery, Chosen
  <2>3. QED
    BY <2>1, <2>2
<1>2. ChosenInv' /\ PrepInv'
  BY <1>1, PreparedStays DEF WorkloadInv
<1>3. LossesAreNoticed'
  BY <1>1 DEF LossesAreNoticed
<1>4. RunInv'
  BY <1>1, <1>3 DEF WorkloadInv, RunInv, ElfPhases
<1>5. QED
  BY <1>2, <1>4 DEF WorkloadInv

LEMMA RunQueryKeeps ==
  ASSUME WorkloadInv, runQuery
  PROVE  WorkloadInv'
<1>1. /\ next = "run" /\ result' = Answers(ThisRun)
      /\ kind' = kind /\ config' = config /\ STORE' = STORE
      /\ partials' = partials /\ columns' = columns
      /\ UNCHANGED Chosen /\ UNCHANGED Prepared
  BY DEF runQuery, Chosen, Prepared
<1>2. \/ /\ kind = "Elf" /\ next' = "subtree"
         /\ result_ELF' = result' /\ run' = run
      \/ /\ kind # "Elf" /\ run' = run + 1
         /\ next' = IF More(run) THEN "run" ELSE "end"
  BY DEF runQuery
<1>3. next' \in {"subtree", "run", "end"}
  BY <1>2
<1>4. ChosenInv' /\ PrepInv'
  BY <1>1, <1>3, PreparedStays DEF WorkloadInv
<1>5. LossesAreNoticed'
  BY <1>3 DEF LossesAreNoticed
<1>6. run \in 1..Len(Runs(config)) /\ Len(Runs(config)) \in Nat
  BY <1>1, RunsOK DEF WorkloadInv, RunInv
<1>7. RunInv'
  <2>1. CASE kind = "Elf"
    <3>1. result_ELF' = ScanAnswers(STORE',
            QueriesFor(config', run', partials', columns'))
      BY <1>1, <1>2, <2>1, ElfAnswers
    <3>2. next' = "subtree" /\ run' = run /\ kind' = "Elf"
      BY <1>1, <1>2, <2>1
    <3>3. QED
      BY <1>1, <1>5, <1>6, <3>1, <3>2 DEF RunInv, ElfPhases
  <2>2. CASE kind # "Elf"
    <3>1. /\ run' = run + 1 /\ next' \in {"run", "end"}
          /\ next' # "end" => run < Len(Runs(config))
      BY <1>2, <2>2 DEF More
    <3>2. /\ run' \in 1..(Len(Runs(config')) + 1)
          /\ next' # "end" => run' \in 1..Len(Runs(config'))
      BY <1>1, <1>6, <3>1
    <3>3. QED
      BY <1>5, <3>1, <3>2 DEF RunInv, ElfPhases
  <2>3. QED
    BY <2>1, <2>2
<1>8. QED
  BY <1>4, <1>7 DEF WorkloadInv

LEMMA RunParallelKeeps ==
  ASSUME WorkloadInv, runParallel
  PROVE  WorkloadInv'
<1>1. /\ next \in {"subtree", "node level"}
      /\ next' \in {"compare subtree", "compare node level"}
      /\ result' \in Raced(Answers(ThisRun))
      /\ kind' = kind /\ config' = config /\ STORE' = STORE /\ run' = run
      /\ partials' = partials /\ columns' = columns /\ result_ELF' = result_ELF
      /\ UNCHANGED Chosen /\ UNCHANGED Prepared
  BY DEF runParallel, Chosen, Prepared
<1>2. ChosenInv' /\ PrepInv'
  BY <1>1, PreparedStays DEF WorkloadInv
<1>3. LossesAreNoticed'
  BY <1>1 DEF LossesAreNoticed
<1>4. /\ kind = "Elf" /\ run \in 1..Len(Runs(config))
      /\ run \in 1..(Len(Runs(config)) + 1)
      /\ result_ELF = ScanAnswers(STORE,
           QueriesFor(config, run, partials, columns))
  BY <1>1 DEF WorkloadInv, RunInv, ElfPhases
<1>5. result' \in Raced(result_ELF')
  BY <1>1, <1>4, ElfAnswers
<1>6. RunInv'
  BY <1>1, <1>3, <1>4, <1>5 DEF RunInv, ElfPhases
<1>7. QED
  BY <1>2, <1>6 DEF WorkloadInv

\* The comparison goes on only when no TID is missing, but for one that the junk
\* of another answer hides.
LEMMA CompareKeeps ==
  ASSUME WorkloadInv, compare_results
  PROVE  WorkloadInv'
<1>1. /\ next \in {"compare subtree", "compare node level"}
      /\ next' \in {"exit", "node level", "clear"}
      /\ next' # "exit" => result_difference = {}
      /\ kind' = kind /\ config' = config /\ STORE' = STORE /\ run' = run
      /\ partials' = partials /\ columns' = columns /\ junk' = junk
      /\ result' = result /\ result_ELF' = result_ELF
      /\ UNCHANGED Chosen /\ UNCHANGED Prepared
  BY DEF compare_results, Chosen, Prepared
<1>2. ChosenInv' /\ PrepInv'
  BY <1>1, PreparedStays DEF WorkloadInv
<1>3. /\ kind = "Elf" /\ run \in 1..Len(Runs(config))
      /\ run \in 1..(Len(Runs(config)) + 1)
      /\ result_ELF = ScanAnswers(STORE,
           QueriesFor(config, run, partials, columns))
      /\ result \in Raced(result_ELF)
  BY <1>1 DEF WorkloadInv, RunInv, ElfPhases
<1> DEFINE qs == QueriesFor(config, run, partials, columns)
           n == NUM_Partials * Len(Runs(config)[run])
<1>4. n \in Nat /\ DOMAIN qs = 1..n
  <2>1. NUM_Partials \in Nat /\ Len(Runs(config)[run]) \in Nat
    BY <1>3, Configurations, RunsOK DEF WorkloadInv
  <2>2. DOMAIN qs = 1..n
    BY DEF QueriesFor
  <2>3. n \in Nat
    BY <2>1
  <2>4. QED
    BY <2>2, <2>3
<1> HIDE DEF qs, n
<1>5. /\ result_ELF = ScanAnswers(STORE, qs)
      /\ result \in Raced(ScanAnswers(STORE, qs))
  BY <1>3 DEF qs
<1>6. Lossy(result, ScanAnswers(STORE, qs))
        /\ Lossy(ScanAnswers(STORE, qs), ScanAnswers(STORE, qs))
  BY <1>4, <1>5, RacedIsLossy
<1>7. ASSUME result_difference = {}, NEW i \in DOMAIN result,
             NEW t \in Scan(STORE, result[i].query) \ result[i].tids
      PROVE  t = junk /\ \E j \in DOMAIN result : result[j].junks > 0
  <2> DEFINE full == ScanAnswers(STORE, qs)
  <2>1. /\ \A k \in DOMAIN full : /\ full[k].junks = 0
                                  /\ full[k].query = qs[k]
                                  /\ full[k].tids = Scan(STORE, qs[k])
        /\ DOMAIN full = DOMAIN qs
    BY DEF ScanAnswers
  <2> HIDE DEF full
  <2>2. Lossy(result, full) /\ Lossy(full, full) /\ result_ELF = full
    BY <1>5, <1>6 DEF full
  <2>3. i \in DOMAIN full /\ result[i].query = full[i].query
    BY <2>2 DEF Lossy
  <2>4. t \in full[i].tids /\ t \notin result[i].tids /\ t \in DOMAIN STORE
    BY <1>7, <2>1, <2>3 DEF Scan
  <2>5. \A k \in DOMAIN full : full[k].junks = 0
    BY <2>1
  <2>6. QED
    BY <1>7, <2>2, <2>4, <2>5, LossIsDifference
<1>8. LossesAreNoticed'
  BY <1>1, <1>7 DEF LossesAreNoticed
<1>9. RunInv'
  BY <1>1, <1>3, <1>8 DEF RunInv, ElfPhases
<1>10. QED
  BY <1>2, <1>9 DEF WorkloadInv

LEMMA ClearKeeps ==
  ASSUME WorkloadInv, clear_vectors
  PROVE  WorkloadInv'
<1>1. /\ next = "clear" /\ run' = run + 1 /\ config' = config
      /\ next' = IF More(run) THEN "run" ELSE "end"
      /\ UNCHANGED Chosen /\ UNCHANGED Prepared
  BY DEF clear_vectors, Chosen
<1>2. /\ next' \in {"run", "end"}
      /\ next' # "end" => run < Len(Runs(config))
  BY <1>1 DEF More
<1>3. ChosenInv' /\ PrepInv'
  BY <1>1, <1>2, PreparedStays DEF WorkloadInv
<1>4. LossesAreNoticed'
  BY <1>2 DEF LossesAreNoticed
<1>5. run \in 1..Len(Runs(config)) /\ Len(Runs(config)) \in Nat
  BY <1>1, RunsOK DEF WorkloadInv, RunInv
<1>6. /\ run' \in 1..(Len(Runs(config')) + 1)
      /\ next' # "end" => run' \in 1..Len(Runs(config'))
  BY <1>1, <1>2, <1>5
<1>7. RunInv'
  BY <1>2, <1>4, <1>6 DEF RunInv, ElfPhases
<1>8. QED
  BY <1>3, <1>7 DEF WorkloadInv

LEMMA WorkloadStutters ==
  ASSUME WorkloadInv, UNCHANGED vars
  PROVE  WorkloadInv'
<1>1. ChosenInv' /\ PrepInv'
  BY DEF WorkloadInv, ChosenInv, PrepInv, vars
<1>2. RunInv'
  <2>1. LossesAreNoticed'
    BY DEF WorkloadInv, RunInv, LossesAreNoticed, vars
  <2>2. QED
    BY <2>1 DEF WorkloadInv, RunInv, vars
<1>3. QED
  BY <1>1, <1>2 DEF WorkloadInv

LEMMA WorkloadStep ==
  ASSUME WorkloadInv, [Next]_vars
  PROVE  WorkloadInv'
<1>1. CASE Prepare
  BY <1>1, PrepareKeeps
<1>2. CASE \E k \in Kinds : buildIndex(k)
  BY <1>2, BuildKeeps
<1>3. CASE UTrunExactMatch \/ runRangeQuery
  BY <1>3, ExactAndRangeKeep
<1>4. CASE runQuery
  BY <1>4, RunQueryKeeps
<1>5. CASE runParallel
  BY <1>5, RunParallelKeeps
<1>6. CASE compare_results
  BY <1>6, CompareKeeps
<1>7. CASE clear_vectors
  BY <1>7, ClearKeeps
<1>8. CASE UNCHANGED vars
  BY <1>8, WorkloadStutters
<1>9. QED
  BY <1>1, <1>2, <1>3, <1>4, <1>5, <1>6, <1>7, <1>8 DEF Next

\* The invariant holds in every state.
LEMMA WorkloadInvariant == Spec => []WorkloadInv
<1>1. Init => WorkloadInv
  BY WorkloadInit
<1>2. WorkloadInv /\ [Next]_vars => WorkloadInv'
  BY WorkloadStep
<1>3. QED
  BY <1>1, <1>2, PTL DEF Spec
-----------------------------------------------------------------------------
(* The properties. *)

\* No update draws a number that is not there, the functions that run queries
\* are called in order, and every bound of every query is in order and in the
\* range of a register: srand, RangeQueries and the updates of src/tpc_h.h.
THEOREM WorkloadTypeCorrect == Spec => []WorkloadTypeOK
<1>1. WorkloadInv => WorkloadTypeOK
  <2> SUFFICES ASSUME WorkloadInv PROVE WorkloadTypeOK
    OBVIOUS
  <2>1. ChosenInv /\ PrepInv /\ RunInv
    BY DEF WorkloadInv
  <2>2. drawn \in 0..Len(stream)
    BY <2>1, DrawnInRange
  <2>3. run \in 1..(Len(Runs(config)) + 1)
    BY <2>1 DEF RunInv
  <2>4. \A p \in DOMAIN partials : \A i \in 1..NUM_Partials :
          BoxOK(partials[p].bounds[i])
    BY <2>1, BoxesOfQueries
  <2>5. QED
    BY <2>2, <2>3, <2>4 DEF WorkloadTypeOK, BoxOK
<1>2. QED
  BY <1>1, WorkloadInvariant, PTL

\* When the preparation of main is over, each shared array has the columns of
\* the update of every PartialMatchQueries that uses it.
THEOREM SharedColumns == Spec => []SharedColumnsAgree
<1>1. WorkloadInv => SharedColumnsAgree
  BY AgreeInPrepared DEF WorkloadInv
<1>2. QED
  BY <1>1, WorkloadInvariant, PTL

\* A query of Q14 has every day of its month, and at most one day that is not.
THEOREM MonthsCovered == Spec => []MonthsAreCovered
<1>1. WorkloadInv => MonthsAreCovered
  BY MonthsInPrepared DEF WorkloadInv
<1>2. QED
  BY <1>1, WorkloadInvariant, PTL

\* When compare_results lets main go on, the answers of the parallel Elf lack
\* only TIDs that the junk of another answer hides.
THEOREM LossesNoticed == Spec => []LossesAreNoticed
<1>1. WorkloadInv => LossesAreNoticed
  BY DEF WorkloadInv, RunInv
<1>2. QED
  BY <1>1, WorkloadInvariant, PTL
=============================================================================
