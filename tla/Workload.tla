------------------------------ MODULE Workload ------------------------------
(***************************************************************************)
(* The driver (src/main.cpp): it reads a table, generates the queries,     *)
(* builds an index, asks it for every row, and runs the queries; the       *)
(* answers of the parallel Elfs it compares with those of the sequential   *)
(* one.  Each action is a call of one of its functions.  The indexes other *)
(* than the Elfs are chosen in src/Config.h.  The configuration "Veit"     *)
(* stands for the queries of src/tpc_h.h that main does not run.           *)
(***************************************************************************)
EXTENDS Imprints, SortedProjections, TpchQueries

CONSTANTS Configs,       \* "LineItem", "Part" or "Veit"
          NUM_Partials,  \* queries of each kind
          Streams,       \* what rand() returns after srand(123456): sequences
          Kinds,         \* classes of indexes
          Junks,         \* what memory that is never written holds
          NoIndex

Scans == {"Colseqscan", "SIMDSeqScan"}
CompressedImprints == {"ImprintIndex"}
PlainImprints == {"ImprintIndexWithoutCompression",
                  "ImprintSIMDIndexWithoutCompression",
                  "ImprintSIMD64IndexWithoutCompression"}
ImprintKinds == CompressedImprints \cup PlainImprints

\* rand() always returns a number: a stream is as long as the most that are
\* drawn after one srand().  Values are signed numbers of a register, and so is
\* the last date that a query can have.
ASSUME WorkloadAssumption ==
  /\ Configs \subseteq {"LineItem", "Part", "Veit"}
  /\ Kinds \subseteq Scans \cup ImprintKinds \cup {"SortedProjection", "Elf"}
  /\ NUM_Partials \in Nat \ {0}
  /\ \A s \in Streams : s \in Seq(Nat) /\ Len(s) >= 8 * NUM_Partials
  /\ \A s \in Tables : \A t \in DOMAIN s, d \in Dims : s[t][d] <= DIM_MAX
  /\ DIM_MAX >= generateQ1EndDate(119)

VARIABLES config, stream, junk,  \* chosen once
          STORE,      \* the table
          drawn,      \* calls of rand() since srand()
          partials,   \* the PartialMatchQueries: bounds, the number of their
                      \* columnsForSelect array, and what made the bounds
          columns,    \* the arrays: sets of dimensions
          done,       \* steps of the preparation that are done
          kind, index,
          exacts,     \* what UTrunExactMatch has found for each row
          run,        \* the number of the next function that runs queries
          next,       \* what main calls next
          result,     \* the answers of the last call, in order
          result_ELF  \* those of the sequential Elf, to compare with

vars == <<config, stream, junk, STORE, drawn, partials, columns, done, kind,
          index, exacts, run, next, result, result_ELF>>
-----------------------------------------------------------------------------
(* The queries. *)

New(p, array) == [op |-> "new", p |-> p, array |-> array]
Fill(p, name) == [op |-> "update", p |-> p, name |-> name]

\* The statements of main that make the queries: the PartialMatchQueries with
\* the dimsForSelection that they share, and their updates.
Preparation(c) ==
  CASE c = "LineItem" ->
         <<New(1, 1), New(2, 2), Fill(1, "Q1"), Fill(2, "Q6"),
           New(3, 3), Fill(3, "Q10"), New(4, 1), Fill(4, "Q14"),
           New(5, 4), New(6, 4), New(7, 4),
           Fill(5, "LQ19_1"), Fill(6, "LQ19_2"), Fill(7, "LQ19_3")>>
    [] c = "Part" ->
         <<New(1, 1), New(2, 2), New(3, 2), New(4, 2), Fill(1, "Q17"),
           Fill(2, "Q19_1"), Fill(3, "Q19_2"), Fill(4, "Q19_3")>>
    [] c = "Veit" ->
         <<New(1, 1), Fill(1, "Veit"), New(2, 2), Fill(2, "Veit5"),
           New(3, 3), Fill(3, "Veit6")>>

\* The PartialMatchQueries that runQ1Query, ..., runQ19Query are called with.
Runs(c) ==
  CASE c = "LineItem" -> <<<<1>>, <<2>>, <<3>>, <<4>>, <<5, 6, 7>>>>
    [] c = "Part" -> <<<<1>>, <<2, 3, 4>>>>
    [] c = "Veit" -> <<<<1>>, <<2>>, <<3>>>>

rand(n) == stream[drawn + n]

\* Variant: the corners as they come.
CornersUnsorted(s, random1, random2) ==
  [lower |-> s[random1 % NumPoints(s)], upper |-> s[random2 % NumPoints(s)]]

\* RangeQueries: srand, and the box of two rows of the table for each query.
Corners(s, random1, random2) ==
  LET p1 == s[random1 % NumPoints(s)]
      p2 == s[random2 % NumPoints(s)]
  IN  [lower |-> [d \in Dims |-> IF p1[d] < p2[d] THEN p1[d] ELSE p2[d]],
       upper |-> [d \in Dims |-> IF p1[d] < p2[d] THEN p2[d] ELSE p1[d]]]
RandomRanges(s) ==
  [i \in 1..NUM_Partials |-> Corners(s, stream[2 * i - 1], stream[2 * i])]

\* The bounds of an update, 0 in the dimensions that it does not select.
Bounds(selected) ==
  [lower |-> [d \in Dims |-> IF d \in DOMAIN selected THEN selected[d][1] ELSE 0],
   upper |-> [d \in Dims |-> IF d \in DOMAIN selected THEN selected[d][2] ELSE 0]]

Updates(name) ==
  [i \in 1..NUM_Partials |->
     Update(name, [n \in 1..Rands(name) |-> rand((i - 1) * Rands(name) + n)])]

Query(bounds, selected) ==
  [op |-> "partial", lower |-> bounds.lower, upper |-> bounds.upper,
   columns |-> [d \in Dims |-> d \in selected]]

\* The queries of a run: one of each of its PartialMatchQueries after the other.
QueriesOf(ps) ==
  [n \in 1..(NUM_Partials * Len(ps)) |->
     LET p == partials[ps[((n - 1) % Len(ps)) + 1]]
     IN  Query(p.bounds[((n - 1) \div Len(ps)) + 1], columns[p.array])]
RangesOf(s) ==
  [i \in 1..NUM_Partials |-> Query(RandomRanges(s)[i], Dims)]
-----------------------------------------------------------------------------
(* The indexes. *)

Build(k, s, j) ==
  CASE k \in Scans -> [cols |-> Columns(s, j)]
    [] k \in CompressedImprints ->
         [cols |-> Columns(s, j), imps |-> [d \in Dims |-> BATimprints(s, d)]]
    [] k \in PlainImprints ->
         [cols |-> Columns(s, j),
          imps |-> [d \in Dims |-> createColumnImprint(s, d)]]
    [] k = "SortedProjection" -> [projections |-> BuildProjections(s)]
    [] k = "Elf" -> NoIndex

PointQuery(point) ==
  [op |-> "exact", lower |-> point, upper |-> point,
   columns |-> [d \in Dims |-> TRUE]]

\* The sequential Elf answers what a scan answers: that is what ElfIndex shows.
ExactMatch(q) ==
  LET n == NumPoints(STORE)
  IN  CASE kind = "Colseqscan" -> ColseqExactMatch(index.cols, n, q)
        [] kind = "SIMDSeqScan" -> SIMDExactMatch(index.cols, n, q)
        [] kind \in CompressedImprints -> ImprintExactMatch(index, q)
        [] kind \in PlainImprints -> ExactWithoutCompression(kind, index, q)
        [] kind = "SortedProjection" ->
             ProjectionExactMatch(STORE, index.projections, q)
        [] kind = "Elf" -> Min(ScanAnswer(STORE, q))

Match(q) ==
  LET n == NumPoints(STORE)
  IN  CASE kind = "Colseqscan" -> ColseqMatch(index.cols, n, q)
        [] kind = "SIMDSeqScan" -> SIMDMatch(index.cols, n, q)
        [] kind \in CompressedImprints -> ImprintMatch(index, n, q)
        [] kind \in PlainImprints -> WithoutCompression(kind, index, n, q)
        [] kind = "SortedProjection" ->
             ProjectionMatches(STORE, index.projections, q)
        [] kind = "Elf" -> Scan(STORE, q)

\* An answer is a vector: some TIDs, each once, and how often junk is in it.
\* The sorted projection finds rows but returns only junk.
Answered(q) ==
  IF kind = "SortedProjection"
  THEN [query |-> q, tids |-> {}, junks |-> Cardinality(Match(q))]
  ELSE [query |-> q, tids |-> Match(q), junks |-> 0]
Answers(qs) == [i \in DOMAIN qs |-> Answered(qs[i])]

\* There is no projection for it: the program would look past the last one.
Answerable(qs) ==
  kind = "SortedProjection" => \A i \in DOMAIN qs : Suitable(qs[i]) # {}

\* What the races of the parallel Elfs leave of the answers, as SubtreeMatch
\* and NodeLevelMatch show: a TID may be lost, and two tasks that append at
\* once may leave a place that nobody has written.
Hurt(answer, junks) ==
  [answer EXCEPT !.tids = @ \ {Min(@)}, !.junks = @ + junks]
Raced(answers) ==
  LET full == {i \in DOMAIN answers : answers[i].tids # {}}
  IN  {answers}
        \cup {[answers EXCEPT ![i] = Hurt(@, n)] : i \in full, n \in 0..1}
        \cup {[answers EXCEPT ![x[1]] = Hurt(@, 0), ![x[2]] = Hurt(@, 1)] :
                x \in {y \in full \X full : y[1] # y[2]}}
-----------------------------------------------------------------------------
Init ==
  /\ config \in Configs /\ stream \in Streams /\ junk \in Junks
  /\ STORE \in Tables
  /\ drawn = 0 /\ done = 0 /\ run = 1 /\ next = "prepare"
  /\ partials = <<>> /\ columns = <<>>
  /\ kind = "none" /\ index = NoIndex
  /\ exacts = <<>> /\ result = <<>> /\ result_ELF = <<>>

Chosen == <<config, stream, junk, STORE>>
Prepared == <<drawn, partials, columns, done>>

\* Variant: one array for all.
NewQueriesOneArray(step) ==
  /\ step.op = "new"
  /\ drawn' = 2 * NUM_Partials
  /\ partials' = With(partials, step.p,
                      [bounds |-> RandomRanges(STORE),
                       array |-> 1, name |-> "random"])
  /\ columns' = IF columns = <<>> THEN Only(1, {}) ELSE columns

\* The next statement of the preparation: new PartialMatchQueries ...
NewQueries(step) ==
  /\ step.op = "new"
  /\ drawn' = 2 * NUM_Partials
  /\ partials' = With(partials, step.p,
                      [bounds |-> RandomRanges(STORE),
                       array |-> step.array, name |-> "random"])
  /\ columns' = IF step.array \in DOMAIN columns THEN columns
                ELSE With(columns, step.array, {})

\* ... or an update, of the bounds and of the shared array.
UpdateQueries(step) ==
  /\ step.op = "update"
  /\ LET updates == Updates(step.name)
     IN  /\ partials' = With(partials, step.p,
              [bounds |-> [i \in 1..NUM_Partials |-> Bounds(updates[i])],
               array |-> partials[step.p].array, name |-> step.name])
         /\ columns' = [columns EXCEPT ![partials[step.p].array] =
                                         DOMAIN updates[1]]
  /\ drawn' = drawn + NUM_Partials * Rands(step.name)

Prepare ==
  /\ next = "prepare"
  /\ LET step == Preparation(config)[done + 1]
     IN  NewQueries(step) \/ UpdateQueries(step)
  /\ done' = done + 1
  /\ next' = IF done' = Len(Preparation(config)) THEN "build" ELSE "prepare"
  /\ UNCHANGED <<Chosen, kind, index, exacts, run, result, result_ELF>>

buildIndex(k) ==
  /\ next = "build"
  /\ kind' = k
  /\ index' = Build(k, STORE, junk)
  /\ next' = "exact"
  /\ UNCHANGED <<Chosen, Prepared, exacts, run, result, result_ELF>>

\* UTrunExactMatch prints the rows for which another TID comes back.
UTrunExactMatch ==
  /\ next = "exact"
  /\ exacts' = [t \in DOMAIN STORE |-> ExactMatch(PointQuery(STORE[t]))]
  /\ next' = IF kind = "Elf" THEN "run" ELSE "range"
  /\ UNCHANGED <<Chosen, Prepared, kind, index, run, result, result_ELF>>

\* windowQuery of SortedProjection is not implemented.
runRangeQuery ==
  /\ next = "range"
  /\ result' = IF kind = "SortedProjection" THEN <<>>
               ELSE Answers(RangesOf(STORE))
  /\ next' = "run"
  /\ UNCHANGED <<Chosen, Prepared, kind, index, exacts, run, result_ELF>>

More(n) == n < Len(Runs(config))
ThisRun == QueriesOf(Runs(config)[run])

\* runQ1Query to runQ19Query: result has the answers of one index.
runQuery ==
  /\ next = "run" /\ Answerable(ThisRun)
  /\ result' = Answers(ThisRun)
  /\ IF kind = "Elf"
     THEN next' = "subtree" /\ result_ELF' = result' /\ run' = run
     ELSE /\ next' = IF More(run) THEN "run" ELSE "end"
          /\ run' = run + 1
          /\ UNCHANGED result_ELF
  /\ UNCHANGED <<Chosen, Prepared, kind, index, exacts>>

\* The same with elfFinal64_subtree or elfFinal64_nodelevel_enqueue.
runParallel ==
  /\ next \in {"subtree", "node level"}
  /\ result' \in Raced(Answers(ThisRun))
  /\ next' = IF next = "subtree" THEN "compare subtree" ELSE "compare node level"
  /\ UNCHANGED <<Chosen, Prepared, kind, index, exacts, run, result_ELF>>

\* How often a TID is in the concatenation of the answers.
Times(answers, t) ==
  LET junks[i \in 0..Len(answers)] ==
        IF i = 0 THEN 0 ELSE junks[i - 1] + answers[i].junks
  IN  Cardinality({i \in DOMAIN answers : t \in answers[i].tids})
        + (IF t = junk THEN junks[Len(answers)] ELSE 0)

\* Variant: the operands of set_difference swapped.
result_differenceSwapped ==
  {t \in DOMAIN STORE : Times(result, t) > Times(result_ELF, t)}

result_difference ==
  {t \in DOMAIN STORE : Times(result_ELF, t) > Times(result, t)}

\* A TID of the sequential Elf that is missing ends the program.
compare_results ==
  /\ next \in {"compare subtree", "compare node level"}
  /\ next' = IF result_difference # {} THEN "exit"
             ELSE IF next = "compare subtree" THEN "node level" ELSE "clear"
  /\ UNCHANGED <<Chosen, Prepared, kind, index, exacts, run, result, result_ELF>>

clear_vectors ==
  /\ next = "clear"
  /\ result' = <<>> /\ result_ELF' = <<>>
  /\ run' = run + 1
  /\ next' = IF More(run) THEN "run" ELSE "end"
  /\ UNCHANGED <<Chosen, Prepared, kind, index, exacts>>

Next ==
  \/ Prepare
  \/ \E k \in Kinds : buildIndex(k)
  \/ UTrunExactMatch \/ runRangeQuery
  \/ runQuery \/ runParallel \/ compare_results \/ clear_vectors

Spec == Init /\ [][Next]_vars
-----------------------------------------------------------------------------
WorkloadTypeOK ==
  /\ drawn \in 0..Len(stream)
  /\ run \in 1..(Len(Runs(config)) + 1)
  /\ \A p \in DOMAIN partials : \A i \in 1..NUM_Partials : \A d \in Dims :
       LET b == partials[p].bounds[i]
       IN  0 <= b.lower[d] /\ b.lower[d] <= b.upper[d] /\ b.upper[d] <= DIM_MAX

\* When a run begins, the array of columns of each PartialMatchQueries has the
\* columns of its own update, although it is shared and several updates have
\* written it; the bounds of the other columns are 0.
SharedColumnsAgree ==
  next # "prepare" => \A p \in DOMAIN partials :
    LET mine == DOMAIN Update(partials[p].name, <<0, 0, 0, 0, 0, 0>>)
    IN  /\ columns[partials[p].array] = mine
        /\ \A i \in 1..NUM_Partials : \A d \in Dims \ mine :
             partials[p].bounds[i].lower[d] = 0
               /\ partials[p].bounds[i].upper[d] = 0

\* A query of Q14 has every day of a month, and one day more that is not of
\* that month, except for the February with a leap day.
MonthsAreCovered ==
  \A p \in DOMAIN partials : partials[p].name = "Q14" =>
    \A i \in 1..NUM_Partials : \E year \in 0..4, month \in 0..11 :
      LET days == Following(FirstDay(year, month), DaysOf(year, month))
          bounds == partials[p].bounds[i]
          found == bounds.lower[DATE_COLUMN]..bounds.upper[DATE_COLUMN]
      IN  /\ days \subseteq found
          /\ Cardinality(found \ days)
               = IF year = 3 /\ month = 1 THEN 0 ELSE 1

\* With an upper bound of INT_MAX the bound of the register is the smallest
\* number, and no value is below it.
Wraps(q) == \E d \in Dims : q.columns[d] /\ q.upper[d] = DIM_MAX

\* The rows after the last 16 that the SIMD scan looks at.
LeftOver == {t \in DOMAIN STORE :
               t >= ((NumPoints(STORE) + TIDS_PER_BYTE - 1) \div LINE) * LINE}

\* The first digit of the radix sort reaches the values of the dimension.
SortReaches(first) ==
  \/ NumPoints(STORE) < INTROSORT_SWITCH
  \/ \E k \in 0..VALUE_BITS :
       /\ k * LOG2_OF_NUMBER_OF_BINS <= BitLength(maxDims(STORE)[0])
       /\ maxDims(STORE)[first] < 2^((k + 1) * LOG2_OF_NUMBER_OF_BINS)

\* In the compressed imprints of the first column there is a header of a run
\* that ends before the cache line of the row.
RepeatBefore(t) ==
  LET dict == index.imps[0].dict
      end(k) == FoldLeft(LAMBDA sum, line : sum + line.cnt, 0, SubSeq(dict, 1, k))
  IN  \E k \in DOMAIN dict : dict[k].repeat /\ end(k) <= t \div LINE

FirstEqualRow(t) == Min({u \in DOMAIN STORE : STORE[u] = STORE[t]})

\* The scans of columns answer every query and find every row as a scan of the
\* table does, but the SIMD scan has the rows that are left over in every
\* answer, and finds nothing else when a bound wraps.  A sorted projection
\* finds as many rows as agree with the query on the dimensions that it has,
\* when its sort reaches their values, but not their TIDs; exactMatch does not
\* look at the last of its dimensions.
ColumnsAnswerAsAScan ==
  /\ \A i \in DOMAIN result :
       LET q == result[i].query
           tids == result[i].tids
       IN  CASE kind = "Colseqscan" -> tids = Scan(STORE, q)
             [] kind = "SIMDSeqScan" ->
                  tids = LeftOver \cup
                           (IF Wraps(q) THEN {} ELSE Scan(STORE, q))
             [] kind = "SortedProjection" ->
                  LET last == Projections[Min(Suitable(q))][2]
                      first == Projections[Min(Suitable(q))][1]
                      narrowed == [q EXCEPT !.columns =
                                     [d \in Dims |-> @[d] /\ d <= last]]
                  IN  SortReaches(first)
                        => result[i].junks = Cardinality(Scan(STORE, narrowed))
             [] OTHER -> TRUE
  /\ \A t \in DOMAIN exacts :
       CASE kind \in Scans -> exacts[t] = FirstEqualRow(t)
         [] kind = "SortedProjection" ->
              /\ exacts[t] \in DOMAIN STORE
              /\ \A d \in 0..(Projections[1][2] - 1) :
                   STORE[exacts[t]][d] = STORE[t][d]
         [] OTHER -> TRUE

\* The imprints answer every query as a scan of the table does, also with runs
\* of equal imprints and a last cache line that is not full; those with SIMD
\* may miss rows when a bound wraps.  The compressed index finds a row when no
\* repeat header is before its cache line, and otherwise may miss it or find
\* an equal one.
ImprintsAnswerAsAScan ==
  kind \in ImprintKinds =>
    /\ \A i \in DOMAIN result :
         LET q == result[i].query
             simd == kind \notin {"ImprintIndex",
                                  "ImprintIndexWithoutCompression"}
         IN  IF simd /\ Wraps(q)
             THEN result[i].tids \subseteq Scan(STORE, q)
             ELSE result[i].tids = Scan(STORE, q)
    /\ \A t \in DOMAIN exacts :
         IF kind = "ImprintIndex" /\ RepeatBefore(FirstEqualRow(t))
         THEN exacts[t] # NOT_FOUND => STORE[exacts[t]] = STORE[t]
         ELSE exacts[t] = FirstEqualRow(t)

\* When the driver goes on after a comparison, the only TIDs that a parallel
\* Elf has lost are those that another answer of the same run has by chance.
LossesAreNoticed ==
  kind = "Elf" /\ next \in {"node level", "clear"} =>
    \A i \in DOMAIN result :
      \A t \in Scan(STORE, result[i].query) \ result[i].tids :
        t = junk /\ \E j \in DOMAIN result : result[j].junks > 0
=============================================================================
