------------------------------ MODULE ElfIndex ------------------------------
(***************************************************************************)
(* Elf_final64 (src/Elf_final64.h): the Elf of a table in one array of     *)
(* words, built by buildIndex and searched by exactMatch, windowQuery and  *)
(* partialMatch, as one thread does it.                                    *)
(*                                                                         *)
(* Words hold natural numbers.  A word at or above LAST_ENTRY_MASK ends a  *)
(* list; a pointer at or above LAST_ENTRY_MASK64 leads to a mono list.  A  *)
(* pointer takes two words: its value is kept in the first, 0 in the       *)
(* second.  The masks are above every value and every position, so that    *)
(* setting the bit is an addition.                                         *)
(*                                                                         *)
(* A call of the recursive build and a turn of a loop of the recursive     *)
(* queries are a step.  What a call has still to do is in todo and calls.  *)
(***************************************************************************)
EXTENDS Store, Sequences, Functions

CONSTANTS LAST_ENTRY_MASK, LAST_ENTRY_MASK64

\* buildIndex allocates 2 * requiredInts words for n rows.
WordsFor(n) == 2 * n * (NUM_DIM + 3)

ASSUME ElfAssumption ==
  /\ NUM_DIM >= 2
  /\ LAST_ENTRY_MASK \in Nat /\ LAST_ENTRY_MASK64 \in Nat
  /\ NOT_FOUND \in Nat /\ NOT_FOUND >= 2 * LAST_ENTRY_MASK64
  /\ \A s \in Tables :
       /\ Cardinality(DOMAIN s) <= LAST_ENTRY_MASK
       /\ WordsFor(Cardinality(DOMAIN s)) <= LAST_ENTRY_MASK64
       /\ \A t \in DOMAIN s : \A d \in Dims : s[t][d] < LAST_ENTRY_MASK
       \* the "density property in first dim" that exactMatch exploits
       /\ \A t \in DOMAIN s : \A v \in 0..s[t][0] :
            \E u \in DOMAIN s : s[u][0] = v

VARIABLES STORE,          \* the table: what getPoint returns for each TID
          ELF,            \* the words written so far, by position
          writePointer,
          MAX_FIRST_DIM,  \* the largest value of dimension 0
          todo,           \* what the build has still to do: the slot of a
                          \*   pointer, the rows behind it and their dimension
          stage,          \* "new", "build", "ready", "match", "exact", "done"
          offset,         \* the next pointer of dimension 0 that is followed
          calls,          \* the lists that are being walked: the dimension
                          \*   and the position of the entry that is next
          query,
          result,         \* resultTIDs; what exactMatch returns
          lists, monos    \* history: the lists and mono lists of the build

elfVars == <<STORE, ELF, writePointer, MAX_FIRST_DIM, todo, lists, monos>>
queryVars == <<offset, calls, query, result>>
vars == <<elfVars, stage, queryVars>>

TIDs == DOMAIN STORE
NUM_POINTS == Cardinality(TIDs)

\* Variant: requiredInts words.
CapacityHalved == NUM_POINTS * (NUM_DIM + 3)

Capacity == WordsFor(NUM_POINTS)
-----------------------------------------------------------------------------
\* The result of sort() on dimension d and of the loop that finds where the
\* value changes: the rows in groups of equal values, in ascending order of the
\* values.
ValuesOf(T, d) == {STORE[t][d] : t \in T}
Group(T, d, v) == {t \in T : STORE[t][d] = v}
Rank(T, d, v) == Cardinality({u \in ValuesOf(T, d) : u < v})
IsLastValue(T, d, v) == \A u \in ValuesOf(T, d) : u <= v

\* The entries of a list, which are a value and a pointer, and the value that
\* is written there, with the mark on the last one.
Entry(start, T, d, v) == start + 3 * Rank(T, d, v)
Word(T, d, v) == IF IsLastValue(T, d, v) THEN v + LAST_ENTRY_MASK ELSE v
Header(start, T, d) ==
  [p \in {Entry(start, T, d, v) : v \in ValuesOf(T, d)} |->
     Word(T, d, CHOOSE v \in ValuesOf(T, d) : p = Entry(start, T, d, v))]

\* The words of f, and those of g where f has none.
Over(f, g) == [p \in DOMAIN f \cup DOMAIN g |->
                 IF p \in DOMAIN f THEN f[p] ELSE g[p]]

\* set64
set64(slot, val) == [p \in {slot, slot + 1} |-> IF p = slot THEN val ELSE 0]

Job(slot, T, d) == [slot |-> slot, tids |-> T, dim |-> d]

Init ==
  /\ STORE \in Tables
  /\ ELF = <<>>
  /\ writePointer = 0
  /\ MAX_FIRST_DIM = 0
  /\ todo = {}
  /\ stage = "new"
  /\ offset = 0
  /\ calls = {}
  /\ query = NoQuery
  /\ result = <<>>
  /\ lists = {} /\ monos = {}

\* buildFromDataSorting: room for the pointers of dimension 0, one for each
\* value, in the order of the values.
buildFromDataSorting ==
  /\ stage = "new"
  /\ \E v \in ValuesOf(TIDs, 0) : IsLastValue(TIDs, 0, v) /\ MAX_FIRST_DIM' = v
  /\ writePointer' = (MAX_FIRST_DIM' + 1) * 2
  /\ todo' = {Job(2 * Rank(TIDs, 0, v), Group(TIDs, 0, v), 1) :
                v \in ValuesOf(TIDs, 0)}
  /\ stage' = "build"
  /\ UNCHANGED <<STORE, ELF, lists, monos, queryVars>>

\* The recursion goes down before it goes on.
IsNext(j) == /\ j \in todo
             /\ \A i \in todo : \/ i.dim < j.dim
                                \/ i.dim = j.dim /\ j.slot <= i.slot

\* A step of the build has written words, from the writePointer to end, besides
\* the pointer of job j, and leaves new jobs.
Wrote(j, words, end, newJobs) ==
  /\ stage = "build"
  /\ IsNext(j)
  /\ ELF' = Over(words, ELF)
  /\ writePointer' = end
  /\ todo' = (todo \ {j}) \cup newJobs
  /\ UNCHANGED <<STORE, MAX_FIRST_DIM, stage, queryVars>>

\* More than one row: the list that tells them apart on dimension d, with a job
\* for each entry.
createDimListSorting(j) ==
  LET T == j.tids
      d == j.dim
      entry(v) == Entry(writePointer, T, d, v)
  IN  /\ d < NUM_DIM /\ Cardinality(T) > 1
      /\ Wrote(j, Over(set64(j.slot, writePointer), Header(writePointer, T, d)),
               writePointer + 3 * Cardinality(ValuesOf(T, d)),
               {Job(entry(v) + 1, Group(T, d, v), d + 1) : v \in ValuesOf(T, d)})
      /\ lists' = lists \cup {[position |-> writePointer, tids |-> T, dim |-> d]}
      /\ UNCHANGED monos

\* The TID that is taken for the one row of a group.  In the last group of
\* dimension 0 the code reads temp.ary[begin], which is the row's TID only when
\* begin is 0 and lies behind the end of data_array otherwise: it is whatever
\* TID the memory happens to hold.
TIDsRead(T, d) ==
  IF d = 1 /\ NUM_POINTS # 1 /\ \A t \in T : STORE[t][0] = MAX_FIRST_DIM
  THEN TIDs ELSE T

\* One row: linearize_elf_mono writes what is left of it from dimension d, and
\* the TID, which is marked in a list but not behind a pointer of dimension 0.
linearize_elf_mono(j) ==
  LET d == j.dim
      end == writePointer + NUM_DIM - d
  IN  /\ d < NUM_DIM /\ Cardinality(j.tids) = 1
      /\ \E tid \in TIDsRead(j.tids, d) :
           /\ Wrote(j, Over(set64(j.slot, writePointer + LAST_ENTRY_MASK64),
                            [p \in writePointer..end |->
                               IF p < end THEN STORE[tid][d + p - writePointer]
                               ELSE IF d > 1 THEN tid + LAST_ENTRY_MASK ELSE tid]),
                    end + 1, {})
           /\ monos' = monos \cup
                {[position |-> writePointer, tid |-> tid, dim |-> d]}
      /\ UNCHANGED lists

\* Equal rows, behind an entry of the last dimension: their TIDs, in whatever
\* order the sorts have left them, each with a pointer that overwrites that of
\* the one before, and the mark on the last one.
linearize_equal(j) ==
  LET end == writePointer + Cardinality(j.tids) - 1
  IN  /\ j.dim = NUM_DIM
      /\ \E order \in Bijection(writePointer..end, j.tids) :
           /\ Wrote(j, Over(set64(j.slot, end + LAST_ENTRY_MASK64),
                            [p \in writePointer..end |->
                               IF p = end THEN order[p] + LAST_ENTRY_MASK
                                          ELSE order[p]]),
                    end + 1, {})
           /\ monos' = monos \cup
                {[position |-> end, tid |-> order[end], dim |-> NUM_DIM]}
      /\ UNCHANGED lists

Built ==
  /\ stage = "build"
  /\ todo = {}
  /\ stage' = "ready"
  /\ UNCHANGED <<elfVars, queryVars>>
-----------------------------------------------------------------------------
\* Variant: the recover mask is not applied.
RecoverNothing(word) == word

Recover(word) == IF word < LAST_ENTRY_MASK THEN word ELSE word - LAST_ENTRY_MASK
Recover64(pointer) == pointer - LAST_ENTRY_MASK64

\* What the queries read: an entry of a list, and a mono list on dimension d.
ValueAt(position) == Recover(ELF[position])
EndsAt(position) == ELF[position] >= LAST_ENTRY_MASK
PointerAt(position) == ELF[position + 1]
MonoTID(d, start) == Recover(ELF[start + NUM_DIM - d])

\* A call for the list that a pointer leads to.
CallFor(d, pointer) == IF pointer < LAST_ENTRY_MASK64
                       THEN {[dim |-> d, position |-> pointer]} ELSE {}

\* partialMatchMonoList and evluateWindowOnMonoList, for a pointer to one.
Pushed(d, pointer) ==
  LET start == Recover64(pointer)
  IN  IF /\ pointer >= LAST_ENTRY_MASK64
         /\ \A k \in d..(NUM_DIM - 1) :
              query.columns[k] => isIn(query, k, ELF[start + k - d])
      THEN <<MonoTID(d, start)>> ELSE <<>>

\* windowQuery and partialMatch begin with the first pointer of dimension 0.
\* The bounds on dimension 0 are values of the table, so that no offset lies
\* behind the first list.
Ask(q) ==
  /\ stage = "ready"
  /\ q.op # "exact"
  /\ q.columns[0] => q.upper[0] <= MAX_FIRST_DIM
  /\ query' = q
  /\ offset' = IF q.columns[0] THEN q.lower[0] * 2 ELSE 0
  /\ stage' = "match"
  /\ UNCHANGED <<elfVars, calls, result>>

UPPER == 2 * (IF query.columns[0] THEN query.upper[0] ELSE MAX_FIRST_DIM)

\* The loop over dimension 0.
NextPointer ==
  /\ stage = "match"
  /\ calls = {}
  /\ offset <= UPPER
  /\ calls' = CallFor(1, ELF[offset])
  /\ result' = result \o Pushed(1, ELF[offset])
  /\ offset' = offset + 2
  /\ UNCHANGED <<elfVars, stage, query>>

\* Variant: a value above the bound ends the list on every dimension.
AboveOnAny(d, value) == query.upper[d] < value

\* A value behind which the list has no more rows for the query.
Above(d, value) == query.columns[d] /\ query.upper[d] < value

\* An entry of the list that is walked on the highest dimension.
NextEntry(c) ==
  LET d == c.dim
      value == ValueAt(c.position)
      inside == query.columns[d] => isIn(query, d, value)
      rest == IF EndsAt(c.position) \/ Above(d, value) THEN {}
              ELSE {[c EXCEPT !.position = @ + 3]}
  IN  /\ stage = "match"
      /\ c \in calls /\ \A b \in calls : b.dim <= d
      /\ IF inside
         THEN /\ calls' = (calls \ {c}) \cup rest
                            \cup CallFor(d + 1, PointerAt(c.position))
              /\ result' = result \o Pushed(d + 1, PointerAt(c.position))
         ELSE calls' = (calls \ {c}) \cup rest /\ UNCHANGED result
      /\ UNCHANGED <<elfVars, stage, offset, query>>

Return ==
  /\ stage = "match"
  /\ calls = {}
  /\ offset > UPPER
  /\ stage' = "done"
  /\ UNCHANGED <<elfVars, queryVars>>
-----------------------------------------------------------------------------
\* exactMatch with a pointer, and what is left of the point from dimension d:
\* its loop goes on with a list, or it compares the mono list and returns.
Continue(d, pointer, point) ==
  LET start == Recover64(pointer)
  IN  /\ calls' = CallFor(d, pointer)
      /\ IF pointer < LAST_ENTRY_MASK64
         THEN stage' = "exact" /\ result' = <<>>
         ELSE /\ stage' = "done"
              /\ result' = IF \A k \in d..(NUM_DIM - 1) :
                                point[k] = ELF[start + k - d]
                           THEN <<MonoTID(d, start)>> ELSE <<NOT_FOUND>>

exactMatch(q) ==
  /\ stage = "ready"
  /\ q.op = "exact"
  /\ q.lower[0] <= MAX_FIRST_DIM
  /\ query' = q
  /\ Continue(1, ELF[q.lower[0] * 2], q.lower)
  /\ UNCHANGED <<elfVars, offset>>

\* Variant: the value that carries the mark is not looked at.
IsAtMarked(value, position) == value = ELF[position]

\* The entry is the one that listContains looks for.
IsAt(value, position) == value = ValueAt(position)

\* A turn of the loop of listContains.  NOT_FOUND leaves the loop of exactMatch
\* like a pointer to a mono list, because it is compared as an unsigned number.
listContains(c) ==
  LET VALUE == query.lower[c.dim]
  IN  /\ stage = "exact"
      /\ c \in calls
      /\ \/ /\ IsAt(VALUE, c.position)
            /\ Continue(c.dim + 1, PointerAt(c.position), query.lower)
         \/ /\ ~IsAt(VALUE, c.position)
            /\ EndsAt(c.position) \/ VALUE < ValueAt(c.position)
            /\ stage' = "done"
            /\ result' = <<NOT_FOUND>>
            /\ calls' = {}
         \/ /\ ~IsAt(VALUE, c.position)
            /\ ~EndsAt(c.position) /\ VALUE >= ValueAt(c.position)
            /\ calls' = {[c EXCEPT !.position = @ + 3]}
            /\ UNCHANGED <<stage, result>>
      /\ UNCHANGED <<elfVars, offset, query>>

\* delete resultTIDs, before the next query.
Forget ==
  /\ stage = "done"
  /\ stage' = "ready"
  /\ query' = NoQuery
  /\ result' = <<>>
  /\ UNCHANGED <<elfVars, offset, calls>>

Next ==
  \/ buildFromDataSorting
  \/ \E j \in todo : \/ createDimListSorting(j)
                     \/ linearize_elf_mono(j)
                     \/ linearize_equal(j)
  \/ Built
  \/ \E q \in Queries : Ask(q) \/ exactMatch(q)
  \/ NextPointer
  \/ \E c \in calls : NextEntry(c) \/ listContains(c)
  \/ Return
  \/ Forget

Spec == Init /\ [][Next]_vars
-----------------------------------------------------------------------------
\* The row with the largest value of dimension 0 is in a group of two, or the
\* only one: the TID that line 264 reads is right.
LastRowIsKept ==
  \/ NUM_POINTS = 1
  \/ \E t, u \in TIDs : /\ t # u /\ STORE[t][0] = STORE[u][0]
                        /\ \A s \in TIDs : STORE[s][0] <= STORE[t][0]

\* Every variable has its type, and a query reads only words that have been
\* written.
ElfTypeOK ==
  /\ stage \in {"new", "build", "ready", "match", "exact", "done"}
  /\ DOMAIN ELF \subseteq 0..(writePointer - 1)
  /\ \A p \in DOMAIN ELF : ELF[p] \in Nat
  /\ writePointer \in Nat
  /\ MAX_FIRST_DIM \in Nat
  /\ todo \subseteq [slot : 0..(writePointer - 2),
                     tids : (SUBSET TIDs) \ {{}}, dim : 1..NUM_DIM]
  /\ offset \in Nat
  /\ calls \subseteq [dim : 1..(NUM_DIM - 1), position : DOMAIN ELF]
  /\ query = NoQuery \/ query.op \in {"exact", "window", "partial"}
  /\ result \in Seq(TIDs \cup {NOT_FOUND})

\* Sorting, recursion and pointer patching write every word up to the final
\* writePointer, leave no word of the malloc'ed array unset below it, and
\* stay inside the 2 * NUM_POINTS * (NUM_DIM + 3) words that are allocated.
ElfIsPacked ==
  /\ writePointer <= Capacity
  /\ stage \notin {"new", "build"} => DOMAIN ELF = 0..(writePointer - 1)

\* windowQuery and partialMatch return only rows that a scan returns, and each
\* of them: the early return behind the upper bound, the marks and the two
\* kinds of pointers hide no row and show none twice.  Of equal rows the last
\* dimension keeps one pointer: that one of them is found is all that is said.
MatchIsScan ==
  stage = "done" /\ query.op # "exact" /\ LastRowIsKept =>
    /\ Range(result) \subseteq Scan(STORE, query)
    /\ \A t \in Scan(STORE, query) : \E u \in Range(result) : STORE[u] = STORE[t]
    /\ \A i, j \in DOMAIN result : result[i] = result[j] => i = j

\* exactMatch returns the TID of a row that is equal to the point, or NOT_FOUND
\* when there is none, not only for the points of the table, but for all whose
\* first value is at most MAX_FIRST_DIM: the driver asks for no other, and the
\* code would read behind the first list.
ExactMatchIsScan ==
  stage = "done" /\ query.op = "exact" /\ LastRowIsKept =>
    IF Scan(STORE, query) = {} THEN result = <<NOT_FOUND>>
    ELSE result \in {<<t>> : t \in Scan(STORE, query)}

\* src/main.cpp:206-216, the unit test: exactMatch of the row of a TID returns
\* that TID.
UnitTestExactMatch ==
  \A t \in TIDs : stage = "done" /\ query.op = "exact" /\ query.lower = STORE[t]
                    => result = <<t>>
=============================================================================
