----------------------------- MODULE ElfProofs ------------------------------
(***************************************************************************)
(* Proofs about the sequential Elf, for every table, query and number of   *)
(* dimensions.                                                             *)
(*                                                                         *)
(* BuildInv says what the array means while it is built: every list tells  *)
(* the rows apart that agree on the dimensions above it, every pointer     *)
(* that has been written leads to a list or a mono list for its rows, and  *)
(* the jobs are for different pointers and rows.  The size of the array is *)
(* bounded by tokens: each row has two for each dimension and two for its  *)
(* TID, every word that is written takes one away, and the jobs keep those *)
(* of their rows from their dimension on.                                  *)
(*                                                                         *)
(* QueryInv says where the answer of a query is while the array is walked: *)
(* each row that a scan accepts is behind a pointer of dimension 0 that is *)
(* still ahead, at or behind the entry at which one of the calls stands,   *)
(* or one of its equals is in the result; and these places are disjoint.   *)
(***************************************************************************)
EXTENDS ElfIndex, FiniteSetTheorems, SequenceTheorems, TLAPS

\* The numbers below v in a set S.
Below(S, v) == {u \in S : u < v}

\* T are all rows that agree with each of them on the dimensions below d.
SharePrefix(T, d) ==
  /\ T \subseteq TIDs /\ T # {}
  /\ \A t \in T, u \in TIDs :
       u \in T <=> \A k \in 0..(d - 1) : STORE[u][k] = STORE[t][k]

\* The position of the entry of value v in list l.
At(l, v) == Entry(l.position, l.tids, l.dim, v)

\* A mono list that stands for the rows T from its dimension on.
Keeps(m, T) ==
  /\ m.tid \in T
  /\ \A t \in T : \A k \in m.dim..(NUM_DIM - 1) : STORE[t][k] = STORE[m.tid][k]

\* A pointer that leads to the rows T, for the dimension d.
Leads(pointer, T, d) ==
  \/ \E l \in lists : l.dim = d /\ l.tids = T /\ pointer = l.position
  \/ \E m \in monos : /\ m.dim = d
                      /\ pointer = m.position + LAST_ENTRY_MASK64
                      /\ LastRowIsKept => Keeps(m, T)

\* The pointer at a slot leads to the rows T, or is still to be written.
Linked(slot, T, d) == \/ Job(slot, T, d) \in todo
                      \/ slot \in DOMAIN ELF /\ Leads(ELF[slot], T, d)

WordsInv ==
  /\ STORE \in Tables
  /\ writePointer \in Nat /\ MAX_FIRST_DIM \in Nat
  /\ DOMAIN ELF \subseteq 0..(writePointer - 1)
  /\ \A p \in DOMAIN ELF : ELF[p] \in Nat
  /\ todo \subseteq [slot : 0..(writePointer - 2),
                     tids : (SUBSET TIDs) \ {{}}, dim : 1..NUM_DIM]

\* The jobs are for different pointers, that have not been written, and for
\* different rows.
JobInv ==
  /\ \A j \in todo : /\ j.slot \notin DOMAIN ELF
                     /\ j.slot + 1 \notin DOMAIN ELF
                     /\ SharePrefix(j.tids, j.dim)
  /\ \A i, j \in todo : i # j =>
       /\ i.slot # j.slot /\ i.slot # j.slot + 1
       /\ i.tids \cap j.tids = {}

\* The words up to the writePointer have been written, but for the pointers
\* that wait.
Slots(jobs) == UNION {{j.slot, j.slot + 1} : j \in jobs}
PackInv == 0..(writePointer - 1) = DOMAIN ELF \cup Slots(todo)

\* A list distinguishes rows that agree up to its dimension, and each of its
\* entries leads to those that have its value.
ListInv ==
  \A l \in lists :
    /\ l.dim \in 1..(NUM_DIM - 1)
    /\ l.position \in 0..(writePointer - 1)
    /\ SharePrefix(l.tids, l.dim)
    /\ \A v \in ValuesOf(l.tids, l.dim) :
         /\ At(l, v) \in DOMAIN ELF
         /\ ELF[At(l, v)] = Word(l.tids, l.dim, v)
         /\ Linked(At(l, v) + 1, Group(l.tids, l.dim, v), l.dim + 1)

\* No position belongs to two entries.
ApartInv ==
  \A l, m \in lists :
    \A v \in ValuesOf(l.tids, l.dim), w \in ValuesOf(m.tids, m.dim) :
      At(l, v) = At(m, w) => l = m /\ v = w

\* A mono list holds a row from its dimension on, and its TID.
MonoInv ==
  \A m \in monos :
    /\ m.dim \in 1..NUM_DIM /\ m.tid \in TIDs
    /\ m.position \in Nat
    /\ m.position + NUM_DIM - m.dim \in DOMAIN ELF
    /\ ELF[m.position + NUM_DIM - m.dim] \in {m.tid, m.tid + LAST_ENTRY_MASK}
    /\ \A k \in m.dim..(NUM_DIM - 1) :
         /\ m.position + k - m.dim \in DOMAIN ELF
         /\ ELF[m.position + k - m.dim] = STORE[m.tid][k]

\* The pointers of dimension 0 are those of the values 0 to MAX_FIRST_DIM.
FirstInv ==
  stage # "new" =>
    /\ ValuesOf(TIDs, 0) = 0..MAX_FIRST_DIM
    /\ \A v \in 0..MAX_FIRST_DIM : Linked(2 * v, Group(TIDs, 0, v), 1)

\* The build pays for each word with a token.  A row has two tokens for each
\* dimension and two for its TID, and those from the dimension of a job on are
\* kept for the job; only one of each two when the row is alone.
Tokens == (TIDs \X (0..NUM_DIM)) \X {1, 2}
Reserved(j) ==
  (j.tids \X (j.dim..NUM_DIM)) \X (IF Cardinality(j.tids) = 1 THEN {1} ELSE {1, 2})
Unreserved == Tokens \ UNION {Reserved(j) : j \in todo}
SizeInv == writePointer <= Cardinality(Unreserved)

\* Before and after the build.
StageInv ==
  /\ stage \in {"new", "build", "ready", "match", "exact", "done"}
  /\ stage # "build" => todo = {}
  /\ stage = "new" => /\ lists = {} /\ monos = {}
                      /\ DOMAIN ELF = {} /\ writePointer = 0

BuildInv == /\ WordsInv /\ JobInv /\ PackInv /\ ListInv /\ ApartInv
            /\ MonoInv /\ FirstInv /\ SizeInv /\ StageInv

\* A call stands at the entry of value v in list l.
Standing(c, l, v) ==
  /\ l \in lists /\ v \in ValuesOf(l.tids, l.dim)
  /\ c = [dim |-> l.dim, position |-> At(l, v)]

Stands(c) == \E l \in lists : \E v \in ValuesOf(l.tids, l.dim) : Standing(c, l, v)

\* The rows that a call has still to look at, and those of the pointers of
\* dimension 0 that are still to be followed.
Rest(c) ==
  {t \in TIDs : \E l \in lists : \E v \in ValuesOf(l.tids, l.dim) :
     Standing(c, l, v) /\ t \in l.tids /\ v <= STORE[t][l.dim]}
Ahead == {t \in TIDs : offset <= 2 * STORE[t][0]}
Left(A, C) == A \cup UNION {Rest(c) : c \in C}
Pending == Left(Ahead, calls)

\* The call for the next entry, if the list has one that the query wants.
NextOf(c) == IF EndsAt(c.position) \/ Above(c.dim, ValueAt(c.position))
             THEN {} ELSE {[c EXCEPT !.position = @ + 3]}

Qualifies(t, d) ==
  \A k \in 0..(d - 1) : query.columns[k] => isIn(query, k, STORE[t][k])

\* The answer r is right but for the rows P that are pending.
Found(r, P) ==
  LastRowIsKept =>
    /\ Range(r) \subseteq Scan(STORE, query)
    /\ \A t \in Scan(STORE, query) :
         t \in P \/ \E u \in Range(r) : STORE[u] = STORE[t]
    /\ \A u \in Range(r) : u \notin P
    /\ \A i, j \in DOMAIN r : STORE[r[i]] = STORE[r[j]] => i = j

AskInv ==
  /\ offset \in Nat
  /\ result \in Seq(TIDs \cup {NOT_FOUND})
  /\ stage \notin {"match", "exact"} => calls = {}
  /\ stage \in {"new", "build", "ready"} => result = <<>> /\ query = NoQuery
  /\ stage \in {"match", "exact", "done"} => query \in Queries
  /\ \A c \in calls : Stands(c)

\* No two calls are for the same rows, and what they have still to look at has
\* qualified on the dimensions above.
MatchInv ==
  stage = "match" =>
    /\ query.op # "exact"
    /\ query.columns[0] => query.upper[0] <= MAX_FIRST_DIM
    /\ offset % 2 = 0
    /\ query.columns[0] => offset >= 2 * query.lower[0]
    /\ \A c \in calls : /\ \A t \in Rest(c) : Qualifies(t, c.dim)
                        /\ Rest(c) \cap Ahead = {}
    /\ \A b, c \in calls : b # c => Rest(b) \cap Rest(c) = {}
    /\ Found(result, Pending)

\* The one call of exactMatch: the rows of its list agree with the point on the
\* dimensions above, and each row that is the point is still to come.
ExactInv ==
  stage = "exact" =>
    /\ query.op = "exact" /\ result = <<>>
    /\ \E c : calls = {c}
    /\ \A c \in calls : \E l \in lists : \E v \in ValuesOf(l.tids, l.dim) :
         /\ Standing(c, l, v)
         /\ \A t \in l.tids : \A k \in 0..(l.dim - 1) :
              STORE[t][k] = query.lower[k]
         /\ \A t \in TIDs : STORE[t] = query.lower =>
              t \in l.tids /\ v <= STORE[t][l.dim]

QueryInv == AskInv /\ MatchInv /\ ExactInv /\ MatchIsScan /\ ExactMatchIsScan

ElfInv == BuildInv /\ QueryInv

-----------------------------------------------------------------------------
\* What is written, and what stays.
LEMMA OverFacts ==
  ASSUME NEW f, NEW g
  PROVE  /\ DOMAIN Over(f, g) = DOMAIN f \cup DOMAIN g
         /\ \A p \in DOMAIN f : Over(f, g)[p] = f[p]
         /\ \A p \in DOMAIN g : p \notin DOMAIN f => Over(f, g)[p] = g[p]
BY DEF Over

\* Ranks in a finite set of numbers are the numbers below its cardinality.
LEMMA RankFacts ==
  ASSUME NEW S \in SUBSET Nat, IsFiniteSet(S), S # {}
  PROVE  /\ Cardinality(S) \in Nat \ {0}
         /\ \A v \in S : Cardinality(Below(S, v)) \in 0..(Cardinality(S) - 1)
         /\ \A v, w \in S : v < w => Cardinality(Below(S, v)) < Cardinality(Below(S, w))
         /\ \A r \in 0..(Cardinality(S) - 1) :
              \E v \in S : Cardinality(Below(S, v)) = r
<1> DEFINE n == Cardinality(S)
           r(v) == Cardinality(Below(S, v))
<1>1. n \in Nat \ {0}
  BY FS_CardinalityType, FS_EmptySet
<1>2. ASSUME NEW T \in SUBSET S
      PROVE  IsFiniteSet(T) /\ Cardinality(T) \in Nat
  BY FS_Subset, FS_CardinalityType
<1>3. ASSUME NEW T \in SUBSET S, NEW x \in S \ T
      PROVE  Cardinality(T \cup {x}) = Cardinality(T) + 1
  BY <1>2, FS_AddElement
<1>4. ASSUME NEW T \in SUBSET S, NEW U \in SUBSET T
      PROVE  Cardinality(U) <= Cardinality(T)
  BY <1>2, FS_Subset
<1>5. ASSUME NEW T \in SUBSET S, NEW U \in SUBSET T, NEW x \in T \ U
      PROVE  Cardinality(U) < Cardinality(T)
  <2>1. Cardinality(U \cup {x}) = Cardinality(U) + 1
    BY <1>3
  <2>2. Cardinality(U \cup {x}) <= Cardinality(T)
    BY <1>4
  <2>3. QED
    BY <2>1, <2>2, <1>2
<1>6. ASSUME NEW v \in S
      PROVE  r(v) \in 0..(n - 1)
  <2>1. Below(S, v) \in SUBSET S /\ v \in S \ Below(S, v)
    BY DEF Below
  <2>2. r(v) < n
    BY <1>5, <2>1
  <2>3. QED
    BY <1>1, <1>2, <2>1, <2>2
<1>7. ASSUME NEW v \in S, NEW w \in S, v < w
      PROVE  r(v) < r(w)
  <2>1. /\ Below(S, w) \in SUBSET S
        /\ v \in Below(S, w) \ Below(S, v)
    BY <1>7 DEF Below
  <2>2. Below(S, v) \in SUBSET Below(S, w)
    <3>1. ASSUME NEW u \in S, u < v
          PROVE  u < w
      <4>1. u \in Nat /\ v \in Nat /\ w \in Nat
        OBVIOUS
      <4>2. QED
        BY <1>7, <3>1, <4>1
    <3>2. QED
      BY <3>1 DEF Below
  <2>3. QED
    BY <1>5, <2>1, <2>2
<1>8. ASSUME NEW i \in 0..(n - 1)
      PROVE  \E v \in S : r(v) = i
  <2> DEFINE f == [v \in S |-> r(v)]
  <2>1. f \in [S -> 0..(n - 1)]
    BY <1>6
  <2>2. ASSUME NEW v \in S, NEW w \in S, f[v] = f[w]
        PROVE  v = w
    <3>1. r(v) = r(w) /\ r(v) \in Int
      BY <2>2, <1>6
    <3>2. ~(v < w) /\ ~(w < v)
      BY <1>7, <3>1
    <3>3. v \in Nat /\ w \in Nat
      OBVIOUS
    <3>4. QED
      BY <3>2, <3>3
  <2>3. f \in Injection(S, 0..(n - 1))
    BY <2>1, <2>2 DEF Injection, IsInjective
  <2>4. IsFiniteSet(0..(n - 1)) /\ Cardinality(0..(n - 1)) = n
    BY <1>1, FS_Interval
  <2>5. f \in Surjection(S, 0..(n - 1))
    BY <2>3, <2>4, FS_Injection
  <2>6. QED
    BY <2>5 DEF Surjection
<1>9. QED
  BY <1>1, <1>6, <1>7, <1>8

-----------------------------------------------------------------------------
\* The table.
LEMMA StoreFacts ==
  ASSUME STORE \in Tables
  PROVE  /\ NUM_POINTS \in Nat \ {0}
         /\ TIDs = 0..(NUM_POINTS - 1)
         /\ TIDs # {} /\ IsFiniteSet(TIDs)
         /\ \A t \in TIDs : /\ t \in Nat /\ t < LAST_ENTRY_MASK
                            /\ t # NOT_FOUND
                            /\ STORE[t] \in Points
                            /\ \A d \in Dims : /\ STORE[t][d] \in Nat
                                               /\ STORE[t][d] < LAST_ENTRY_MASK
         /\ Capacity = 2 * NUM_POINTS * (NUM_DIM + 3)
         /\ Capacity <= LAST_ENTRY_MASK64
         /\ \A t \in TIDs : \A v \in 0..STORE[t][0] :
              \E u \in TIDs : STORE[u][0] = v
<1>1. /\ IsFiniteSet(TIDs) /\ TIDs # {}
      /\ STORE \in [0..(NUM_POINTS - 1) -> Points]
      /\ NOT_FOUND \notin TIDs
  BY StoreAssumption DEF TIDs, NUM_POINTS
<1>2. NUM_POINTS \in Nat \ {0}
  BY <1>1, FS_CardinalityType, FS_EmptySet DEF NUM_POINTS
<1>3. TIDs = 0..(NUM_POINTS - 1)
  BY <1>1 DEF TIDs
<1>4. /\ NUM_POINTS <= LAST_ENTRY_MASK /\ LAST_ENTRY_MASK \in Nat
      /\ Capacity <= LAST_ENTRY_MASK64
      /\ \A t \in TIDs : \A d \in Dims : STORE[t][d] < LAST_ENTRY_MASK
      /\ \A t \in TIDs : \A v \in 0..STORE[t][0] :
              \E u \in TIDs : STORE[u][0] = v
  BY ElfAssumption DEF TIDs, NUM_POINTS, Capacity
<1>5. Capacity = 2 * NUM_POINTS * (NUM_DIM + 3)
  BY DEF Capacity, WordsFor
<1>6. ASSUME NEW t \in TIDs
      PROVE  /\ t \in Nat /\ t < LAST_ENTRY_MASK
             /\ t # NOT_FOUND
             /\ STORE[t] \in Points
             /\ \A d \in Dims : STORE[t][d] \in Nat
  <2>1. t \in 0..(NUM_POINTS - 1)
    BY <1>3
  <2>2. STORE[t] \in Points
    BY <1>1, <2>1
  <2>3. t \in Nat /\ t < LAST_ENTRY_MASK
    BY <1>2, <1>4, <2>1
  <2>4. QED
    BY <1>1, <2>2, <2>3 DEF Points
<1>7. QED
  BY <1>1, <1>2, <1>3, <1>4, <1>5, <1>6

\* The constants.
LEMMA DimFacts ==
  /\ NUM_DIM \in Nat /\ NUM_DIM >= 2
  /\ LAST_ENTRY_MASK \in Nat /\ LAST_ENTRY_MASK64 \in Nat
  /\ Dims = 0..(NUM_DIM - 1)
BY StoreAssumption, ElfAssumption DEF Dims

\* The values of some rows on a dimension.
LEMMA ValuesFacts ==
  ASSUME STORE \in Tables, NEW T \in (SUBSET TIDs) \ {{}}, NEW d \in Dims
  PROVE  /\ IsFiniteSet(T)
         /\ ValuesOf(T, d) \in SUBSET Nat
         /\ IsFiniteSet(ValuesOf(T, d)) /\ ValuesOf(T, d) # {}
         /\ \A v \in ValuesOf(T, d) : v < LAST_ENTRY_MASK
         /\ \A t \in T : STORE[t][d] \in ValuesOf(T, d)
         /\ \A v \in ValuesOf(T, d) : Group(T, d, v) \in (SUBSET T) \ {{}}
         /\ \A t \in T : t \in Group(T, d, STORE[t][d])
         /\ \A v, w \in ValuesOf(T, d) :
              v # w => Group(T, d, v) \cap Group(T, d, w) = {}
<1>1. IsFiniteSet(T)
  BY StoreFacts, FS_Subset
<1>2. \A t \in T : STORE[t][d] \in Nat /\ STORE[t][d] < LAST_ENTRY_MASK
  BY StoreFacts
<1>3. /\ ValuesOf(T, d) \in SUBSET Nat
      /\ ValuesOf(T, d) # {}
      /\ \A v \in ValuesOf(T, d) : v < LAST_ENTRY_MASK
      /\ \A t \in T : STORE[t][d] \in ValuesOf(T, d)
  BY <1>2 DEF ValuesOf
<1>4. IsFiniteSet(ValuesOf(T, d))
  <2>1. [t \in T |-> STORE[t][d]] \in Surjection(T, ValuesOf(T, d))
    BY DEF Surjection, ValuesOf
  <2>2. QED
    BY <1>1, <2>1, FS_Surjection
<1>5. /\ \A v \in ValuesOf(T, d) : Group(T, d, v) \in (SUBSET T) \ {{}}
      /\ \A t \in T : t \in Group(T, d, STORE[t][d])
      /\ \A v, w \in ValuesOf(T, d) :
              v # w => Group(T, d, v) \cap Group(T, d, w) = {}
  BY DEF ValuesOf, Group
<1>6. QED
  BY <1>1, <1>3, <1>4, <1>5

\* The layout of a list: its entries lie side by side, in the order of their
\* values.
LEMMA EntryFacts ==
  ASSUME STORE \in Tables, NEW T \in (SUBSET TIDs) \ {{}}, NEW d \in Dims,
         NEW start \in Nat
  PROVE  LET V == ValuesOf(T, d)
             n == Cardinality(V)
             at(v) == Entry(start, T, d, v)
         IN  /\ n \in Nat \ {0}
             /\ \A v \in V : at(v) \in start..(start + 3 * n - 3)
             /\ \A v, w \in V : v < w => at(v) + 3 <= at(w)
             /\ \A v, w \in V : at(v) = at(w) => v = w
             /\ \A p \in start..(start + 3 * n - 1) :
                  \E v \in V : p \in {at(v), at(v) + 1, at(v) + 2}
<1> DEFINE V == ValuesOf(T, d)
           n == Cardinality(V)
           at(v) == Entry(start, T, d, v)
           r(v) == Cardinality(Below(V, v))
<1>1. V \in SUBSET Nat /\ IsFiniteSet(V) /\ V # {}
  BY ValuesFacts
<1>2. \A v \in V : at(v) = start + 3 * r(v)
  BY DEF Entry, Rank, Below
<1> HIDE DEF V, at
<1>3. /\ n \in Nat \ {0}
      /\ \A v \in V : r(v) \in 0..(n - 1)
      /\ \A v, w \in V : v < w => r(v) < r(w)
      /\ \A i \in 0..(n - 1) : \E v \in V : r(v) = i
  BY <1>1, RankFacts
<1> HIDE DEF n, r
<1>4. ASSUME NEW v \in V
      PROVE  at(v) \in start..(start + 3 * n - 3)
  <2>1. r(v) \in 0..(n - 1) /\ at(v) = start + 3 * r(v)
    BY <1>2, <1>3
  <2>2. QED
    BY <1>3, <2>1
<1>5. ASSUME NEW v \in V, NEW w \in V, v < w
      PROVE  at(v) + 3 <= at(w)
  <2>1. /\ r(v) \in 0..(n - 1) /\ at(v) = start + 3 * r(v)
        /\ r(w) \in 0..(n - 1) /\ at(w) = start + 3 * r(w)
        /\ r(v) < r(w)
    BY <1>2, <1>3, <1>5
  <2>2. QED
    BY <1>3, <2>1
<1>6. ASSUME NEW v \in V, NEW w \in V, at(v) = at(w)
      PROVE  v = w
  <2>1. /\ at(v) \in Int /\ at(w) \in Int
        /\ v \in Nat /\ w \in Nat
    BY <1>1, <1>4
  <2>2. ~(v < w) /\ ~(w < v)
    BY <1>5, <1>6, <2>1
  <2>3. QED
    BY <2>1, <2>2
<1>7. ASSUME NEW p \in start..(start + 3 * n - 1)
      PROVE  \E v \in V : p \in {at(v), at(v) + 1, at(v) + 2}
  <2>1. PICK i \in 0..(n - 1) : p \in {start + 3 * i, start + 3 * i + 1, start + 3 * i + 2}
    <3>1. (p - start) \div 3 \in 0..(n - 1)
      BY <1>3
    <3>2. p \in {start + 3 * ((p - start) \div 3), start + 3 * ((p - start) \div 3) + 1,
                 start + 3 * ((p - start) \div 3) + 2}
      BY <1>3
    <3>3. QED
      BY <3>1, <3>2
  <2>2. PICK v \in V : r(v) = i
    BY <1>3
  <2>3. QED
    BY <1>2, <2>1, <2>2
<1>8. QED
  BY <1>3, <1>4, <1>5, <1>6, <1>7 DEF V, n, at

\* The entry at the start of a list is that of its smallest value.
LEMMA FirstEntry ==
  ASSUME STORE \in Tables, NEW T \in (SUBSET TIDs) \ {{}}, NEW d \in Dims,
         NEW start \in Nat
  PROVE  \E v \in ValuesOf(T, d) :
           Entry(start, T, d, v) = start /\ \A u \in ValuesOf(T, d) : v <= u
<1> DEFINE V == ValuesOf(T, d)
           n == Cardinality(V)
           at(v) == Entry(start, T, d, v)
           r(v) == Cardinality(Below(V, v))
<1>1. V \in SUBSET Nat /\ IsFiniteSet(V) /\ V # {}
  BY ValuesFacts
<1>2. \A v \in V : at(v) = start + 3 * r(v)
  BY DEF Entry, Rank, Below
<1> HIDE DEF V, at
<1>3. /\ n \in Nat \ {0}
      /\ \A v \in V : r(v) \in 0..(n - 1)
      /\ \A v, w \in V : v < w => r(v) < r(w)
      /\ \A i \in 0..(n - 1) : \E v \in V : r(v) = i
  BY <1>1, RankFacts
<1> HIDE DEF n, r
<1>4. \E v \in V : at(v) = start /\ \A u \in V : v <= u
  <2>1. PICK v \in V : r(v) = 0
    BY <1>3
  <2>2. at(v) = start
    BY <1>2, <2>1
  <2>3. ASSUME NEW u \in V
        PROVE  v <= u
    <3>1. ~(r(u) < r(v)) /\ v \in Nat /\ u \in Nat
      BY <1>1, <1>3, <2>1
    <3>2. ~(u < v)
      BY <1>3, <3>1
    <3>3. QED
      BY <3>1, <3>2
  <2>4. QED
    BY <2>2, <2>3
<1>5. QED
  BY <1>4 DEF V, at

\* The entry behind one that does not end the list is that of the next value.
LEMMA EntryAfter ==
  ASSUME STORE \in Tables, NEW T \in (SUBSET TIDs) \ {{}}, NEW d \in Dims,
         NEW start \in Nat, NEW v \in ValuesOf(T, d), ~IsLastValue(T, d, v)
  PROVE  \E w \in ValuesOf(T, d) :
           /\ Entry(start, T, d, w) = Entry(start, T, d, v) + 3
           /\ v < w /\ \A u \in ValuesOf(T, d) : v < u => w <= u
<1> DEFINE V == ValuesOf(T, d)
           n == Cardinality(V)
           at(x) == Entry(start, T, d, x)
           r(x) == Cardinality(Below(V, x))
<1>1. V \in SUBSET Nat /\ IsFiniteSet(V) /\ V # {}
  BY ValuesFacts
<1>2. \A x \in V : at(x) = start + 3 * r(x)
  BY DEF Entry, Rank, Below
<1> v \in V
  BY DEF V
<1> HIDE DEF V, at
<1>3. /\ n \in Nat \ {0}
      /\ \A x \in V : r(x) \in 0..(n - 1)
      /\ \A x, w \in V : x < w => r(x) < r(w)
      /\ \A i \in 0..(n - 1) : \E x \in V : r(x) = i
  BY <1>1, RankFacts
<1> HIDE DEF n, r
<1>4. ASSUME NEW x \in V, NEW w \in V, r(x) < r(w)
      PROVE  x < w
  <2>1. /\ r(x) \in Int /\ r(w) \in Int /\ x \in Nat /\ w \in Nat
    BY <1>1, <1>3
  <2>2. ~(w < x) /\ x # w
    BY <1>3, <1>4, <2>1
  <2>3. QED
    BY <2>1, <2>2
<1>5. PICK y \in V : ~(y <= v)
  BY DEF IsLastValue, V
<1>6. v < y
  BY <1>1, <1>5
<1>7. /\ r(v) \in 0..(n - 1) /\ r(y) \in 0..(n - 1) /\ r(v) < r(y)
  BY <1>3, <1>6
<1>8. r(v) + 1 \in 0..(n - 1)
  BY <1>3, <1>7
<1>9. PICK w \in V : r(w) = r(v) + 1
  BY <1>3, <1>8
<1>10. at(w) = at(v) + 3
  BY <1>2, <1>7, <1>9
<1>11. v < w
  BY <1>4, <1>7, <1>9
<1>12. ASSUME NEW u \in V, v < u
      PROVE  w <= u
  <2>1. r(v) < r(u) /\ r(u) \in Nat
    BY <1>3, <1>12
  <2>2. ~(r(u) < r(w))
    BY <1>7, <1>9, <2>1
  <2>3. ~(u < w)
    BY <1>3, <2>2
  <2>4. QED
    BY <1>1, <2>3
<1>13. QED
  BY <1>10, <1>11, <1>12 DEF V, at

\* Each group has at least one row, so that there are no more values than rows.
LEMMA HeaderFacts ==
  ASSUME STORE \in Tables, NEW T \in (SUBSET TIDs) \ {{}}, NEW d \in Dims,
         NEW start \in Nat
  PROVE  /\ DOMAIN Header(start, T, d)
              = {Entry(start, T, d, v) : v \in ValuesOf(T, d)}
         /\ \A v \in ValuesOf(T, d) :
              /\ Header(start, T, d)[Entry(start, T, d, v)] = Word(T, d, v)
              /\ Word(T, d, v) \in Nat
              /\ Word(T, d, v) >= LAST_ENTRY_MASK <=> IsLastValue(T, d, v)
              /\ Recover(Word(T, d, v)) = v
<1>1. DOMAIN Header(start, T, d)
        = {Entry(start, T, d, v) : v \in ValuesOf(T, d)}
  BY DEF Header
<1>2. ASSUME NEW v \in ValuesOf(T, d)
      PROVE  /\ Header(start, T, d)[Entry(start, T, d, v)] = Word(T, d, v)
             /\ Word(T, d, v) \in Nat
             /\ Word(T, d, v) >= LAST_ENTRY_MASK <=> IsLastValue(T, d, v)
             /\ Recover(Word(T, d, v)) = v
  <2>1. \A w \in ValuesOf(T, d) :
          Entry(start, T, d, v) = Entry(start, T, d, w) => v = w
    BY EntryFacts
  <2>2. (CHOOSE w \in ValuesOf(T, d) :
           Entry(start, T, d, v) = Entry(start, T, d, w)) = v
    BY <2>1
  <2>3. Header(start, T, d)[Entry(start, T, d, v)] = Word(T, d, v)
    BY <2>2 DEF Header
  <2>4. v \in Nat /\ v < LAST_ENTRY_MASK
    BY ValuesFacts
  <2>5. QED
    BY <2>3, <2>4, DimFacts DEF Word, Recover
<1>3. QED
  BY <1>1, <1>2

-----------------------------------------------------------------------------
\* What is said of the table stays true.
LEMMA SameTable ==
  ASSUME STORE' = STORE
  PROVE  /\ TIDs' = TIDs /\ NUM_POINTS' = NUM_POINTS
         /\ Capacity' = Capacity
         /\ LastRowIsKept' = LastRowIsKept
         /\ Tokens' = Tokens
         /\ \A T, d : ValuesOf(T, d)' = ValuesOf(T, d)
         /\ \A T, d, v : /\ Group(T, d, v)' = Group(T, d, v)
                         /\ Rank(T, d, v)' = Rank(T, d, v)
                         /\ Word(T, d, v)' = Word(T, d, v)
         /\ \A l, v : At(l, v)' = At(l, v)
         /\ \A T, d : SharePrefix(T, d)' = SharePrefix(T, d)
         /\ \A m, T : Keeps(m, T)' = Keeps(m, T)
<1>1. TIDs' = TIDs /\ NUM_POINTS' = NUM_POINTS
  BY DEF TIDs, NUM_POINTS
<1>2. Capacity' = Capacity /\ Tokens' = Tokens
  BY <1>1 DEF Capacity, Tokens
<1>3. LastRowIsKept' = LastRowIsKept
  BY <1>1, Zenon DEF LastRowIsKept
<1>4. \A T, d : ValuesOf(T, d)' = ValuesOf(T, d)
  BY DEF ValuesOf
<1>5. \A T, d, v : Group(T, d, v)' = Group(T, d, v)
  BY DEF Group
<1>6. \A T, d, v : Rank(T, d, v)' = Rank(T, d, v)
  BY DEF Rank, ValuesOf
<1>7. \A T, d, v : Word(T, d, v)' = Word(T, d, v)
  BY DEF Word, IsLastValue, ValuesOf
<1>8. \A l, v : At(l, v)' = At(l, v)
  BY DEF At, Entry, Rank, ValuesOf
<1>9. \A T, d : SharePrefix(T, d)' = SharePrefix(T, d)
  BY <1>1 DEF SharePrefix
<1>10. \A m, T : Keeps(m, T)' = Keeps(m, T)
  BY Zenon DEF Keeps
<1>11. QED
  BY <1>1, <1>2, <1>3, <1>4, <1>5, <1>6, <1>7, <1>8, <1>9, <1>10

-----------------------------------------------------------------------------
\* The words that a step of the build writes for job j, and the jobs it leaves:
\* it fills the array from the writePointer to end, but for the pointers of the
\* new jobs, which divide the rows of j among them.
Fills(j, words, end, newJobs) ==
  /\ end \in Nat /\ writePointer <= end
  /\ {j.slot, j.slot + 1} \subseteq DOMAIN words
  /\ DOMAIN words \cup Slots(newJobs)
       = {j.slot, j.slot + 1} \cup (writePointer..(end - 1))
  /\ \A p \in DOMAIN words : words[p] \in Nat
  /\ newJobs \subseteq [slot : writePointer..(end - 2),
                        tids : (SUBSET j.tids) \ {{}}, dim : 1..NUM_DIM]
  /\ \A i \in newJobs : /\ i.slot \notin DOMAIN words
                        /\ i.slot + 1 \notin DOMAIN words
                        /\ SharePrefix(i.tids, i.dim)
  /\ \A i, k \in newJobs : i # k => /\ i.slot # k.slot /\ i.slot # k.slot + 1
                                    /\ i.tids \cap k.tids = {}

\* Such a step leaves what was written, and the jobs stay apart.
LEMMA FillsFacts ==
  ASSUME WordsInv, JobInv, PackInv,
         NEW j \in todo, NEW words, NEW end, NEW newJobs,
         Wrote(j, words, end, newJobs), Fills(j, words, end, newJobs)
  PROVE  /\ WordsInv' /\ JobInv' /\ PackInv'
         /\ DOMAIN words \cap DOMAIN ELF = {}
         /\ \A p \in DOMAIN ELF : p \in DOMAIN ELF' /\ ELF'[p] = ELF[p]
         /\ \A p \in DOMAIN words : p \in DOMAIN ELF' /\ ELF'[p] = words[p]
         /\ \A i \in newJobs : i \in todo'
<1>1. /\ STORE' = STORE /\ MAX_FIRST_DIM' = MAX_FIRST_DIM
      /\ ELF' = Over(words, ELF)
      /\ writePointer' = end
      /\ todo' = (todo \ {j}) \cup newJobs
  BY DEF Wrote
<1>2. /\ writePointer \in Nat /\ end \in Nat /\ writePointer <= end
      /\ DOMAIN ELF \subseteq 0..(writePointer - 1)
      /\ j.slot \in 0..(writePointer - 2)
      /\ j.tids \in SUBSET TIDs
      /\ j.slot \notin DOMAIN ELF /\ j.slot + 1 \notin DOMAIN ELF
  BY DEF WordsInv, JobInv, Fills
<1>3. DOMAIN words \subseteq {j.slot, j.slot + 1} \cup (writePointer..(end - 1))
  BY DEF Fills
<1>4. DOMAIN words \cap DOMAIN ELF = {}
  BY <1>2, <1>3
<1>5. /\ DOMAIN ELF' = DOMAIN words \cup DOMAIN ELF
      /\ \A p \in DOMAIN ELF : p \in DOMAIN ELF' /\ ELF'[p] = ELF[p]
      /\ \A p \in DOMAIN words : p \in DOMAIN ELF' /\ ELF'[p] = words[p]
  <2>1. /\ DOMAIN Over(words, ELF) = DOMAIN words \cup DOMAIN ELF
        /\ \A p \in DOMAIN words : Over(words, ELF)[p] = words[p]
        /\ \A p \in DOMAIN ELF : p \notin DOMAIN words
                                   => Over(words, ELF)[p] = ELF[p]
    BY OverFacts
  <2>2. QED
    BY <1>1, <1>4, <2>1
<1>6. /\ TIDs' = TIDs
      /\ \A T, d : SharePrefix(T, d)' = SharePrefix(T, d)
  BY <1>1, SameTable
<1>7. WordsInv'
  <2>1. DOMAIN ELF' \subseteq 0..(end - 1)
    BY <1>2, <1>3, <1>5
  <2>2. \A p \in DOMAIN ELF' : ELF'[p] \in Nat
    BY <1>5 DEF Fills, WordsInv
  <2>3. ASSUME NEW i \in todo'
        PROVE  i \in [slot : 0..(end - 2), tids : (SUBSET TIDs) \ {{}},
                      dim : 1..NUM_DIM]
    <3>1. CASE i \in todo
      <4>1. i \in [slot : 0..(writePointer - 2), tids : (SUBSET TIDs) \ {{}},
                   dim : 1..NUM_DIM]
        BY <3>1 DEF WordsInv
      <4>2. 0..(writePointer - 2) \subseteq 0..(end - 2)
        BY <1>2
      <4>3. QED
        BY <4>1, <4>2
    <3>2. CASE i \in newJobs
      <4>1. i \in [slot : writePointer..(end - 2),
                   tids : (SUBSET j.tids) \ {{}}, dim : 1..NUM_DIM]
        BY <3>2 DEF Fills
      <4>2. writePointer..(end - 2) \subseteq 0..(end - 2)
        BY <1>2
      <4>3. QED
        BY <1>2, <4>1, <4>2
    <3>3. QED
      BY <1>1, <3>1, <3>2
  <2>4. QED
    BY <1>1, <1>2, <1>6, <2>1, <2>2, <2>3 DEF WordsInv
<1>8. ASSUME NEW i \in todo, i # j
      PROVE  /\ i.slot \in 0..(writePointer - 2)
             /\ i.slot \notin DOMAIN ELF' /\ i.slot + 1 \notin DOMAIN ELF'
             /\ i.tids \cap j.tids = {}
             /\ SharePrefix(i.tids, i.dim)
  <2>1. /\ i.slot \in 0..(writePointer - 2)
        /\ i.slot # j.slot /\ i.slot # j.slot + 1 /\ j.slot # i.slot + 1
        /\ i.slot \notin DOMAIN ELF /\ i.slot + 1 \notin DOMAIN ELF
        /\ i.tids \cap j.tids = {}
        /\ SharePrefix(i.tids, i.dim)
    BY <1>8 DEF WordsInv, JobInv
  <2>2. i.slot \notin DOMAIN words /\ i.slot + 1 \notin DOMAIN words
    BY <1>2, <1>3, <2>1
  <2>3. QED
    BY <1>5, <2>1, <2>2
<1>9. ASSUME NEW i \in newJobs
      PROVE  /\ i.slot \in writePointer..(end - 2)
             /\ i.slot \notin DOMAIN ELF' /\ i.slot + 1 \notin DOMAIN ELF'
             /\ i.tids \subseteq j.tids
             /\ SharePrefix(i.tids, i.dim)
  <2>1. /\ i.slot \in writePointer..(end - 2)
        /\ i.slot \notin DOMAIN words /\ i.slot + 1 \notin DOMAIN words
        /\ i.tids \subseteq j.tids
        /\ SharePrefix(i.tids, i.dim)
    BY DEF Fills
  <2>2. i.slot \notin DOMAIN ELF /\ i.slot + 1 \notin DOMAIN ELF
    BY <1>2, <2>1
  <2>3. QED
    BY <1>5, <2>1, <2>2
<1>10. JobInv'
  <2>1. ASSUME NEW i \in todo'
        PROVE  /\ i.slot \notin DOMAIN ELF' /\ i.slot + 1 \notin DOMAIN ELF'
               /\ SharePrefix(i.tids, i.dim)'
    BY <1>1, <1>6, <1>8, <1>9
  <2>2. ASSUME NEW i \in todo', NEW k \in todo', i # k
        PROVE  /\ i.slot # k.slot /\ i.slot # k.slot + 1
               /\ i.tids \cap k.tids = {}
    <3>1. CASE i \in todo \ {j} /\ k \in todo \ {j}
      BY <2>2, <3>1 DEF JobInv
    <3>2. CASE i \in todo \ {j} /\ k \in newJobs
      BY <1>2, <1>8, <1>9, <3>2
    <3>3. CASE i \in newJobs /\ k \in todo \ {j}
      BY <1>2, <1>8, <1>9, <3>3
    <3>4. CASE i \in newJobs /\ k \in newJobs
      BY <2>2, <3>4 DEF Fills
    <3>5. QED
      BY <1>1, <3>1, <3>2, <3>3, <3>4
  <2>3. QED
    BY <2>1, <2>2 DEF JobInv
<1>11. PackInv'
  <2>1. 0..(end - 1) = 0..(writePointer - 1) \cup (writePointer..(end - 1))
    BY <1>2
  <2>2. 0..(writePointer - 1)
          = DOMAIN ELF \cup Slots(todo)
    BY DEF PackInv
  <2>3. DOMAIN words \cup Slots(newJobs)
          = {j.slot, j.slot + 1} \cup (writePointer..(end - 1))
    BY DEF Fills
  <2>4. Slots(todo') \cup {j.slot, j.slot + 1}
          = Slots(todo) \cup Slots(newJobs) \cup {j.slot, j.slot + 1}
    BY <1>1 DEF Slots
  <2>5. {j.slot, j.slot + 1} \subseteq DOMAIN words
    BY DEF Fills
  <2>6. 0..(end - 1)
          = DOMAIN ELF' \cup Slots(todo')
    <3>1. {j.slot, j.slot + 1} \subseteq 0..(writePointer - 1)
      BY <1>2
    <3>2. DOMAIN ELF' = DOMAIN words \cup DOMAIN ELF
      BY <1>5
    <3>3. QED
      BY <3>1, <3>2, <2>1, <2>2, <2>3, <2>4, <2>5, Zenon
  <2>7. QED
    BY <1>1, <2>6 DEF PackInv, Slots
<1>12. QED
  BY <1>1, <1>4, <1>5, <1>7, <1>10, <1>11

-----------------------------------------------------------------------------
\* One list, and one mono list, as ListInv and MonoInv have them.
ListOK(l) ==
  /\ l.dim \in 1..(NUM_DIM - 1)
  /\ l.position \in 0..(writePointer - 1)
  /\ SharePrefix(l.tids, l.dim)
  /\ \A v \in ValuesOf(l.tids, l.dim) :
       /\ At(l, v) \in DOMAIN ELF
       /\ ELF[At(l, v)] = Word(l.tids, l.dim, v)
       /\ Linked(At(l, v) + 1, Group(l.tids, l.dim, v), l.dim + 1)
MonoOK(m) ==
  /\ m.dim \in 1..NUM_DIM /\ m.tid \in TIDs
  /\ m.position \in Nat
  /\ m.position + NUM_DIM - m.dim \in DOMAIN ELF
  /\ ELF[m.position + NUM_DIM - m.dim] \in {m.tid, m.tid + LAST_ENTRY_MASK}
  /\ \A k \in m.dim..(NUM_DIM - 1) :
       /\ m.position + k - m.dim \in DOMAIN ELF
       /\ ELF[m.position + k - m.dim] = STORE[m.tid][k]

\* What a step of the build leaves as it was, once the pointer of its job leads
\* to the rows of the job.
LEMMA OldKept ==
  ASSUME WordsInv, JobInv, PackInv, ListInv, MonoInv, FirstInv, StageInv,
         NEW j \in todo, NEW words, NEW end, NEW newJobs,
         Wrote(j, words, end, newJobs), Fills(j, words, end, newJobs),
         lists \subseteq lists', monos \subseteq monos',
         Leads(words[j.slot], j.tids, j.dim)'
  PROVE  /\ \A l \in lists : ListOK(l)'
         /\ \A m \in monos : MonoOK(m)'
         /\ FirstInv' /\ StageInv'
<1>1. /\ STORE' = STORE /\ MAX_FIRST_DIM' = MAX_FIRST_DIM /\ stage' = stage
      /\ writePointer' = end /\ todo' = (todo \ {j}) \cup newJobs
      /\ stage = "build"
  BY DEF Wrote
<1>2. /\ \A p \in DOMAIN ELF : p \in DOMAIN ELF' /\ ELF'[p] = ELF[p]
      /\ \A p \in DOMAIN words : p \in DOMAIN ELF' /\ ELF'[p] = words[p]
  BY FillsFacts
<1>3. /\ TIDs' = TIDs /\ LastRowIsKept' = LastRowIsKept
      /\ \A T, d : ValuesOf(T, d)' = ValuesOf(T, d)
      /\ \A T, d, v : /\ Group(T, d, v)' = Group(T, d, v)
                      /\ Word(T, d, v)' = Word(T, d, v)
      /\ \A l, v : At(l, v)' = At(l, v)
      /\ \A T, d : SharePrefix(T, d)' = SharePrefix(T, d)
      /\ \A m, T : Keeps(m, T)' = Keeps(m, T)
  BY <1>1, SameTable
<1>4. ASSUME NEW pointer, NEW T, NEW d, Leads(pointer, T, d)
      PROVE  Leads(pointer, T, d)'
  BY <1>3, <1>4 DEF Leads
<1>5. ASSUME NEW slot, NEW T, NEW d, Linked(slot, T, d)
      PROVE  Linked(slot, T, d)'
  <2>1. CASE Job(slot, T, d) \in todo \ {j}
    BY <1>1, <2>1 DEF Linked
  <2>2. CASE Job(slot, T, d) = j
    <3>1. j.slot = slot /\ j.tids = T /\ j.dim = d
      BY <2>2 DEF Job
    <3>2. slot \in DOMAIN words
      BY <3>1 DEF Fills
    <3>3. slot \in DOMAIN ELF' /\ ELF'[slot] = words[slot]
      BY <1>2, <3>2
    <3>4. QED
      BY <3>1, <3>3 DEF Linked, Leads
  <2>3. CASE slot \in DOMAIN ELF /\ Leads(ELF[slot], T, d)
    <3>1. slot \in DOMAIN ELF' /\ ELF'[slot] = ELF[slot]
      BY <1>2, <2>3
    <3>2. PICK pointer : pointer = ELF[slot]
      OBVIOUS
    <3>3. Leads(pointer, T, d)
      BY <2>3, <3>2
    <3>4. Leads(pointer, T, d)'
      BY <1>4, <3>3
    <3>5. QED
      BY <3>1, <3>2, <3>4 DEF Linked, Leads
  <2>4. QED
    BY <1>5, <2>1, <2>2, <2>3 DEF Linked
<1>6. ASSUME NEW l \in lists
      PROVE  ListOK(l)'
  <2>1. ListOK(l)
    BY DEF ListInv, ListOK
  <2>2. l.position \in 0..(end - 1)
    BY <2>1 DEF ListOK, Fills, WordsInv
  <2>3. /\ l.dim \in 1..(NUM_DIM - 1)
        /\ SharePrefix(l.tids, l.dim)
        /\ SharePrefix(l.tids, l.dim)'
        /\ ValuesOf(l.tids, l.dim)' = ValuesOf(l.tids, l.dim)
    BY <1>3, <2>1 DEF ListOK
  <2>4. ASSUME NEW v \in ValuesOf(l.tids, l.dim)
        PROVE  /\ At(l, v)' \in DOMAIN ELF'
               /\ ELF'[At(l, v)'] = Word(l.tids, l.dim, v)'
               /\ Linked(At(l, v) + 1, Group(l.tids, l.dim, v), l.dim + 1)'
    <3>1. PICK p, T : p = At(l, v) /\ T = Group(l.tids, l.dim, v)
      OBVIOUS
    <3>2. /\ p \in DOMAIN ELF /\ ELF[p] = Word(l.tids, l.dim, v)
          /\ Linked(p + 1, T, l.dim + 1)
      BY <2>1, <3>1 DEF ListOK
    <3>3. /\ p \in DOMAIN ELF' /\ ELF'[p] = Word(l.tids, l.dim, v)
          /\ Linked(p + 1, T, l.dim + 1)'
      BY <1>2, <1>5, <3>2
    <3>4. /\ p = At(l, v)' /\ T = Group(l.tids, l.dim, v)'
          /\ Word(l.tids, l.dim, v)' = Word(l.tids, l.dim, v)
      BY <1>3, <3>1
    <3>5. QED
      BY <3>3, <3>4
  <2>5. QED
    BY <1>1, <2>2, <2>3, <2>4 DEF ListOK
<1>7. ASSUME NEW m \in monos
      PROVE  MonoOK(m)'
  <2>1. MonoOK(m)
    BY DEF MonoInv, MonoOK
  <2>2. QED
    BY <1>1, <1>2, <1>3, <2>1 DEF MonoOK
<1>8. FirstInv'
  <2>1. /\ ValuesOf(TIDs, 0) = 0..MAX_FIRST_DIM
        /\ \A v \in 0..MAX_FIRST_DIM : Linked(2 * v, Group(TIDs, 0, v), 1)
    BY <1>1 DEF FirstInv
  <2>2. ASSUME NEW v \in 0..MAX_FIRST_DIM
        PROVE  Linked(2 * v, Group(TIDs, 0, v), 1)'
    <3>1. PICK T : T = Group(TIDs, 0, v)
      OBVIOUS
    <3>2. Linked(2 * v, T, 1)'
      BY <1>5, <2>1, <3>1
    <3>3. T = Group(TIDs, 0, v)'
      BY <1>1, <1>3, <3>1 DEF Group
    <3>4. QED
      BY <3>2, <3>3
  <2>3. ValuesOf(TIDs, 0)' = ValuesOf(TIDs, 0)
    BY <1>1, <1>3 DEF ValuesOf
  <2>4. QED
    BY <1>1, <2>1, <2>2, <2>3 DEF FirstInv
<1>9. StageInv'
  BY <1>1 DEF StageInv
<1>10. QED
  BY <1>6, <1>7, <1>8, <1>9

-----------------------------------------------------------------------------
\* The two tokens of a row and a dimension.
LEMMA TwoFacts == IsFiniteSet({1, 2}) /\ Cardinality({1, 2}) = 2
<1>1. IsFiniteSet({1}) /\ Cardinality({1}) = 1
  BY FS_Singleton
<1>2. IsFiniteSet({1} \cup {2}) /\ Cardinality({1} \cup {2}) = 2
  BY <1>1, FS_AddElement
<1>3. {1} \cup {2} = {1, 2}
  OBVIOUS
<1>4. QED
  BY <1>2, <1>3

\* There are no more tokens than words.
LEMMA TokenFacts ==
  ASSUME STORE \in Tables
  PROVE  /\ IsFiniteSet(Tokens) /\ Cardinality(Tokens) <= Capacity
         /\ \A N \in SUBSET Tokens : IsFiniteSet(N) /\ Cardinality(N) \in Nat
<1>1. IsFiniteSet(TIDs) /\ Cardinality(TIDs) = NUM_POINTS /\ NUM_POINTS \in Nat
  BY StoreFacts DEF NUM_POINTS
<1>2. IsFiniteSet(0..NUM_DIM) /\ Cardinality(0..NUM_DIM) = NUM_DIM + 1
  BY DimFacts, FS_Interval
<1>3. IsFiniteSet({1, 2}) /\ Cardinality({1, 2}) = 2
  BY TwoFacts
<1>4. /\ IsFiniteSet(TIDs \X (0..NUM_DIM))
      /\ Cardinality(TIDs \X (0..NUM_DIM)) = NUM_POINTS * (NUM_DIM + 1)
  BY <1>1, <1>2, FS_Product
<1>5. /\ IsFiniteSet(Tokens)
      /\ Cardinality(Tokens) = NUM_POINTS * (NUM_DIM + 1) * 2
  BY <1>3, <1>4, FS_Product DEF Tokens
<1>6. Cardinality(Tokens) <= Capacity
  <2>1. Capacity = 2 * NUM_POINTS * (NUM_DIM + 3)
    BY StoreFacts
  <2>2. NUM_POINTS \in Nat /\ NUM_DIM \in Nat
    BY <1>1, DimFacts
  <2>3. NUM_POINTS * (NUM_DIM + 1) * 2 <= 2 * NUM_POINTS * (NUM_DIM + 3)
    BY <2>2
  <2>4. QED
    BY <1>5, <2>1, <2>3
<1>7. ASSUME NEW N \in SUBSET Tokens
      PROVE  IsFiniteSet(N) /\ Cardinality(N) \in Nat
  BY <1>5, FS_Subset, FS_CardinalityType
<1>8. QED
  BY <1>5, <1>6, <1>7

\* A step that frees as many tokens as it writes words.
LEMMA SizeStep ==
  ASSUME WordsInv, JobInv, SizeInv,
         NEW j \in todo, NEW words, NEW end, NEW newJobs,
         Wrote(j, words, end, newJobs), Fills(j, words, end, newJobs),
         NEW N \in SUBSET Reserved(j), end - writePointer <= Cardinality(N),
         \A i \in newJobs : Reserved(i) \subseteq Reserved(j) \ N
  PROVE  SizeInv'
<1>1. /\ STORE' = STORE /\ writePointer' = end
      /\ todo' = (todo \ {j}) \cup newJobs
  BY DEF Wrote
<1>2. Tokens' = Tokens
  BY <1>1, SameTable
<1>3. /\ IsFiniteSet(Tokens)
      /\ \A M \in SUBSET Tokens : IsFiniteSet(M) /\ Cardinality(M) \in Nat
  BY TokenFacts DEF WordsInv
<1>4. Reserved(j) \subseteq Tokens
  <2>1. j.tids \subseteq TIDs /\ j.dim \in 1..NUM_DIM
    BY DEF WordsInv
  <2>2. j.tids \X (j.dim..NUM_DIM) \subseteq TIDs \X (0..NUM_DIM)
    BY <2>1, DimFacts
  <2>3. QED
    BY <2>2 DEF Reserved, Tokens
<1>5. ASSUME NEW i \in todo, i # j
      PROVE  Reserved(i) \cap Reserved(j) = {}
  <2>1. i.tids \cap j.tids = {}
    BY <1>5 DEF JobInv
  <2>2. QED
    BY <2>1 DEF Reserved
<1>6. N \cap Unreserved = {}
  BY DEF Unreserved
<1>7. N \cup Unreserved \in SUBSET Unreserved'
  <2>1. Unreserved' = Tokens \ UNION {Reserved(i) : i \in todo'}
    BY <1>2 DEF Unreserved, Reserved
  <2>2. ASSUME NEW x \in N \cup Unreserved, NEW i \in todo'
        PROVE  x \in Tokens /\ x \notin Reserved(i)
    <3>1. CASE x \in N
      <4>1. x \in Tokens /\ x \in Reserved(j)
        BY <1>4, <3>1
      <4>2. CASE i \in newJobs
        BY <3>1, <4>1, <4>2
      <4>3. CASE i \in todo /\ i # j
        BY <1>5, <4>1, <4>3
      <4>4. QED
        BY <1>1, <4>1, <4>2, <4>3
    <3>2. CASE x \in Unreserved
      <4>1. x \in Tokens /\ \A k \in todo : x \notin Reserved(k)
        BY <3>2 DEF Unreserved
      <4>2. QED
        BY <1>1, <4>1
    <3>3. QED
      BY <3>1, <3>2
  <2>3. QED
    BY <1>4, <2>1, <2>2 DEF Unreserved
<1>8. Unreserved \in SUBSET Tokens /\ Unreserved' \in SUBSET Tokens
  BY <1>2 DEF Unreserved
<1>9. /\ IsFiniteSet(N) /\ IsFiniteSet(Unreserved) /\ IsFiniteSet(Unreserved')
      /\ Cardinality(N) \in Nat /\ Cardinality(Unreserved) \in Nat
      /\ Cardinality(Unreserved') \in Nat
  BY <1>3, <1>4, <1>8
<1>10. Cardinality(N \cup Unreserved) = Cardinality(N) + Cardinality(Unreserved)
  <2>1. Cardinality(N \cap Unreserved) = 0
    BY <1>6, FS_EmptySet
  <2>2. Cardinality(N \cup Unreserved)
          = Cardinality(N) + Cardinality(Unreserved) - Cardinality(N \cap Unreserved)
    BY <1>9, FS_Union
  <2>3. QED
    BY <1>9, <2>1, <2>2
<1>11. Cardinality(N \cup Unreserved) <= Cardinality(Unreserved')
  BY <1>7, <1>9, FS_Subset
<1>12. end \in Nat /\ writePointer \in Nat
  BY DEF Fills, WordsInv
<1>13. QED
  BY <1>1, <1>9, <1>10, <1>11, <1>12 DEF SizeInv

-----------------------------------------------------------------------------
\* The lists are kept apart when there is no new one.
LEMMA ApartKept ==
  ASSUME ApartInv, STORE' = STORE, lists' = lists
  PROVE  ApartInv'
<1>1. /\ \A T, d : ValuesOf(T, d)' = ValuesOf(T, d)
      /\ \A l, v : At(l, v)' = At(l, v)
  BY SameTable
<1>2. ASSUME NEW l \in lists, NEW m \in lists,
             NEW v \in ValuesOf(l.tids, l.dim)', NEW w \in ValuesOf(m.tids, m.dim)',
             At(l, v)' = At(m, w)'
      PROVE  l = m /\ v = w
  <2>1. v \in ValuesOf(l.tids, l.dim) /\ w \in ValuesOf(m.tids, m.dim)
    BY <1>1
  <2>2. At(l, v) = At(m, w)
    BY <1>1, <1>2
  <2>3. QED
    BY <2>1, <2>2 DEF ApartInv
<1>3. QED
  BY <1>2 DEF ApartInv

\* A step that writes a mono list for the rows of its job.
LEMMA MonoStep ==
  ASSUME BuildInv, NEW j \in todo, NEW words, NEW end, NEW m,
         Wrote(j, words, end, {}), Fills(j, words, end, {}),
         lists' = lists, monos' = monos \cup {m},
         m.dim = j.dim, words[j.slot] = m.position + LAST_ENTRY_MASK64,
         LastRowIsKept => Keeps(m, j.tids),
         m.tid \in TIDs, m.position \in Nat,
         m.position + NUM_DIM - m.dim \in DOMAIN words,
         words[m.position + NUM_DIM - m.dim] \in {m.tid, m.tid + LAST_ENTRY_MASK},
         \A k \in m.dim..(NUM_DIM - 1) :
           /\ m.position + k - m.dim \in DOMAIN words
           /\ words[m.position + k - m.dim] = STORE[m.tid][k],
         NEW N \in SUBSET Reserved(j), end - writePointer <= Cardinality(N)
  PROVE  BuildInv'
<1> USE DEF BuildInv
<1>1. /\ WordsInv' /\ JobInv' /\ PackInv'
      /\ \A p \in DOMAIN words : p \in DOMAIN ELF' /\ ELF'[p] = words[p]
  BY FillsFacts
<1>2. STORE' = STORE
  BY DEF Wrote
<1>3. /\ TIDs' = TIDs /\ LastRowIsKept' = LastRowIsKept
      /\ \A x, S : Keeps(x, S)' = Keeps(x, S)
  BY <1>2, SameTable
<1>4. Leads(words[j.slot], j.tids, j.dim)'
  <2>1. LastRowIsKept' => Keeps(m, j.tids)'
    BY <1>3
  <2>2. QED
    BY <2>1 DEF Leads
<1>5. MonoOK(m)'
  <2>1. m.dim \in 1..NUM_DIM
    BY DEF WordsInv
  <2>2. QED
    BY <1>1, <1>2, <1>3, <2>1 DEF MonoOK
<1>6. /\ \A l \in lists : ListOK(l)'
      /\ \A x \in monos : MonoOK(x)'
      /\ FirstInv' /\ StageInv'
  BY <1>4, OldKept
<1>7. ListInv' /\ MonoInv'
  BY <1>5, <1>6 DEF ListInv, ListOK, MonoInv, MonoOK
<1>8. ApartInv'
  BY <1>2, ApartKept
<1>9. SizeInv'
  BY SizeStep
<1>10. QED
  BY <1>1, <1>6, <1>7, <1>8, <1>9

\* Equal rows.
LEMMA EqualStep ==
  ASSUME BuildInv, NEW j \in todo, linearize_equal(j)
  PROVE  BuildInv'
<1>1. /\ j.slot \in Nat /\ j.slot < writePointer - 1 /\ writePointer \in Nat
      /\ j.tids \in (SUBSET TIDs) \ {{}} /\ j.dim = NUM_DIM
      /\ STORE \in Tables
  BY DEF BuildInv, WordsInv, linearize_equal
<1>2. IsFiniteSet(j.tids) /\ Cardinality(j.tids) \in Nat \ {0}
  BY <1>1, StoreFacts, FS_Subset, FS_CardinalityType, FS_EmptySet
<1>3. PICK end : end = writePointer + Cardinality(j.tids) - 1
  OBVIOUS
<1>4. PICK order \in Bijection(writePointer..end, j.tids) :
        /\ Wrote(j, Over(set64(j.slot, end + LAST_ENTRY_MASK64),
                         [p \in writePointer..end |->
                            IF p = end THEN order[p] + LAST_ENTRY_MASK
                                       ELSE order[p]]),
                 end + 1, {})
        /\ monos' = monos \cup
                {[position |-> end, tid |-> order[end], dim |-> NUM_DIM]}
        /\ lists' = lists
  BY <1>3 DEF linearize_equal
<1>5. PICK f : f = [p \in writePointer..end |->
                      IF p = end THEN order[p] + LAST_ENTRY_MASK ELSE order[p]]
  OBVIOUS
<1>6. PICK words : words = Over(set64(j.slot, end + LAST_ENTRY_MASK64), f)
  OBVIOUS
<1>7. PICK m : m = [position |-> end, tid |-> order[end], dim |-> NUM_DIM]
  OBVIOUS
<1>8. end \in Nat /\ end \in writePointer..end /\ writePointer <= end
  BY <1>1, <1>2, <1>3
<1>9. \A p \in writePointer..end : order[p] \in j.tids /\ order[p] \in Nat
  <2>1. \A p \in writePointer..end : order[p] \in j.tids
    BY DEF Bijection, Injection
  <2>2. QED
    BY <1>1, <2>1, StoreFacts
<1>10. /\ DOMAIN f = writePointer..end
       /\ f[end] = order[end] + LAST_ENTRY_MASK
       /\ \A p \in DOMAIN f : f[p] \in Nat
  BY <1>5, <1>8, <1>9, DimFacts
<1>11. /\ DOMAIN words = {j.slot, j.slot + 1} \cup (writePointer..end)
       /\ words[j.slot] = end + LAST_ENTRY_MASK64
       /\ words[j.slot + 1] = 0
       /\ \A p \in writePointer..end : words[p] = f[p]
  <2>1. DOMAIN words = {j.slot, j.slot + 1} \cup DOMAIN f
    BY <1>6 DEF Over, set64
  <2>2. \A p \in DOMAIN words :
          words[p] = IF p \in {j.slot, j.slot + 1}
                     THEN IF p = j.slot THEN end + LAST_ENTRY_MASK64 ELSE 0
                     ELSE f[p]
    BY <1>6 DEF Over, set64
  <2>3. j.slot + 1 # j.slot /\ j.slot \notin DOMAIN f /\ j.slot + 1 \notin DOMAIN f
    BY <1>1, <1>10
  <2>4. \A p \in DOMAIN f : words[p] = f[p]
    BY <2>1, <2>2, <2>3
  <2>5. QED
    BY <1>10, <2>1, <2>2, <2>3, <2>4
<1>12. Wrote(j, words, end + 1, {})
  BY <1>4, <1>5, <1>6
<1>13. Fills(j, words, end + 1, {})
  <2>1. (end + 1) - 1 = end
    BY <1>8
  <2>2. \A p \in DOMAIN words : words[p] \in Nat
    BY <1>8, <1>10, <1>11, DimFacts
  <2>3. QED
    BY <1>1, <1>8, <1>11, <2>1, <2>2 DEF Fills, Slots
<1>14. /\ m.position = end /\ m.tid = order[end] /\ m.dim = NUM_DIM
       /\ m.position + NUM_DIM - m.dim = end
       /\ m.dim..(NUM_DIM - 1) = {}
  BY <1>7, <1>8, DimFacts
<1>15. Keeps(m, j.tids)
  BY <1>8, <1>9, <1>14 DEF Keeps
<1>16. words[end] = m.tid + LAST_ENTRY_MASK /\ end \in DOMAIN words
  BY <1>8, <1>10, <1>11, <1>14
<1>17. PICK N : N = (j.tids \X (NUM_DIM..NUM_DIM)) \X {1}
  OBVIOUS
<1>18. N \in SUBSET Reserved(j)
  BY <1>1, <1>17 DEF Reserved
<1>19. (end + 1) - writePointer <= Cardinality(N)
  <2>1. IsFiniteSet({NUM_DIM}) /\ Cardinality({NUM_DIM}) = 1
    BY FS_Singleton
  <2>2. NUM_DIM..NUM_DIM = {NUM_DIM}
    BY DimFacts
  <2>3. /\ IsFiniteSet(j.tids \X {NUM_DIM})
        /\ Cardinality(j.tids \X {NUM_DIM}) = Cardinality(j.tids) * 1
    BY <1>2, <2>1, FS_Product
  <2>4. IsFiniteSet({1}) /\ Cardinality({1}) = 1
    BY FS_Singleton
  <2>5. Cardinality(N) = (Cardinality(j.tids) * 1) * 1
    BY <1>17, <2>2, <2>3, <2>4, FS_Product
  <2>6. QED
    BY <1>1, <1>2, <1>3, <2>5
<1>20. /\ m.dim = j.dim /\ m.tid \in TIDs /\ m.position \in Nat
       /\ words[j.slot] = m.position + LAST_ENTRY_MASK64
       /\ m.position + NUM_DIM - m.dim \in DOMAIN words
       /\ words[m.position + NUM_DIM - m.dim]
            \in {m.tid, m.tid + LAST_ENTRY_MASK}
  BY <1>1, <1>8, <1>9, <1>11, <1>14, <1>16
<1>21. lists' = lists /\ monos' = monos \cup {m}
  BY <1>4, <1>7
<1>22. \A k \in m.dim..(NUM_DIM - 1) :
           /\ m.position + k - m.dim \in DOMAIN words
           /\ words[m.position + k - m.dim] = STORE[m.tid][k]
  BY <1>14
<1>23. QED
  BY <1>12, <1>13, <1>15, <1>18, <1>19, <1>20, <1>21, <1>22, MonoStep

\* When the last row is kept, the row that is read is that of the group.
LEMMA ReadFacts ==
  ASSUME BuildInv, stage = "build", NEW j \in todo, Cardinality(j.tids) = 1,
         LastRowIsKept, NEW tid \in TIDsRead(j.tids, j.dim)
  PROVE  j.tids = {tid}
<1>1. /\ STORE \in Tables /\ j.tids \in (SUBSET TIDs) \ {{}}
      /\ SharePrefix(j.tids, j.dim)
      /\ ValuesOf(TIDs, 0) = 0..MAX_FIRST_DIM /\ MAX_FIRST_DIM \in Nat
  BY DEF BuildInv, WordsInv, JobInv, FirstInv
<1>2. PICK t : j.tids = {t}
  <2>1. IsFiniteSet(j.tids)
    BY <1>1, StoreFacts, FS_Subset
  <2>2. QED
    BY <2>1, FS_Singleton
<1>3. ASSUME j.dim = 1, NUM_POINTS # 1, \A s \in j.tids : STORE[s][0] = MAX_FIRST_DIM
      PROVE  FALSE
  <2>1. PICK u \in TIDs, w \in TIDs :
          /\ u # w /\ STORE[u][0] = STORE[w][0]
          /\ \A s \in TIDs : STORE[s][0] <= STORE[u][0]
    BY <1>3, Zenon DEF LastRowIsKept
  <2>2. STORE[u][0] = MAX_FIRST_DIM
    <3>1. PICK s \in TIDs : STORE[s][0] = MAX_FIRST_DIM
      <4>1. MAX_FIRST_DIM \in ValuesOf(TIDs, 0)
        BY <1>1
      <4>2. QED
        BY <4>1 DEF ValuesOf
    <3>2. STORE[u][0] \in 0..MAX_FIRST_DIM
      BY <1>1 DEF ValuesOf
    <3>3. STORE[s][0] <= STORE[u][0]
      BY <2>1
    <3>4. QED
      BY <1>1, <3>1, <3>2, <3>3
  <2>3. ASSUME NEW s \in TIDs, STORE[s][0] = MAX_FIRST_DIM
        PROVE  s = t
    <3>1. t \in j.tids /\ STORE[t][0] = MAX_FIRST_DIM
      BY <1>2, <1>3
    <3>2. s \in j.tids <=> \A k \in 0..(j.dim - 1) : STORE[s][k] = STORE[t][k]
      BY <1>1, <3>1 DEF SharePrefix
    <3>3. 0..(j.dim - 1) = {0}
      BY <1>3
    <3>4. s \in j.tids
      BY <2>3, <3>1, <3>2, <3>3
    <3>5. QED
      BY <1>2, <3>4
  <2>4. QED
    BY <2>1, <2>2, <2>3
<1>4. TIDsRead(j.tids, j.dim) = j.tids
  BY <1>3 DEF TIDsRead
<1>5. QED
  BY <1>2, <1>4

\* One row.
LEMMA SingleStep ==
  ASSUME BuildInv, NEW j \in todo, linearize_elf_mono(j)
  PROVE  BuildInv'
<1>1. /\ j.slot \in Nat /\ j.slot < writePointer - 1 /\ writePointer \in Nat
      /\ j.tids \in (SUBSET TIDs) \ {{}} /\ j.dim \in 1..(NUM_DIM - 1)
      /\ STORE \in Tables
  BY DimFacts DEF BuildInv, WordsInv, linearize_elf_mono
<1>2. Cardinality(j.tids) = 1 /\ IsFiniteSet(j.tids)
  BY <1>1, StoreFacts, FS_Subset DEF linearize_elf_mono
<1>3. PICK end : end = writePointer + NUM_DIM - j.dim
  OBVIOUS
<1>4. PICK tid \in TIDsRead(j.tids, j.dim) :
        /\ Wrote(j, Over(set64(j.slot, writePointer + LAST_ENTRY_MASK64),
                         [p \in writePointer..end |->
                            IF p < end THEN STORE[tid][j.dim + p - writePointer]
                            ELSE IF j.dim > 1 THEN tid + LAST_ENTRY_MASK ELSE tid]),
                 end + 1, {})
        /\ monos' = monos \cup
                {[position |-> writePointer, tid |-> tid, dim |-> j.dim]}
        /\ lists' = lists
  BY <1>3 DEF linearize_elf_mono
<1>5. PICK f : f = [p \in writePointer..end |->
                      IF p < end THEN STORE[tid][j.dim + p - writePointer]
                      ELSE IF j.dim > 1 THEN tid + LAST_ENTRY_MASK ELSE tid]
  OBVIOUS
<1>6. PICK words : words = Over(set64(j.slot, writePointer + LAST_ENTRY_MASK64), f)
  OBVIOUS
<1>7. PICK m : m = [position |-> writePointer, tid |-> tid, dim |-> j.dim]
  OBVIOUS
<1>8. end \in Nat /\ writePointer < end
  BY <1>1, <1>3, DimFacts
<1>9. /\ tid \in TIDs /\ tid \in Nat
      /\ \A k \in 0..(NUM_DIM - 1) : STORE[tid][k] \in Nat
  <2>1. tid \in TIDs
    BY <1>1 DEF TIDsRead
  <2>2. QED
    BY <1>1, <2>1, StoreFacts, DimFacts
<1>10. /\ DOMAIN f = writePointer..end
       /\ f[end] \in {tid, tid + LAST_ENTRY_MASK}
       /\ \A p \in writePointer..(end - 1) : f[p] = STORE[tid][j.dim + p - writePointer]
       /\ \A p \in DOMAIN f : f[p] \in Nat
  <2>1. DOMAIN f = writePointer..end
    BY <1>5
  <2>2. end \in writePointer..end /\ ~(end < end)
    BY <1>1, <1>8
  <2>3. f[end] \in {tid, tid + LAST_ENTRY_MASK}
    BY <1>5, <2>2
  <2>4. ASSUME NEW p \in writePointer..(end - 1)
        PROVE  /\ f[p] = STORE[tid][j.dim + p - writePointer]
               /\ j.dim + p - writePointer \in 0..(NUM_DIM - 1)
    <3>1. p \in writePointer..end /\ p < end
      BY <1>1, <1>8
    <3>2. j.dim + p - writePointer \in 0..(NUM_DIM - 1)
      BY <1>1, <1>3, DimFacts
    <3>3. QED
      BY <1>5, <3>1, <3>2
  <2>5. ASSUME NEW p \in DOMAIN f
        PROVE  f[p] \in Nat
    <3>1. CASE p = end
      BY <1>9, <2>3, <3>1, DimFacts
    <3>2. CASE p # end
      <4>1. p \in writePointer..(end - 1)
        BY <1>1, <1>8, <2>1, <3>2
      <4>2. QED
        BY <1>9, <2>4, <4>1
    <3>3. QED
      BY <3>1, <3>2
  <2>6. QED
    BY <2>1, <2>3, <2>4, <2>5
<1>11. /\ DOMAIN words = {j.slot, j.slot + 1} \cup (writePointer..end)
       /\ words[j.slot] = writePointer + LAST_ENTRY_MASK64
       /\ words[j.slot + 1] = 0
       /\ \A p \in writePointer..end : words[p] = f[p]
  <2>1. DOMAIN words = {j.slot, j.slot + 1} \cup DOMAIN f
    BY <1>6 DEF Over, set64
  <2>2. \A p \in DOMAIN words :
          words[p] = IF p \in {j.slot, j.slot + 1}
                     THEN IF p = j.slot THEN writePointer + LAST_ENTRY_MASK64 ELSE 0
                     ELSE f[p]
    BY <1>6 DEF Over, set64
  <2>3. j.slot + 1 # j.slot /\ j.slot \notin DOMAIN f /\ j.slot + 1 \notin DOMAIN f
    BY <1>1, <1>10
  <2>4. \A p \in DOMAIN f : words[p] = f[p]
    BY <2>1, <2>2, <2>3
  <2>5. QED
    BY <1>10, <2>1, <2>2, <2>3, <2>4
<1>12. Wrote(j, words, end + 1, {})
  BY <1>4, <1>5, <1>6
<1>13. Fills(j, words, end + 1, {})
  <2>1. (end + 1) - 1 = end
    BY <1>8
  <2>2. \A p \in DOMAIN words : words[p] \in Nat
    BY <1>1, <1>10, <1>11, DimFacts
  <2>3. QED
    BY <1>1, <1>8, <1>11, <2>1, <2>2 DEF Fills, Slots
<1>14. m.position = writePointer /\ m.tid = tid /\ m.dim = j.dim
  BY <1>7
<1>15. LastRowIsKept => Keeps(m, j.tids)
  <2>1. SUFFICES ASSUME LastRowIsKept
                 PROVE  Keeps(m, j.tids)
    OBVIOUS
  <2>2. stage = "build"
    BY <1>12 DEF Wrote
  <2>3. j.tids = {tid}
    BY <1>2, <2>1, <2>2, ReadFacts
  <2>4. QED
    BY <1>14, <2>3 DEF Keeps
<1>16. m.position + NUM_DIM - m.dim = end
  BY <1>3, <1>14
<1>17. /\ end \in DOMAIN words
       /\ words[end] \in {m.tid, m.tid + LAST_ENTRY_MASK}
  <2>1. end \in writePointer..end
    BY <1>1, <1>8
  <2>2. QED
    BY <1>10, <1>11, <1>14, <2>1
<1>18. ASSUME NEW k \in m.dim..(NUM_DIM - 1)
       PROVE  /\ m.position + k - m.dim \in DOMAIN words
              /\ words[m.position + k - m.dim] = STORE[m.tid][k]
  <2>1. PICK p : p = m.position + k - m.dim
    OBVIOUS
  <2>2. /\ p \in writePointer..(end - 1)
        /\ j.dim + p - writePointer = k
    <3>1. k \in j.dim..(NUM_DIM - 1) /\ p = writePointer + k - j.dim
      BY <1>14, <2>1
    <3>2. PICK d \in Int, i \in Int : d = j.dim /\ i = k
      BY <1>1, <3>1, DimFacts
    <3>3. /\ d <= i /\ i <= NUM_DIM - 1 /\ p = writePointer + i - d
          /\ end = writePointer + NUM_DIM - d
      BY <1>1, <1>3, <3>1, <3>2, DimFacts
    <3>4. p \in writePointer..(end - 1) /\ d + p - writePointer = i
      BY <1>1, <3>3, DimFacts
    <3>5. QED
      BY <3>2, <3>4
  <2>3. p \in writePointer..end
    BY <1>1, <1>8, <2>2
  <2>4. words[p] = STORE[tid][k]
    BY <1>10, <1>11, <2>2, <2>3
  <2>5. QED
    BY <1>11, <1>14, <2>1, <2>3, <2>4
<1>19. PICK N : N = (j.tids \X (j.dim..NUM_DIM)) \X {1}
  OBVIOUS
<1>20. N \in SUBSET Reserved(j)
  BY <1>2, <1>19 DEF Reserved
<1>21. (end + 1) - writePointer <= Cardinality(N)
  <2>1. /\ IsFiniteSet(j.dim..NUM_DIM)
        /\ Cardinality(j.dim..NUM_DIM) = NUM_DIM - j.dim + 1
    BY <1>1, DimFacts, FS_Interval
  <2>2. /\ IsFiniteSet(j.tids \X (j.dim..NUM_DIM))
        /\ Cardinality(j.tids \X (j.dim..NUM_DIM)) = 1 * (NUM_DIM - j.dim + 1)
    BY <1>2, <2>1, FS_Product, ZenonT(30)
  <2>3. IsFiniteSet({1}) /\ Cardinality({1}) = 1
    BY FS_Singleton
  <2>4. Cardinality(N) = (1 * (NUM_DIM - j.dim + 1)) * 1
    BY <1>19, <2>2, <2>3, FS_Product
  <2>5. QED
    BY <1>1, <1>3, <2>4, DimFacts
<1>22. /\ m.dim = j.dim /\ m.tid \in TIDs /\ m.position \in Nat
       /\ words[j.slot] = m.position + LAST_ENTRY_MASK64
       /\ m.position + NUM_DIM - m.dim \in DOMAIN words
       /\ words[m.position + NUM_DIM - m.dim]
            \in {m.tid, m.tid + LAST_ENTRY_MASK}
  BY <1>1, <1>9, <1>11, <1>14, <1>16, <1>17
<1>23. lists' = lists /\ monos' = monos \cup {m}
  BY <1>4, <1>7
<1>24. QED
  BY <1>12, <1>13, <1>15, <1>18, <1>20, <1>21, <1>22, <1>23, MonoStep

-----------------------------------------------------------------------------
\* Rows of one value, of rows that agree up to its dimension.
LEMMA PrefixFacts ==
  ASSUME NEW T, NEW d \in Nat, SharePrefix(T, d), NEW v \in ValuesOf(T, d)
  PROVE  SharePrefix(Group(T, d, v), d + 1)
<1>1. Group(T, d, v) \subseteq TIDs /\ Group(T, d, v) # {}
  BY DEF Group, ValuesOf, SharePrefix
<1>2. ASSUME NEW t \in Group(T, d, v), NEW u \in TIDs
      PROVE  u \in Group(T, d, v) <=> \A k \in 0..((d + 1) - 1) : STORE[u][k] = STORE[t][k]
  <2>1. t \in T /\ STORE[t][d] = v
    BY DEF Group
  <2>2. u \in T <=> \A k \in 0..(d - 1) : STORE[u][k] = STORE[t][k]
    BY <2>1 DEF SharePrefix
  <2>3. 0..((d + 1) - 1) = 0..(d - 1) \cup {d}
    OBVIOUS
  <2>4. u \in Group(T, d, v) <=> u \in T /\ STORE[u][d] = v
    BY DEF Group
  <2>5. QED
    BY <2>1, <2>2, <2>3, <2>4
<1>3. QED
  BY <1>1, <1>2 DEF SharePrefix

\* The tokens that pay for an entry: those of the dimension, of two rows; when
\* there is one row, it has one token left of the next dimension.
LEMMA EntryTokens ==
  ASSUME STORE \in Tables, NEW T \in (SUBSET TIDs) \ {{}}, NEW d \in 1..(NUM_DIM - 1),
         Cardinality(T) # 1, NEW slot
  PROVE  \E N \in SUBSET Reserved(Job(slot, T, d)) :
           /\ 3 * Cardinality(ValuesOf(T, d)) <= Cardinality(N)
           /\ \A v \in ValuesOf(T, d) : \A other :
                Reserved(Job(other, Group(T, d, v), d + 1))
                  \subseteq Reserved(Job(slot, T, d)) \ N
<1> DEFINE V == ValuesOf(T, d)
           G(v) == Group(T, d, v)
           R == Reserved(Job(slot, T, d))
           N == {x \in R : \/ x[1][2] = d
                           \/ /\ x[1][2] = d + 1 /\ x[2] = 2
                              /\ \E v \in V : x[1][1] \in G(v) /\ Cardinality(G(v)) = 1}
<1>1. d \in Dims /\ d \in Nat /\ d + 1 <= NUM_DIM
  BY DimFacts
<1>2. /\ V \in SUBSET Nat /\ IsFiniteSet(V)
      /\ \A v \in V : G(v) \in (SUBSET T) \ {{}}
      /\ \A v, w \in V : v # w => G(v) \cap G(w) = {}
      /\ IsFiniteSet(T)
  BY <1>1, ValuesFacts
<1>3. R = (T \X (d..NUM_DIM)) \X {1, 2}
  BY DEF Reserved, Job
<1>4. ASSUME NEW v \in V, NEW other
      PROVE  Reserved(Job(other, G(v), d + 1)) \subseteq R \ N
  <2>1. Reserved(Job(other, G(v), d + 1))
          = (G(v) \X ((d + 1)..NUM_DIM)) \X
              (IF Cardinality(G(v)) = 1 THEN {1} ELSE {1, 2})
    BY DEF Reserved, Job
  <2>2. (d + 1)..NUM_DIM \subseteq d..NUM_DIM /\ d \notin (d + 1)..NUM_DIM
    BY <1>1, DimFacts
  <2>3. ASSUME NEW x \in Reserved(Job(other, G(v), d + 1))
        PROVE  x \in R /\ x \notin N
    <3>1. /\ x[1][1] \in G(v) /\ x[1][2] \in (d + 1)..NUM_DIM /\ x \in R
          /\ Cardinality(G(v)) = 1 => x[2] = 1
      BY <1>2, <1>3, <2>1, <2>2
    <3>2. x[1][2] # d
      BY <2>2, <3>1
    <3>3. ASSUME x[2] = 2, NEW w \in V, x[1][1] \in G(w), Cardinality(G(w)) = 1
          PROVE  FALSE
      <4>1. w = v
        BY <1>2, <3>1, <3>3
      <4>2. QED
        BY <3>1, <3>3, <4>1
    <3>4. QED
      BY <3>1, <3>2, <3>3
  <2>4. QED
    BY <2>3
<1>5. IsFiniteSet(N)
  <2>1. R \subseteq Tokens
    <3>1. d..NUM_DIM \subseteq 0..NUM_DIM
      BY <1>1, DimFacts
    <3>2. QED
      BY <1>3, <3>1 DEF Tokens
  <2>2. QED
    BY <2>1, TokenFacts
<1>6. 3 * Cardinality(V) <= Cardinality(N)
  <2> DEFINE a(v) == CHOOSE t \in G(v) : TRUE
             b(v) == CHOOSE t \in G(v) : t # a(v)
             third(v) == IF Cardinality(G(v)) = 1 THEN <<<<a(v), d + 1>>, 2>>
                                                  ELSE <<<<b(v), d>>, 1>>
             f == [x \in V \X (1..3) |->
                     IF x[2] = 1 THEN <<<<a(x[1]), d>>, 1>>
                     ELSE IF x[2] = 2 THEN <<<<a(x[1]), d>>, 2>>
                     ELSE third(x[1])]
  <2>1. ASSUME NEW v \in V
        PROVE  a(v) \in G(v) /\ a(v) \in T
    BY <1>2
  <2>2. ASSUME NEW v \in V, Cardinality(G(v)) # 1
        PROVE  b(v) \in G(v) /\ b(v) \in T /\ b(v) # a(v)
    <3>1. \E t \in G(v) : t # a(v)
      <4>1. SUFFICES ASSUME \A t \in G(v) : t = a(v)
                     PROVE  FALSE
        OBVIOUS
      <4>2. G(v) = {a(v)}
        BY <2>1, <4>1
      <4>3. QED
        BY <2>2, <4>2, FS_Singleton
    <3>2. QED
      BY <1>2, <3>1
  <2> HIDE DEF a, b, V, G, R
  <2>3. d \in d..NUM_DIM /\ d + 1 \in d..NUM_DIM /\ d # d + 1
    BY <1>1, DimFacts
  <2>4. ASSUME NEW v \in V
        PROVE  /\ <<<<a(v), d>>, 1>> \in N /\ <<<<a(v), d>>, 2>> \in N
               /\ third(v) \in N
               /\ third(v) # <<<<a(v), d>>, 1>> /\ third(v) # <<<<a(v), d>>, 2>>
               /\ third(v)[1][1] \in G(v)
    <3>1. <<<<a(v), d>>, 1>> \in N /\ <<<<a(v), d>>, 2>> \in N
      BY <1>3, <2>1, <2>3
    <3>2. CASE Cardinality(G(v)) = 1
      <4>1. third(v) = <<<<a(v), d + 1>>, 2>>
        BY <3>2
      <4>2. <<<<a(v), d + 1>>, 2>> \in R
        BY <1>3, <2>1, <2>3
      <4>3. third(v) \in N
        BY <2>1, <3>2, <4>1, <4>2
      <4>4. QED
        BY <2>1, <2>3, <3>1, <4>1, <4>3
    <3>3. CASE Cardinality(G(v)) # 1
      <4>1. third(v) = <<<<b(v), d>>, 1>>
        BY <3>3
      <4>2. <<<<b(v), d>>, 1>> \in R
        BY <1>3, <2>2, <2>3, <3>3
      <4>3. third(v) \in N
        BY <4>1, <4>2
      <4>4. QED
        BY <2>2, <3>1, <3>3, <4>1, <4>3
    <3>4. QED
      BY <3>2, <3>3
  <2> HIDE DEF N, third
  <2>5. ASSUME NEW x \in V \X (1..3)
        PROVE  /\ f[x] \in N /\ f[x][1][1] \in G(x[1])
               /\ x[2] = 1 => f[x] = <<<<a(x[1]), d>>, 1>>
               /\ x[2] = 2 => f[x] = <<<<a(x[1]), d>>, 2>>
               /\ x[2] = 3 => f[x] = third(x[1])
               /\ x[2] \in {1, 2, 3}
    <3>1. x[1] \in V /\ x[2] \in {1, 2, 3}
      OBVIOUS
    <3>2. /\ x[2] = 1 => f[x] = <<<<a(x[1]), d>>, 1>>
          /\ x[2] = 2 => f[x] = <<<<a(x[1]), d>>, 2>>
          /\ x[2] = 3 => f[x] = third(x[1])
      OBVIOUS
    <3>3. QED
      BY <2>1, <2>4, <3>1, <3>2
  <2> HIDE DEF f
  <2>6. ASSUME NEW x \in V \X (1..3), NEW y \in V \X (1..3), f[x] = f[y]
        PROVE  x = y
    <3>1. x[1] \in V /\ y[1] \in V /\ x = <<x[1], x[2]>> /\ y = <<y[1], y[2]>>
      OBVIOUS
    <3>2. x[1] = y[1]
      <4>1. f[x][1][1] \in G(x[1]) /\ f[x][1][1] \in G(y[1])
        BY <2>5, <2>6
      <4>2. QED
        BY <1>2, <3>1, <4>1
    <3>3. x[2] = y[2]
      <4>1. <<<<a(x[1]), d>>, 1>> # <<<<a(x[1]), d>>, 2>>
        OBVIOUS
      <4>2. /\ third(x[1]) # <<<<a(x[1]), d>>, 1>>
            /\ third(x[1]) # <<<<a(x[1]), d>>, 2>>
        BY <2>4, <3>1
      <4>3. QED
        BY <2>5, <2>6, <3>2, <4>1, <4>2
    <3>4. QED
      BY <3>1, <3>2, <3>3
  <2>7. f \in Injection(V \X (1..3), N)
    <3>1. f \in [V \X (1..3) -> N]
      BY <2>5 DEF f
    <3>2. QED
      BY <2>6, <3>1 DEF Injection, IsInjective
  <2>8. Cardinality(V \X (1..3)) <= Cardinality(N)
    BY <1>5, <2>7, FS_Injection
  <2>9. IsFiniteSet(1..3) /\ Cardinality(1..3) = 3
    <3>1. ASSUME NEW n \in Nat
          PROVE  IsFiniteSet(1..n) /\ Cardinality(1..n) = n
      BY FS_Interval
    <3>2. QED
      BY <3>1
  <2>10. Cardinality(V \X (1..3)) = Cardinality(V) * 3
    BY <1>2, <2>9, FS_Product, SMTT(30)
  <2>11. Cardinality(V) \in Nat
    BY <1>2, FS_CardinalityType
  <2>12. QED
    BY <2>8, <2>10, <2>11
<1> HIDE DEF N, R, V, G
<1>7. N \in SUBSET R
  BY DEF N
<1>8. QED
  BY <1>4, <1>6, <1>7 DEF R, V, G

\* Rows that a dimension tells apart.
LEMMA ListStep ==
  ASSUME BuildInv, NEW j \in todo, createDimListSorting(j)
  PROVE  BuildInv'
<1>1. /\ j.slot \in Nat /\ j.slot < writePointer - 1 /\ writePointer \in Nat
      /\ j.tids \in (SUBSET TIDs) \ {{}} /\ j.dim \in 1..(NUM_DIM - 1)
      /\ STORE \in Tables /\ SharePrefix(j.tids, j.dim)
      /\ j.dim \in Dims /\ j.dim \in Nat /\ j.dim + 1 \in 1..NUM_DIM
      /\ Cardinality(j.tids) # 1
  BY DimFacts DEF BuildInv, WordsInv, JobInv, createDimListSorting
<1>2. PICK start, T, d, V, n, end, newJobs, words, l :
        /\ start = writePointer /\ T = j.tids /\ d = j.dim
        /\ V = ValuesOf(T, d) /\ n = Cardinality(V) /\ end = start + 3 * n
        /\ newJobs = {Job(Entry(start, T, d, v) + 1, Group(T, d, v), d + 1) : v \in V}
        /\ words = Over(set64(j.slot, start), Header(start, T, d))
        /\ l = [position |-> start, tids |-> T, dim |-> d]
  OBVIOUS
<1>3. /\ Wrote(j, words, end, newJobs)
      /\ lists' = lists \cup {l} /\ monos' = monos
  BY <1>2 DEF createDimListSorting
<1>4. PICK at : at = [v \in V |-> Entry(start, T, d, v)]
  OBVIOUS
<1>5. \A v \in V : at[v] = Entry(start, T, d, v) /\ at[v] = At(l, v)
  BY <1>2, <1>4 DEF At
<1>6. /\ start \in Nat /\ d \in Dims /\ T \in (SUBSET TIDs) \ {{}}
      /\ d \in 1..(NUM_DIM - 1) /\ d \in Nat
      /\ SharePrefix(T, d)
  BY <1>1, <1>2
<1>7. /\ n \in Nat \ {0}
      /\ \A v \in V : at[v] \in start..(start + 3 * n - 3)
      /\ \A v, w \in V : v < w => at[v] + 3 <= at[w]
      /\ \A v, w \in V : at[v] = at[w] => v = w
      /\ \A p \in start..(start + 3 * n - 1) :
           \E v \in V : p \in {at[v], at[v] + 1, at[v] + 2}
  <2>1. STORE \in Tables
    BY <1>1
  <2>2. /\ Cardinality(ValuesOf(T, d)) \in Nat \ {0}
        /\ \A v \in ValuesOf(T, d) :
             Entry(start, T, d, v) \in start..(start + 3 * Cardinality(ValuesOf(T, d)) - 3)
        /\ \A v, w \in ValuesOf(T, d) :
             v < w => Entry(start, T, d, v) + 3 <= Entry(start, T, d, w)
        /\ \A v, w \in ValuesOf(T, d) :
             Entry(start, T, d, v) = Entry(start, T, d, w) => v = w
        /\ \A p \in start..(start + 3 * Cardinality(ValuesOf(T, d)) - 1) :
             \E v \in ValuesOf(T, d) :
               p \in {Entry(start, T, d, v), Entry(start, T, d, v) + 1,
                      Entry(start, T, d, v) + 2}
    BY <1>6, <2>1, EntryFacts
  <2>3. V = ValuesOf(T, d) /\ n = Cardinality(ValuesOf(T, d))
    BY <1>2
  <2>4. QED
    BY <1>5, <2>2, <2>3
<1>8. /\ V \in SUBSET Nat
      /\ \A v \in V : Group(T, d, v) \in (SUBSET T) \ {{}}
      /\ \A v, w \in V : v # w => Group(T, d, v) \cap Group(T, d, w) = {}
  <2>1. STORE \in Tables
    BY <1>1
  <2>2. /\ ValuesOf(T, d) \in SUBSET Nat
        /\ \A v \in ValuesOf(T, d) : Group(T, d, v) \in (SUBSET T) \ {{}}
        /\ \A v, w \in ValuesOf(T, d) :
             v # w => Group(T, d, v) \cap Group(T, d, w) = {}
    BY <1>6, <2>1, ValuesFacts
  <2>3. V = ValuesOf(T, d)
    BY <1>2
  <2>4. QED
    BY <2>2, <2>3
<1>9. PICK header : header = Header(start, T, d)
  OBVIOUS
<1>10. /\ DOMAIN header = {at[v] : v \in V}
       /\ \A v \in V : header[at[v]] = Word(T, d, v) /\ Word(T, d, v) \in Nat
  <2>1. STORE \in Tables
    BY <1>1
  <2>2. /\ DOMAIN Header(start, T, d)
              = {Entry(start, T, d, v) : v \in ValuesOf(T, d)}
        /\ \A v \in ValuesOf(T, d) :
             /\ Header(start, T, d)[Entry(start, T, d, v)] = Word(T, d, v)
             /\ Word(T, d, v) \in Nat
    BY <1>6, <2>1, HeaderFacts
  <2>3. V = ValuesOf(T, d)
    BY <1>2
  <2>4. QED
    BY <1>5, <1>9, <2>2, <2>3
<1>11. ASSUME NEW v \in V
       PROVE  /\ at[v] \in Nat /\ start <= at[v] /\ at[v] + 3 <= end
              /\ at[v] # j.slot /\ at[v] # j.slot + 1
              /\ at[v] + 1 # j.slot /\ at[v] + 1 # j.slot + 1
              /\ at[v] + 2 # j.slot /\ at[v] + 2 # j.slot + 1
  <2>1. at[v] \in start..(start + 3 * n - 3)
    BY <1>7
  <2>2. PICK a \in Int : a = at[v]
    BY <1>6, <1>7, <2>1
  <2>3. a >= start /\ a + 3 <= end
    BY <1>2, <1>6, <1>7, <2>1, <2>2
  <2>4. j.slot < start - 1
    BY <1>1, <1>2
  <2>5. QED
    BY <1>1, <1>6, <2>2, <2>3, <2>4
<1>12. /\ DOMAIN words = {j.slot, j.slot + 1} \cup {at[v] : v \in V}
       /\ words[j.slot] = start /\ words[j.slot + 1] = 0
       /\ \A v \in V : words[at[v]] = Word(T, d, v)
  <2>1. DOMAIN words = {j.slot, j.slot + 1} \cup DOMAIN header
    BY <1>2, <1>9 DEF Over, set64
  <2>2. \A p \in DOMAIN words :
          words[p] = IF p \in {j.slot, j.slot + 1}
                     THEN IF p = j.slot THEN start ELSE 0
                     ELSE header[p]
    BY <1>2, <1>9 DEF Over, set64
  <2>3. j.slot + 1 # j.slot
    BY <1>1
  <2>4. \A v \in V : at[v] \in DOMAIN words /\ at[v] \notin {j.slot, j.slot + 1}
    BY <1>10, <1>11, <2>1
  <2>5. QED
    BY <1>10, <2>1, <2>2, <2>3, <2>4
<1>13. \A i \in newJobs : \E v \in V :
         i = Job(at[v] + 1, Group(T, d, v), d + 1)
  BY <1>2, <1>5
<1>14. ASSUME NEW v \in V, NEW w \in V, v # w
       PROVE  at[v] + 3 <= at[w] \/ at[w] + 3 <= at[v]
  <2>1. v \in Nat /\ w \in Nat
    BY <1>8
  <2>2. v < w \/ w < v
    BY <1>14, <2>1
  <2>3. QED
    BY <1>7, <2>2
<1>15. ASSUME NEW v \in V, NEW w \in V
       PROVE  at[v] + 1 # at[w] /\ at[v] + 2 # at[w]
  <2>1. PICK a \in Int, b \in Int : a = at[v] /\ b = at[w]
    BY <1>11
  <2>2. a = b \/ a + 3 <= b \/ b + 3 <= a
    BY <1>14, <2>1
  <2>3. a + 1 # b /\ a + 2 # b
    BY <2>2
  <2>4. QED
    BY <2>1, <2>3
<1>16. ASSUME NEW v \in V, NEW w \in V, v # w
       PROVE  at[v] + 1 # at[w] + 1 /\ at[v] + 1 # (at[w] + 1) + 1
  <2>1. PICK a \in Int, b \in Int : a = at[v] /\ b = at[w]
    BY <1>11
  <2>2. a + 3 <= b \/ b + 3 <= a
    BY <1>14, <1>16, <2>1
  <2>3. a + 1 # b + 1 /\ a + 1 # (b + 1) + 1
    BY <2>2
  <2>4. QED
    BY <2>1, <2>3
<1>17. Fills(j, words, end, newJobs)
  <2>1. end \in Nat /\ writePointer <= end
    BY <1>2, <1>6, <1>7
  <2>2. {j.slot, j.slot + 1} \subseteq DOMAIN words
    BY <1>12
  <2>3. DOMAIN words \cup Slots(newJobs)
          = {j.slot, j.slot + 1} \cup (writePointer..(end - 1))
    <3>1. Slots(newJobs) = UNION {{at[v] + 1, (at[v] + 1) + 1} : v \in V}
      <4>1. newJobs = {Job(at[v] + 1, Group(T, d, v), d + 1) : v \in V}
        BY <1>2, <1>5
      <4>2. \A v \in V : /\ Job(at[v] + 1, Group(T, d, v), d + 1).slot = at[v] + 1
        BY DEF Job
      <4>3. Slots(newJobs) = UNION {{i.slot, i.slot + 1} : i \in newJobs}
        BY DEF Slots
      <4>4. {{i.slot, i.slot + 1} : i \in newJobs}
              = {{at[v] + 1, (at[v] + 1) + 1} : v \in V}
        BY <4>1, <4>2
      <4>5. QED
        BY <4>3, <4>4
    <3>2. ASSUME NEW v \in V
          PROVE  (at[v] + 1) + 1 = at[v] + 2
      BY <1>11
    <3>3. ASSUME NEW p \in Slots(newJobs)
          PROVE  p \in writePointer..(end - 1)
      <4>1. PICK v \in V : p \in {at[v] + 1, at[v] + 2}
        BY <3>1, <3>2
      <4>2. at[v] \in Nat /\ writePointer <= at[v] /\ at[v] + 3 <= end
        BY <1>2, <1>11
      <4>3. QED
        BY <1>1, <2>1, <4>1, <4>2
    <3>4. ASSUME NEW v \in V
          PROVE  at[v] \in writePointer..(end - 1)
      BY <1>1, <1>2, <1>11, <2>1
    <3>5. ASSUME NEW p \in writePointer..(end - 1)
          PROVE  p \in DOMAIN words \cup Slots(newJobs)
      <4>1. p \in start..(start + 3 * n - 1)
        <5>1. writePointer = start /\ end - 1 = start + 3 * n - 1
          BY <1>2, <1>6, <1>7
        <5>2. QED
          BY <5>1
      <4>2. PICK v \in V : p \in {at[v], at[v] + 1, at[v] + 2}
        BY <1>7, <4>1
      <4>3. QED
        BY <1>12, <3>1, <3>2, <4>2
    <3>6. QED
      BY <1>12, <3>3, <3>4, <3>5
  <2>4. \A p \in DOMAIN words : words[p] \in Nat
    BY <1>6, <1>10, <1>12
  <2>5. ASSUME NEW i \in newJobs
        PROVE  /\ i \in [slot : writePointer..(end - 2),
                         tids : (SUBSET j.tids) \ {{}}, dim : 1..NUM_DIM]
               /\ i.slot \notin DOMAIN words /\ i.slot + 1 \notin DOMAIN words
               /\ SharePrefix(i.tids, i.dim)
    <3>1. PICK v \in V : i = Job(at[v] + 1, Group(T, d, v), d + 1)
      BY <1>13
    <3>2. at[v] + 1 \in writePointer..(end - 2)
      <4>1. at[v] \in Nat /\ writePointer <= at[v] /\ at[v] + 3 <= end
        BY <1>2, <1>11
      <4>2. QED
        BY <1>1, <2>1, <4>1
    <3>3. SharePrefix(Group(T, d, v), d + 1)
      BY <1>2, <1>6, PrefixFacts
    <3>4. i.slot = at[v] + 1 /\ i.tids = Group(T, d, v) /\ i.dim = d + 1
      BY <3>1 DEF Job
    <3>5. (at[v] + 1) + 1 = at[v] + 2
      BY <1>11
    <3>6. at[v] + 1 \notin DOMAIN words /\ at[v] + 2 \notin DOMAIN words
      BY <1>11, <1>12, <1>15
    <3>7. i \in [slot : writePointer..(end - 2),
                         tids : (SUBSET j.tids) \ {{}}, dim : 1..NUM_DIM]
      BY <1>1, <1>2, <1>8, <3>1, <3>2 DEF Job
    <3>8. QED
      BY <3>3, <3>4, <3>5, <3>6, <3>7
  <2>6. ASSUME NEW i \in newJobs, NEW k \in newJobs, i # k
        PROVE  /\ i.slot # k.slot /\ i.slot # k.slot + 1
               /\ i.tids \cap k.tids = {}
    <3>1. PICK v \in V, w \in V :
            /\ i = Job(at[v] + 1, Group(T, d, v), d + 1)
            /\ k = Job(at[w] + 1, Group(T, d, w), d + 1)
      BY <1>13
    <3>2. v # w
      BY <2>6, <3>1
    <3>3. /\ i.slot = at[v] + 1 /\ i.tids = Group(T, d, v)
          /\ k.slot = at[w] + 1 /\ k.tids = Group(T, d, w)
      BY <3>1 DEF Job
    <3>4. QED
      BY <1>8, <1>16, <3>2, <3>3
  <2>7. QED
    BY <2>1, <2>2, <2>3, <2>4, <2>5, <2>6 DEF Fills
<1>18. /\ WordsInv' /\ JobInv' /\ PackInv'
       /\ \A p \in DOMAIN words : p \in DOMAIN ELF' /\ ELF'[p] = words[p]
       /\ \A i \in newJobs : i \in todo'
  BY <1>3, <1>17, FillsFacts DEF BuildInv
<1>19. STORE' = STORE /\ writePointer' = end
  BY <1>3 DEF Wrote
<1>20. l.position = start /\ l.tids = T /\ l.dim = d
  BY <1>2
<1>21. Leads(words[j.slot], j.tids, j.dim)'
  BY <1>2, <1>3, <1>12, <1>20 DEF Leads
<1>22. /\ \A T_, d_ : ValuesOf(T_, d_)' = ValuesOf(T_, d_)
       /\ \A T_, d_, v : /\ Group(T_, d_, v)' = Group(T_, d_, v)
                         /\ Word(T_, d_, v)' = Word(T_, d_, v)
       /\ \A m, v : At(m, v)' = At(m, v)
       /\ \A T_, d_ : SharePrefix(T_, d_)' = SharePrefix(T_, d_)
  BY <1>19, SameTable
<1>23. ListOK(l)'
  <2>1. /\ l.dim \in 1..(NUM_DIM - 1) /\ l.position \in 0..(end - 1)
        /\ SharePrefix(l.tids, l.dim)'
    BY <1>2, <1>6, <1>7, <1>20, <1>22
  <2>2. V = ValuesOf(l.tids, l.dim)'
    BY <1>2, <1>20, <1>22
  <2>3. ASSUME NEW v \in V
        PROVE  /\ At(l, v)' \in DOMAIN ELF'
               /\ ELF'[At(l, v)'] = Word(l.tids, l.dim, v)'
               /\ Linked(At(l, v) + 1, Group(l.tids, l.dim, v), l.dim + 1)'
    <3>1. At(l, v)' = at[v] /\ Word(l.tids, l.dim, v)' = Word(T, d, v)
      BY <1>5, <1>20, <1>22
    <3>2. at[v] \in DOMAIN ELF' /\ ELF'[at[v]] = Word(T, d, v)
      BY <1>12, <1>18
    <3>3. PICK S : S = Group(T, d, v)
      OBVIOUS
    <3>4. Job(at[v] + 1, S, d + 1) \in todo'
      BY <1>2, <1>5, <1>18, <3>3
    <3>5. Linked(at[v] + 1, S, d + 1)'
      BY <3>4 DEF Linked
    <3>6. S = Group(l.tids, l.dim, v)'
      BY <1>20, <1>22, <3>3
    <3>7. Linked(At(l, v) + 1, Group(l.tids, l.dim, v), l.dim + 1)'
      BY <1>20, <3>1, <3>5, <3>6
    <3>8. QED
      BY <3>1, <3>2, <3>7
  <2>4. QED
    BY <1>19, <2>1, <2>2, <2>3 DEF ListOK
<1>24. /\ \A m \in lists : ListOK(m)'
       /\ \A m \in monos : MonoOK(m)'
       /\ FirstInv' /\ StageInv'
  BY <1>3, <1>17, <1>21, OldKept DEF BuildInv
<1>25. ListInv' /\ MonoInv'
  BY <1>3, <1>23, <1>24 DEF ListInv, ListOK, MonoInv, MonoOK
<1>26. ApartInv'
  <2>1. ASSUME NEW m \in lists, NEW v \in ValuesOf(m.tids, m.dim)
        PROVE  At(m, v) \in Int /\ At(m, v) < start
    <3>1. At(m, v) \in 0..(writePointer - 1)
      BY DEF BuildInv, WordsInv, ListInv
    <3>2. QED
      BY <1>2, <1>6, <3>1
  <2>2. ASSUME NEW v \in V
        PROVE  At(l, v) \in Int /\ start <= At(l, v)
    BY <1>5, <1>11
  <2>3. V = ValuesOf(l.tids, l.dim)
    BY <1>2, <1>20
  <2>4. ASSUME NEW k \in lists', NEW m \in lists',
               NEW v \in ValuesOf(k.tids, k.dim), NEW w \in ValuesOf(m.tids, m.dim),
               At(k, v) = At(m, w)
        PROVE  k = m /\ v = w
    <3>1. CASE k \in lists /\ m \in lists
      BY <2>4, <3>1 DEF BuildInv, ApartInv
    <3>2. CASE k \in lists /\ m = l
      <4>1. At(k, v) \in Int /\ At(k, v) < start
        BY <2>1, <3>2
      <4>2. At(m, w) \in Int /\ start <= At(m, w)
        BY <2>2, <2>3, <3>2
      <4>3. QED
        BY <1>6, <2>4, <4>1, <4>2
    <3>3. CASE k = l /\ m \in lists
      <4>1. At(m, w) \in Int /\ At(m, w) < start
        BY <2>1, <3>3
      <4>2. At(k, v) \in Int /\ start <= At(k, v)
        BY <2>2, <2>3, <3>3
      <4>3. QED
        BY <1>6, <2>4, <4>1, <4>2
    <3>4. CASE k = l /\ m = l
      BY <1>5, <1>7, <2>3, <2>4, <3>4
    <3>5. QED
      BY <1>3, <3>1, <3>2, <3>3, <3>4
  <2>5. QED
    BY <1>22, <2>4 DEF ApartInv
<1>27. SizeInv'
  <2>1. j = Job(j.slot, T, d)
    BY <1>1, <1>2 DEF Job, BuildInv, WordsInv
  <2>2. PICK N \in SUBSET Reserved(Job(j.slot, T, d)) :
          /\ 3 * Cardinality(ValuesOf(T, d)) <= Cardinality(N)
          /\ \A v \in ValuesOf(T, d) : \A other :
               Reserved(Job(other, Group(T, d, v), d + 1))
                 \subseteq Reserved(Job(j.slot, T, d)) \ N
    BY <1>1, <1>2, <1>6, EntryTokens
  <2>3. N \in SUBSET Reserved(j)
    BY <2>1
  <2>4. end - writePointer <= Cardinality(N)
    BY <1>2, <1>6, <1>7, <2>2
  <2>5. \A i \in newJobs : Reserved(i) \subseteq Reserved(j) \ N
    BY <1>2, <2>1, <2>2
  <2>6. QED
    BY <1>3, <1>17, <2>3, <2>4, <2>5, SizeStep DEF BuildInv
<1>28. QED
  BY <1>18, <1>24, <1>25, <1>26, <1>27 DEF BuildInv

-----------------------------------------------------------------------------
\* The values of dimension 0, when the largest is MAX.
LEMMA FirstValues ==
  ASSUME STORE \in Tables, NEW MAX \in ValuesOf(TIDs, 0), IsLastValue(TIDs, 0, MAX)
  PROVE  /\ MAX \in Nat /\ ValuesOf(TIDs, 0) = 0..MAX
         /\ \A v \in 0..MAX : Rank(TIDs, 0, v) = v
         /\ MAX + 1 <= NUM_POINTS
<1>1. 0 \in Dims /\ TIDs \in (SUBSET TIDs) \ {{}}
  BY StoreFacts, DimFacts
<1>2. ValuesOf(TIDs, 0) \in SUBSET Nat
  BY <1>1, ValuesFacts
<1>3. MAX \in Nat
  BY <1>2
<1>4. ValuesOf(TIDs, 0) = 0..MAX
  <2>1. ASSUME NEW v \in ValuesOf(TIDs, 0)
        PROVE  v \in 0..MAX
    BY <1>2, <1>3 DEF IsLastValue
  <2>2. ASSUME NEW v \in 0..MAX
        PROVE  v \in ValuesOf(TIDs, 0)
    <3>1. PICK t \in TIDs : STORE[t][0] = MAX
      BY DEF ValuesOf
    <3>2. PICK u \in TIDs : STORE[u][0] = v
      BY <3>1, StoreFacts
    <3>3. QED
      BY <3>2 DEF ValuesOf
  <2>3. QED
    BY <2>1, <2>2
<1>5. ASSUME NEW v \in 0..MAX
      PROVE  Rank(TIDs, 0, v) = v
  <2>1. {u \in ValuesOf(TIDs, 0) : u < v} = 0..(v - 1)
    BY <1>3, <1>4
  <2>2. v \in Nat
    BY <1>3
  <2>3. Cardinality(0..(v - 1)) = v
    BY <2>2, FS_Interval
  <2>4. QED
    BY <2>1, <2>3 DEF Rank
<1>6. MAX + 1 <= NUM_POINTS
  <2>1. [t \in TIDs |-> STORE[t][0]] \in Surjection(TIDs, ValuesOf(TIDs, 0))
    BY DEF Surjection, ValuesOf
  <2>2. Cardinality(ValuesOf(TIDs, 0)) <= NUM_POINTS
    BY <2>1, StoreFacts, FS_Surjection DEF NUM_POINTS
  <2>3. Cardinality(0..MAX) = MAX + 1
    BY <1>3, FS_Interval
  <2>4. QED
    BY <1>4, <2>2, <2>3
<1>7. QED
  BY <1>3, <1>4, <1>5, <1>6

\* The pointers of dimension 0.
LEMMA FirstStep ==
  ASSUME BuildInv, buildFromDataSorting
  PROVE  BuildInv'
<1>1. /\ STORE \in Tables /\ stage = "new" /\ todo = {} /\ lists = {} /\ monos = {}
      /\ DOMAIN ELF = {} /\ writePointer = 0
  BY DEF BuildInv, WordsInv, StageInv, buildFromDataSorting
<1>2. PICK MAX \in ValuesOf(TIDs, 0) : IsLastValue(TIDs, 0, MAX) /\ MAX_FIRST_DIM' = MAX
  BY DEF buildFromDataSorting
<1>3. /\ MAX \in Nat /\ ValuesOf(TIDs, 0) = 0..MAX
      /\ \A v \in 0..MAX : Rank(TIDs, 0, v) = v
      /\ MAX + 1 <= NUM_POINTS
  BY <1>1, <1>2, FirstValues
<1>4. PICK G : G = [v \in 0..MAX |-> Group(TIDs, 0, v)]
  OBVIOUS
<1>5. /\ writePointer' = (MAX + 1) * 2 /\ STORE' = STORE /\ ELF' = ELF
      /\ lists' = lists /\ monos' = monos /\ stage' = "build"
      /\ todo' = {Job(2 * v, G[v], 1) : v \in 0..MAX}
  <2>1. todo' = {Job(2 * Rank(TIDs, 0, v), Group(TIDs, 0, v), 1) : v \in 0..MAX}
    BY <1>3 DEF buildFromDataSorting
  <2>2. \A v \in 0..MAX : Job(2 * Rank(TIDs, 0, v), Group(TIDs, 0, v), 1)
                            = Job(2 * v, G[v], 1)
    BY <1>3, <1>4
  <2>3. todo' = {Job(2 * v, G[v], 1) : v \in 0..MAX}
    BY <2>1, <2>2
  <2>4. QED
    BY <1>2, <2>3 DEF buildFromDataSorting
<1>6. /\ TIDs' = TIDs /\ Tokens' = Tokens
      /\ \A T, d : ValuesOf(T, d)' = ValuesOf(T, d)
      /\ \A T, d, v : Group(T, d, v)' = Group(T, d, v)
      /\ \A T, d : SharePrefix(T, d)' = SharePrefix(T, d)
  BY <1>5, SameTable
<1>7. /\ \A v \in 0..MAX : G[v] \in (SUBSET TIDs) \ {{}}
      /\ \A v, w \in 0..MAX : v # w => G[v] \cap G[w] = {}
      /\ \A v \in 0..MAX : SharePrefix(G[v], 1)
  <2>1. 0 \in Dims /\ TIDs \in (SUBSET TIDs) \ {{}}
    BY <1>1, StoreFacts, DimFacts
  <2>2. /\ \A v \in 0..MAX : Group(TIDs, 0, v) \in (SUBSET TIDs) \ {{}}
        /\ \A v, w \in 0..MAX : v # w =>
             Group(TIDs, 0, v) \cap Group(TIDs, 0, w) = {}
    BY <1>1, <1>3, <2>1, ValuesFacts
  <2>3. SharePrefix(TIDs, 0)
    BY <2>1 DEF SharePrefix
  <2>4. ASSUME NEW v \in 0..MAX
        PROVE  SharePrefix(Group(TIDs, 0, v), 1)
    <3>1. 0 \in Nat /\ v \in ValuesOf(TIDs, 0) /\ 0 + 1 = 1
      BY <1>3
    <3>2. SharePrefix(Group(TIDs, 0, v), 0 + 1)
      BY <2>3, <3>1, PrefixFacts
    <3>3. QED
      BY <3>1, <3>2
  <2>5. QED
    BY <1>4, <2>2, <2>4
<1>8. \A i \in todo' : \E v \in 0..MAX :
        i = Job(2 * v, G[v], 1) /\ i.slot = 2 * v /\ i.tids = G[v] /\ i.dim = 1
  BY <1>5 DEF Job
<1>9. WordsInv'
  <2>1. ASSUME NEW i \in todo'
        PROVE  i \in [slot : 0..((MAX + 1) * 2 - 2), tids : (SUBSET TIDs) \ {{}},
                      dim : 1..NUM_DIM]
    <3>1. PICK v \in 0..MAX : i = Job(2 * v, G[v], 1)
      BY <1>8
    <3>2. 2 * v \in 0..((MAX + 1) * 2 - 2)
      BY <1>3
    <3>3. 1 \in 1..NUM_DIM
      BY DimFacts
    <3>4. QED
      BY <1>7, <3>1, <3>2, <3>3 DEF Job
  <2>2. (MAX + 1) * 2 \in Nat
    BY <1>3
  <2>3. QED
    BY <1>1, <1>2, <1>3, <1>5, <1>6, <2>1, <2>2 DEF WordsInv
<1>10. JobInv'
  <2>1. ASSUME NEW i \in todo'
        PROVE  i.slot \notin DOMAIN ELF' /\ i.slot + 1 \notin DOMAIN ELF'
               /\ SharePrefix(i.tids, i.dim)'
    BY <1>1, <1>5, <1>6, <1>7, <1>8
  <2>2. ASSUME NEW i \in todo', NEW k \in todo', i # k
        PROVE  /\ i.slot # k.slot /\ i.slot # k.slot + 1
               /\ i.tids \cap k.tids = {}
    <3>1. PICK v \in 0..MAX : i = Job(2 * v, G[v], 1) /\ i.slot = 2 * v /\ i.tids = G[v]
      BY <1>8
    <3>2. PICK w \in 0..MAX : k = Job(2 * w, G[w], 1) /\ k.slot = 2 * w /\ k.tids = G[w]
      BY <1>8
    <3>3. v # w /\ v \in Int /\ w \in Int
      BY <1>3, <2>2, <3>1, <3>2
    <3>4. 2 * v # 2 * w /\ 2 * v # 2 * w + 1
      BY <3>3
    <3>5. QED
      BY <1>7, <3>1, <3>2, <3>3, <3>4
  <2>3. QED
    BY <2>1, <2>2 DEF JobInv
<1>11. PackInv'
  <2>1. ASSUME NEW p \in 0..((MAX + 1) * 2 - 1)
        PROVE  p \in Slots(todo')
    <3>1. PICK v \in 0..MAX : p = 2 * v \/ p = 2 * v + 1
      <4>1. p \div 2 \in 0..MAX /\ (p = 2 * (p \div 2) \/ p = 2 * (p \div 2) + 1)
        BY <1>3
      <4>2. QED
        BY <4>1
    <3>2. PICK i : i = Job(2 * v, G[v], 1)
      OBVIOUS
    <3>3. i \in todo' /\ i.slot = 2 * v
      BY <1>5, <3>2 DEF Job
    <3>4. QED
      BY <3>1, <3>3 DEF Slots
  <2>2. ASSUME NEW p \in Slots(todo')
        PROVE  p \in 0..((MAX + 1) * 2 - 1)
    <3>1. PICK i \in todo' : p \in {i.slot, i.slot + 1}
      BY DEF Slots
    <3>2. PICK v \in 0..MAX : i.slot = 2 * v
      BY <1>8
    <3>3. p = 2 * v \/ p = 2 * v + 1
      BY <3>1, <3>2
    <3>4. QED
      BY <1>3, <3>3
  <2>3. 0..((MAX + 1) * 2 - 1) = DOMAIN ELF \cup Slots(todo')
    BY <1>1, <2>1, <2>2
  <2>4. QED
    BY <1>5, <2>3 DEF PackInv, Slots
<1>12. ListInv' /\ ApartInv' /\ MonoInv' /\ StageInv'
  BY <1>1, <1>5 DEF ListInv, ApartInv, MonoInv, StageInv
<1>13. FirstInv'
  <2>1. ValuesOf(TIDs, 0)' = 0..MAX
    BY <1>3, <1>5, <1>6 DEF ValuesOf
  <2>2. ASSUME NEW v \in 0..MAX
        PROVE  Linked(2 * v, Group(TIDs, 0, v), 1)'
    <3>1. PICK T : T = G[v]
      OBVIOUS
    <3>2. Job(2 * v, T, 1) \in todo'
      BY <1>5, <3>1
    <3>3. Linked(2 * v, T, 1)'
      BY <3>2 DEF Linked
    <3>4. T = Group(TIDs, 0, v)'
      BY <1>4, <1>5, <1>6, <3>1 DEF Group
    <3>5. QED
      BY <3>3, <3>4
  <2>3. QED
    BY <1>2, <2>1, <2>2 DEF FirstInv
<1>14. SizeInv'
  <2> DEFINE N == (TIDs \X {0}) \X {1, 2}
  <2>1. Unreserved' = Tokens \ UNION {Reserved(i) : i \in todo'}
    BY <1>6 DEF Unreserved, Reserved
  <2>2. N \in SUBSET Unreserved'
    <3>1. 0 \in 0..NUM_DIM
      BY DimFacts
    <3>2. N \subseteq Tokens
      BY <3>1 DEF Tokens
    <3>3. ASSUME NEW i \in todo'
          PROVE  N \cap Reserved(i) = {}
      <4>1. i.dim = 1
        BY <1>8
      <4>2. 0 \notin 1..NUM_DIM
        OBVIOUS
      <4>3. QED
        BY <4>1, <4>2 DEF Reserved
    <3>4. QED
      BY <2>1, <3>2, <3>3
  <2>3. IsFiniteSet(Unreserved') /\ Cardinality(Unreserved') \in Nat
    BY <1>1, <2>1, TokenFacts
  <2>4. Cardinality(N) <= Cardinality(Unreserved')
    BY <2>2, <2>3, FS_Subset
  <2>5. IsFiniteSet({0}) /\ Cardinality({0}) = 1
    BY FS_Singleton
  <2>6. IsFiniteSet({1, 2}) /\ Cardinality({1, 2}) = 2
    BY TwoFacts
  <2>7. IsFiniteSet(TIDs) /\ NUM_POINTS \in Nat
    BY <1>1, StoreFacts
  <2>8. /\ IsFiniteSet(TIDs \X {0})
        /\ Cardinality(TIDs \X {0}) = NUM_POINTS * 1
    BY <2>5, <2>7, FS_Product DEF NUM_POINTS
  <2>9. Cardinality(N) = (NUM_POINTS * 1) * 2
    BY <2>6, <2>8, FS_Product
  <2> HIDE DEF N
  <2>10. (MAX + 1) * 2 <= Cardinality(Unreserved')
    BY <1>3, <2>3, <2>4, <2>7, <2>9
  <2>11. QED
    BY <1>5, <2>10 DEF SizeInv
<1>15. QED
  BY <1>9, <1>10, <1>11, <1>12, <1>13, <1>14 DEF BuildInv

-----------------------------------------------------------------------------
\* The queries leave the array alone.
LEMMA BuildKept ==
  ASSUME BuildInv, UNCHANGED elfVars,
         \/ stage' = stage
         \/ /\ todo = {} /\ stage # "new"
            /\ stage' \in {"ready", "match", "exact", "done"}
  PROVE  BuildInv'
<1>1. /\ STORE' = STORE /\ ELF' = ELF /\ writePointer' = writePointer
      /\ MAX_FIRST_DIM' = MAX_FIRST_DIM /\ todo' = todo /\ lists' = lists
      /\ monos' = monos
  BY DEF elfVars
<1>2. /\ TIDs' = TIDs /\ LastRowIsKept' = LastRowIsKept /\ Tokens' = Tokens
      /\ \A T, d : ValuesOf(T, d)' = ValuesOf(T, d)
      /\ \A T, d, v : /\ Group(T, d, v)' = Group(T, d, v)
                      /\ Word(T, d, v)' = Word(T, d, v)
      /\ \A l, v : At(l, v)' = At(l, v)
      /\ \A T, d : SharePrefix(T, d)' = SharePrefix(T, d)
      /\ \A m, T : Keeps(m, T)' = Keeps(m, T)
  BY <1>1, SameTable
<1>3. ASSUME NEW slot, NEW T, NEW d, Linked(slot, T, d)
      PROVE  Linked(slot, T, d)'
  BY <1>1, <1>2, <1>3 DEF Linked, Leads
<1>4. WordsInv' /\ JobInv' /\ PackInv'
  <2>1. WordsInv'
    BY <1>1, <1>2 DEF BuildInv, WordsInv
  <2>2. JobInv'
    BY <1>1, <1>2 DEF BuildInv, JobInv
  <2>3. PackInv'
    BY <1>1 DEF BuildInv, PackInv, Slots
  <2>4. QED
    BY <2>1, <2>2, <2>3
<1>5. ListInv'
  <2>1. ASSUME NEW l \in lists
        PROVE  ListOK(l)'
    <3>1. ListOK(l)
      BY DEF BuildInv, ListInv, ListOK
    <3>2. ASSUME NEW v \in ValuesOf(l.tids, l.dim)
          PROVE  /\ At(l, v)' \in DOMAIN ELF'
                 /\ ELF'[At(l, v)'] = Word(l.tids, l.dim, v)'
                 /\ Linked(At(l, v) + 1, Group(l.tids, l.dim, v), l.dim + 1)'
      <4>1. PICK p, T : p = At(l, v) /\ T = Group(l.tids, l.dim, v)
        OBVIOUS
      <4>2. /\ p \in DOMAIN ELF /\ ELF[p] = Word(l.tids, l.dim, v)
            /\ Linked(p + 1, T, l.dim + 1)
        BY <3>1, <4>1 DEF ListOK
      <4>3. Linked(p + 1, T, l.dim + 1)'
        BY <1>3, <4>2
      <4>4. p = At(l, v)' /\ T = Group(l.tids, l.dim, v)'
        BY <1>2, <4>1
      <4>5. QED
        BY <1>1, <1>2, <4>2, <4>3, <4>4
    <3>3. /\ l.dim \in 1..(NUM_DIM - 1) /\ l.position \in 0..(writePointer' - 1)
          /\ SharePrefix(l.tids, l.dim)'
          /\ ValuesOf(l.tids, l.dim)' = ValuesOf(l.tids, l.dim)
      BY <1>1, <1>2, <3>1 DEF ListOK
    <3>4. QED
      BY <3>2, <3>3 DEF ListOK
  <2>2. QED
    BY <1>1, <2>1 DEF ListInv, ListOK
<1>6. ApartInv'
  BY <1>1, ApartKept DEF BuildInv
<1>7. MonoInv'
  BY <1>1, <1>2 DEF BuildInv, MonoInv
<1>8. FirstInv'
  <2>1. SUFFICES ASSUME stage' # "new"
                 PROVE  /\ ValuesOf(TIDs, 0)' = 0..MAX_FIRST_DIM
                        /\ \A v \in 0..MAX_FIRST_DIM :
                             Linked(2 * v, Group(TIDs, 0, v), 1)'
    BY <1>1 DEF FirstInv
  <2>2. /\ ValuesOf(TIDs, 0) = 0..MAX_FIRST_DIM
        /\ \A v \in 0..MAX_FIRST_DIM : Linked(2 * v, Group(TIDs, 0, v), 1)
    BY <2>1 DEF BuildInv, FirstInv
  <2>3. ASSUME NEW v \in 0..MAX_FIRST_DIM
        PROVE  Linked(2 * v, Group(TIDs, 0, v), 1)'
    <3>1. PICK T : T = Group(TIDs, 0, v)
      OBVIOUS
    <3>2. Linked(2 * v, T, 1)'
      BY <1>3, <2>2, <3>1
    <3>3. T = Group(TIDs, 0, v)'
      BY <1>1, <1>2, <3>1 DEF Group
    <3>4. QED
      BY <3>2, <3>3
  <2>4. QED
    BY <1>1, <1>2, <2>2, <2>3 DEF ValuesOf
<1>9. SizeInv'
  <2>1. Unreserved' = Unreserved
    BY <1>1, <1>2 DEF Unreserved, Reserved
  <2>2. QED
    BY <1>1, <2>1 DEF BuildInv, SizeInv
<1>10. StageInv'
  BY <1>1 DEF BuildInv, StageInv
<1>11. QED
  BY <1>4, <1>5, <1>6, <1>7, <1>8, <1>9, <1>10 DEF BuildInv

\* Nothing has been built.
LEMMA BuildInit == Init => BuildInv
<1>1. SUFFICES ASSUME Init
               PROVE  BuildInv
  OBVIOUS
<1>2. /\ STORE \in Tables /\ todo = {} /\ lists = {} /\ monos = {}
      /\ writePointer = 0 /\ MAX_FIRST_DIM = 0 /\ stage = "new"
  BY <1>1 DEF Init
<1>3. DOMAIN ELF = {}
  <2>1. ELF = << >>
    BY <1>1 DEF Init
  <2>2. \A S : << >> \in Seq(S) /\ Len(<< >>) = 0
    BY EmptySeq
  <2>3. DOMAIN << >> = 1..Len(<< >>)
    BY <2>2, LenProperties
  <2>4. QED
    BY <2>1, <2>2, <2>3
<1>4. WordsInv /\ JobInv /\ ListInv /\ ApartInv /\ MonoInv /\ FirstInv /\ StageInv
  BY <1>2, <1>3 DEF WordsInv, JobInv, ListInv, ApartInv, MonoInv, FirstInv, StageInv
<1>5. PackInv
  BY <1>2, <1>3 DEF PackInv, Slots
<1>6. SizeInv
  <2>1. Unreserved \in SUBSET Tokens
    BY DEF Unreserved
  <2>2. Cardinality(Unreserved) \in Nat
    BY <1>2, <2>1, TokenFacts
  <2>3. QED
    BY <1>2, <2>2 DEF SizeInv
<1>7. QED
  BY <1>4, <1>5, <1>6 DEF BuildInv

\* Each step of the build keeps its invariant, and the queries leave it alone.
LEMMA BuildNext == BuildInv /\ [Next]_vars => BuildInv'
<1>1. SUFFICES ASSUME BuildInv, [Next]_vars
               PROVE  BuildInv'
  OBVIOUS
<1>2. CASE buildFromDataSorting
  BY <1>1, <1>2, FirstStep
<1>3. ASSUME NEW j \in todo, createDimListSorting(j)
      PROVE  BuildInv'
  BY <1>1, <1>3, ListStep
<1>4. ASSUME NEW j \in todo, linearize_elf_mono(j)
      PROVE  BuildInv'
  BY <1>1, <1>4, SingleStep
<1>5. ASSUME NEW j \in todo, linearize_equal(j)
      PROVE  BuildInv'
  BY <1>1, <1>5, EqualStep
<1>6. stage \in {"ready", "match", "exact", "done"} => todo = {} /\ stage # "new"
  BY <1>1 DEF BuildInv, StageInv
<1>7. CASE Built
  <2>1. UNCHANGED elfVars /\ todo = {} /\ stage # "new" /\ stage' = "ready"
    BY <1>7 DEF Built
  <2>2. QED
    BY <1>1, <2>1, BuildKept
<1>8. ASSUME NEW q \in Queries, Ask(q) \/ exactMatch(q)
      PROVE  BuildInv'
  <2>1. UNCHANGED elfVars /\ stage = "ready" /\ stage' \in {"match", "exact", "done"}
    BY <1>8 DEF Ask, exactMatch, Continue
  <2>2. QED
    BY <1>1, <1>6, <2>1, BuildKept
<1>9. CASE NextPointer
  <2>1. UNCHANGED elfVars /\ stage' = stage
    BY <1>9 DEF NextPointer
  <2>2. QED
    BY <1>1, <2>1, BuildKept
<1>10. ASSUME NEW c \in calls, NextEntry(c)
       PROVE  BuildInv'
  <2>1. UNCHANGED elfVars /\ stage' = stage
    BY <1>10 DEF NextEntry
  <2>2. QED
    BY <1>1, <2>1, BuildKept
<1>11. ASSUME NEW c \in calls, listContains(c)
       PROVE  BuildInv'
  <2>1. /\ UNCHANGED elfVars /\ stage = "exact"
        /\ stage' = stage \/ stage' \in {"exact", "done"}
    BY <1>11 DEF listContains, Continue
  <2>2. QED
    BY <1>1, <1>6, <2>1, BuildKept
<1>12. CASE Return \/ Forget
  <2>1. /\ UNCHANGED elfVars /\ stage \in {"match", "done"}
        /\ stage' \in {"ready", "done"}
    BY <1>12 DEF Return, Forget
  <2>2. QED
    BY <1>1, <1>6, <2>1, BuildKept
<1>13. CASE UNCHANGED vars
  <2>1. UNCHANGED elfVars /\ stage' = stage
    BY <1>13 DEF vars
  <2>2. QED
    BY <1>1, <2>1, BuildKept
<1>14. QED
  BY <1>1, <1>2, <1>3, <1>4, <1>5, <1>7, <1>8, <1>9, <1>10, <1>11, <1>12, <1>13
  DEF Next

-----------------------------------------------------------------------------
\* What a call has still to look at.
LEMMA RestFacts ==
  ASSUME BuildInv, NEW c, NEW l, NEW v, Standing(c, l, v)
  PROVE  /\ Rest(c) = {t \in l.tids : v <= STORE[t][l.dim]}
         /\ Stands(c) /\ c.dim = l.dim /\ c.position = At(l, v)
<1>1. /\ l \in lists /\ v \in ValuesOf(l.tids, l.dim)
      /\ c.dim = l.dim /\ c.position = At(l, v)
  BY DEF Standing
<1>2. l.tids \subseteq TIDs
  BY <1>1 DEF BuildInv, ListInv, SharePrefix
<1>3. ASSUME NEW m, NEW w, Standing(c, m, w)
      PROVE  m = l /\ w = v
  <2>1. /\ m \in lists /\ w \in ValuesOf(m.tids, m.dim)
        /\ c.position = At(m, w)
    BY <1>3 DEF Standing
  <2>2. At(m, w) = At(l, v)
    BY <1>1, <2>1
  <2>3. ApartInv
    BY DEF BuildInv
  <2>4. l \in lists /\ m \in lists
    BY <1>1, <2>1
  <2>5. \A x \in ValuesOf(m.tids, m.dim), y \in ValuesOf(l.tids, l.dim) :
          At(m, x) = At(l, y) => m = l /\ x = y
    BY <2>3, <2>4 DEF ApartInv
  <2>6. QED
    BY <1>1, <2>1, <2>2, <2>5
<1>4. Rest(c) = {t \in l.tids : v <= STORE[t][l.dim]}
  BY <1>1, <1>2, <1>3 DEF Rest
<1>5. QED
  BY <1>1, <1>4 DEF Stands

\* What an entry says.
LEMMA EntryRead ==
  ASSUME BuildInv, todo = {}, NEW l \in lists, NEW v \in ValuesOf(l.tids, l.dim)
  PROVE  /\ At(l, v) \in DOMAIN ELF
         /\ ValueAt(At(l, v)) = v
         /\ EndsAt(At(l, v)) <=> IsLastValue(l.tids, l.dim, v)
         /\ Leads(PointerAt(At(l, v)), Group(l.tids, l.dim, v), l.dim + 1)
         /\ SharePrefix(Group(l.tids, l.dim, v), l.dim + 1)
         /\ v \in Nat /\ l.dim \in 1..(NUM_DIM - 1)
         /\ l.tids \in (SUBSET TIDs) \ {{}} /\ l.dim \in Dims
         /\ l.position \in Nat
<1>1. /\ STORE \in Tables
      /\ l.dim \in 1..(NUM_DIM - 1) /\ SharePrefix(l.tids, l.dim)
      /\ At(l, v) \in DOMAIN ELF
      /\ ELF[At(l, v)] = Word(l.tids, l.dim, v)
      /\ Linked(At(l, v) + 1, Group(l.tids, l.dim, v), l.dim + 1)
      /\ l.position \in Nat
  BY DEF BuildInv, WordsInv, ListInv
<1>2. /\ l.tids \in (SUBSET TIDs) \ {{}} /\ l.dim \in Dims /\ l.dim \in Nat
  BY <1>1, DimFacts DEF SharePrefix
<1>3. /\ Word(l.tids, l.dim, v) >= LAST_ENTRY_MASK <=> IsLastValue(l.tids, l.dim, v)
      /\ Recover(Word(l.tids, l.dim, v)) = v
  <2>1. PICK T, d : T = l.tids /\ d = l.dim
    OBVIOUS
  <2>2. /\ STORE \in Tables /\ T \in (SUBSET TIDs) \ {{}} /\ d \in Dims /\ 0 \in Nat
        /\ v \in ValuesOf(T, d)
    BY <1>1, <1>2, <2>1
  <2>3. /\ Word(T, d, v) >= LAST_ENTRY_MASK <=> IsLastValue(T, d, v)
        /\ Recover(Word(T, d, v)) = v
    BY <2>2, HeaderFacts
  <2>4. QED
    BY <2>1, <2>3
<1>4. Leads(PointerAt(At(l, v)), Group(l.tids, l.dim, v), l.dim + 1)
  BY <1>1 DEF Linked, PointerAt
<1>5. SharePrefix(Group(l.tids, l.dim, v), l.dim + 1)
  BY <1>1, <1>2, PrefixFacts
<1>6. v \in Nat
  BY <1>1, <1>2, ValuesFacts
<1>7. QED
  BY <1>1, <1>2, <1>3, <1>4, <1>5, <1>6 DEF ValueAt, EndsAt

\* Positions lie below the bit that marks a mono list.
LEMMA PositionFacts ==
  ASSUME BuildInv
  PROVE  writePointer <= Capacity /\ writePointer <= LAST_ENTRY_MASK64
<1>1. STORE \in Tables /\ writePointer \in Nat /\ Unreserved \in SUBSET Tokens
  BY DEF BuildInv, WordsInv, Unreserved
<1>2. writePointer <= Cardinality(Unreserved) /\ Cardinality(Unreserved) \in Nat
  BY <1>1, TokenFacts DEF BuildInv, SizeInv
<1>3. Cardinality(Unreserved) <= Cardinality(Tokens)
  BY <1>1, TokenFacts, FS_Subset
<1>4. /\ Cardinality(Tokens) <= Capacity /\ Cardinality(Tokens) \in Nat
      /\ Capacity <= LAST_ENTRY_MASK64
  <2>1. Tokens \in SUBSET Tokens
    OBVIOUS
  <2>2. QED
    BY <1>1, <2>1, TokenFacts, StoreFacts
<1>5. Capacity \in Nat
  <2>1. Capacity = 2 * NUM_POINTS * (NUM_DIM + 3) /\ NUM_POINTS \in Nat
    BY <1>1, StoreFacts
  <2>2. QED
    BY <2>1, DimFacts
<1>6. QED
  BY <1>1, <1>2, <1>3, <1>4, <1>5, DimFacts

\* A pointer leads to a list, with a call for all of the rows, or to a mono
\* list, which is pushed when it is in the bounds of the query.
LEMMA FollowFacts ==
  ASSUME BuildInv, todo = {}, NEW d \in 1..NUM_DIM, NEW T, NEW pointer,
         SharePrefix(T, d), Leads(pointer, T, d)
  PROVE  \/ \E l \in lists : \E v \in ValuesOf(T, d) :
              LET c == [dim |-> d, position |-> pointer]
              IN  /\ l.tids = T /\ l.dim = d /\ Standing(c, l, v)
                  /\ \A u \in ValuesOf(T, d) : v <= u
                  /\ pointer < LAST_ENTRY_MASK64
                  /\ CallFor(d, pointer) = {c}
                  /\ Pushed(d, pointer) = <<>>
                  /\ Rest(c) = T
         \/ \E tid \in TIDs :
              /\ ~(pointer < LAST_ENTRY_MASK64)
              /\ CallFor(d, pointer) = {}
              /\ MonoTID(d, Recover64(pointer)) = tid
              /\ \A k \in d..(NUM_DIM - 1) :
                   ELF[Recover64(pointer) + k - d] = STORE[tid][k]
              /\ Pushed(d, pointer) =
                   IF \A k \in d..(NUM_DIM - 1) :
                        query.columns[k] => isIn(query, k, STORE[tid][k])
                   THEN <<tid>> ELSE <<>>
              /\ LastRowIsKept =>
                   tid \in T /\ \A t \in T : STORE[t] = STORE[tid]
<1>1. /\ STORE \in Tables /\ ListInv /\ MonoInv
      /\ writePointer <= LAST_ENTRY_MASK64 /\ writePointer \in Nat
      /\ LAST_ENTRY_MASK64 \in Nat
  BY PositionFacts, DimFacts DEF BuildInv, WordsInv
<1>2. T \in (SUBSET TIDs) \ {{}}
  BY DEF SharePrefix
<1>3. ASSUME NEW l \in lists, l.dim = d, l.tids = T, pointer = l.position
      PROVE  \E v \in ValuesOf(T, d) :
              LET c == [dim |-> d, position |-> pointer]
              IN  /\ l.tids = T /\ l.dim = d /\ Standing(c, l, v)
                  /\ \A u \in ValuesOf(T, d) : v <= u
                  /\ pointer < LAST_ENTRY_MASK64
                  /\ CallFor(d, pointer) = {c}
                  /\ Pushed(d, pointer) = <<>>
                  /\ Rest(c) = T
  <2> DEFINE c == [dim |-> d, position |-> pointer]
  <2>1. d \in 1..(NUM_DIM - 1) /\ pointer \in 0..(writePointer - 1)
    BY <1>1, <1>3 DEF ListInv
  <2>2. d \in Dims /\ pointer \in Nat
    BY <1>1, <2>1, DimFacts
  <2>3. PICK v \in ValuesOf(T, d) :
               Entry(pointer, T, d, v) = pointer /\ \A u \in ValuesOf(T, d) : v <= u
    BY <1>1, <1>2, <2>2, FirstEntry
  <2>4. Standing(c, l, v)
    BY <1>3, <2>3 DEF Standing, At
  <2>5. pointer < LAST_ENTRY_MASK64 /\ ~(pointer >= LAST_ENTRY_MASK64)
    BY <1>1, <2>1
  <2>6. Rest(c) = {t \in l.tids : v <= STORE[t][l.dim]}
    BY <2>4, RestFacts
  <2>7. \A t \in T : v <= STORE[t][d]
    BY <2>3 DEF ValuesOf
  <2>8. Rest(c) = T
    BY <1>3, <2>6, <2>7
  <2>9. CallFor(d, pointer) = {c} /\ Pushed(d, pointer) = <<>>
    BY <2>5 DEF CallFor, Pushed
  <2>10. QED
    BY <1>3, <2>3, <2>4, <2>5, <2>8, <2>9
<1>4. ASSUME NEW m \in monos, m.dim = d,
             pointer = m.position + LAST_ENTRY_MASK64,
             LastRowIsKept => Keeps(m, T)
      PROVE  \E tid \in TIDs :
              /\ ~(pointer < LAST_ENTRY_MASK64)
              /\ CallFor(d, pointer) = {}
              /\ MonoTID(d, Recover64(pointer)) = tid
              /\ \A k \in d..(NUM_DIM - 1) :
                   ELF[Recover64(pointer) + k - d] = STORE[tid][k]
              /\ Pushed(d, pointer) =
                   IF \A k \in d..(NUM_DIM - 1) :
                        query.columns[k] => isIn(query, k, STORE[tid][k])
                   THEN <<tid>> ELSE <<>>
              /\ LastRowIsKept =>
                   tid \in T /\ \A t \in T : STORE[t] = STORE[tid]
  <2>1. PICK tid, start : tid = m.tid /\ start = m.position
    OBVIOUS
  <2>2. /\ tid \in TIDs /\ start \in Nat
        /\ ELF[start + NUM_DIM - d] \in {tid, tid + LAST_ENTRY_MASK}
        /\ \A k \in d..(NUM_DIM - 1) : ELF[start + k - d] = STORE[tid][k]
    BY <1>1, <1>4, <2>1 DEF MonoInv
  <2>3. pointer = start + LAST_ENTRY_MASK64
    BY <1>4, <2>1
  <2>4. /\ ~(pointer < LAST_ENTRY_MASK64) /\ pointer >= LAST_ENTRY_MASK64
        /\ Recover64(pointer) = start
    BY <1>1, <2>2, <2>3 DEF Recover64
  <2>5. tid \in Nat /\ tid < LAST_ENTRY_MASK /\ LAST_ENTRY_MASK \in Nat
    BY <1>1, <2>2, StoreFacts, DimFacts
  <2>6. Recover(tid) = tid /\ Recover(tid + LAST_ENTRY_MASK) = tid
    BY <2>5 DEF Recover
  <2>7. MonoTID(d, start) = tid
    BY <2>2, <2>6 DEF MonoTID
  <2>8. CallFor(d, pointer) = {}
    BY <2>4 DEF CallFor
  <2>9. Pushed(d, pointer) =
          IF \A k \in d..(NUM_DIM - 1) :
               query.columns[k] => isIn(query, k, STORE[tid][k])
          THEN <<tid>> ELSE <<>>
    <3>1. (\A k \in d..(NUM_DIM - 1) :
             query.columns[k] => isIn(query, k, ELF[start + k - d]))
            <=> \A k \in d..(NUM_DIM - 1) :
                  query.columns[k] => isIn(query, k, STORE[tid][k])
      BY <2>2
    <3>2. Pushed(d, pointer) =
            IF \A k \in d..(NUM_DIM - 1) :
                 query.columns[k] => isIn(query, k, ELF[start + k - d])
            THEN <<tid>> ELSE <<>>
      BY <2>4, <2>7 DEF Pushed
    <3>3. QED
      BY <3>1, <3>2
  <2>10. ASSUME LastRowIsKept
         PROVE  tid \in T /\ \A t \in T : STORE[t] = STORE[tid]
    <3>1. /\ tid \in T
          /\ \A t \in T : \A k \in d..(NUM_DIM - 1) : STORE[t][k] = STORE[tid][k]
      BY <1>4, <2>1, <2>10 DEF Keeps
    <3>2. \A t \in T : \A k \in 0..(d - 1) : STORE[t][k] = STORE[tid][k]
      BY <3>1, <1>2 DEF SharePrefix
    <3>3. ASSUME NEW t \in T
          PROVE  STORE[t] = STORE[tid]
      <4>1. \A k \in Dims : STORE[t][k] = STORE[tid][k]
        BY <3>1, <3>2, DimFacts
      <4>2. STORE[t] \in Points /\ STORE[tid] \in Points
        BY <1>1, <1>2, <3>1, StoreFacts
      <4>3. QED
        BY <4>1, <4>2 DEF Points
    <3>4. QED
      BY <3>1, <3>3
  <2>11. QED
    BY <2>2, <2>4, <2>7, <2>8, <2>9, <2>10
<1>5. QED
  BY <1>3, <1>4 DEF Leads

\* A TID at the end of an answer.
LEMMA ConcatOne ==
  ASSUME NEW S, NEW r \in Seq(S), NEW x \in S
  PROVE  /\ r \o <<x>> \in Seq(S)
         /\ Range(r \o <<x>>) = Range(r) \cup {x}
         /\ \A i \in DOMAIN (r \o <<x>>) :
              \/ i \in DOMAIN r /\ (r \o <<x>>)[i] = r[i]
              \/ i \notin DOMAIN r /\ (r \o <<x>>)[i] = x
         /\ \A i, j \in DOMAIN (r \o <<x>>) :
              i \notin DOMAIN r /\ j \notin DOMAIN r => i = j
<1>1. <<x>> \in Seq(S) /\ Len(<<x>>) = 1 /\ <<x>>[1] = x
  OBVIOUS
<1> DEFINE s == r \o <<x>>
           n == Len(r)
<1>2. n \in Nat /\ DOMAIN r = 1..n
  BY LenProperties
<1>3. /\ s \in Seq(S) /\ Len(s) = n + 1
      /\ \A i \in 1..(n + 1) : s[i] = IF i <= n THEN r[i] ELSE <<x>>[i - n]
  BY <1>1, ConcatProperties
<1> HIDE DEF s
<1>4. DOMAIN s = 1..(n + 1)
  BY <1>3, LenProperties
<1> HIDE DEF n
<1>5. ASSUME NEW i \in DOMAIN s
      PROVE  \/ i \in DOMAIN r /\ s[i] = r[i]
             \/ i \notin DOMAIN r /\ i = n + 1 /\ s[i] = x
  <2>1. CASE i <= n
    BY <1>2, <1>3, <1>4, <2>1
  <2>2. CASE ~(i <= n)
    <3>1. i = n + 1 /\ i - n = 1 /\ i \notin DOMAIN r
      BY <1>2, <1>4, <2>2
    <3>2. s[i] = <<x>>[1]
      BY <1>3, <1>4, <2>2, <3>1
    <3>3. QED
      BY <1>1, <3>1, <3>2
  <2>3. QED
    BY <2>1, <2>2
<1>6. DOMAIN r \subseteq DOMAIN s /\ n + 1 \in DOMAIN s /\ n + 1 \notin DOMAIN r
  BY <1>2, <1>4
<1>7. Range(s) = Range(r) \cup {x}
  BY <1>5, <1>6 DEF Range
<1>8. QED
  BY <1>3, <1>5, <1>7 DEF s

\* Rows that the query does not accept are no longer pending.
LEMMA FoundDrop ==
  ASSUME NEW r, NEW P, NEW Q \in SUBSET P, Found(r, P),
         \A t \in P \ Q : t \notin Scan(STORE, query)
  PROVE  Found(r, Q)
BY DEF Found

\* A row is accepted when it qualifies and its other dimensions do.
LEMMA ScanFacts ==
  ASSUME NEW d \in 0..NUM_DIM, NEW t \in TIDs
  PROVE  t \in Scan(STORE, query) <=>
           /\ Qualifies(t, d)
           /\ \A k \in d..(NUM_DIM - 1) :
                query.columns[k] => isIn(query, k, STORE[t][k])
<1>1. t \in Scan(STORE, query) <=>
        \A k \in Dims : query.columns[k] => isIn(query, k, STORE[t][k])
  BY DEF Scan, Accepts, TIDs
<1>2. /\ \A k : k \in Dims <=> k \in 0..(d - 1) \/ k \in d..(NUM_DIM - 1)
  BY DimFacts
<1>3. QED
  BY <1>1, <1>2 DEF Qualifies

\* A pointer to rows that have qualified: they are pending in the call that it
\* leads to, or the mono list has answered for them.
LEMMA FoundFollow ==
  ASSUME BuildInv, todo = {}, NEW d \in 1..NUM_DIM, NEW T, NEW pointer,
         SharePrefix(T, d), Leads(pointer, T, d),
         NEW r \in Seq(TIDs \cup {NOT_FOUND}), NEW P, T \subseteq P, Found(r, P),
         \A t \in T : Qualifies(t, d)
  PROVE  /\ r \o Pushed(d, pointer) \in Seq(TIDs \cup {NOT_FOUND})
         /\ \A c \in CallFor(d, pointer) :
              /\ Stands(c) /\ c.dim = d /\ Rest(c) = T
              /\ CallFor(d, pointer) = {c}
         /\ Found(r \o Pushed(d, pointer),
                  (P \ T) \cup UNION {Rest(c) : c \in CallFor(d, pointer)})
<1>1. T \subseteq TIDs /\ STORE \in Tables
  BY DEF SharePrefix, BuildInv, WordsInv
<1>2. d \in 0..NUM_DIM /\ d \in Nat
  BY DimFacts
<1>3. ASSUME NEW c, CallFor(d, pointer) = {c}, Pushed(d, pointer) = <<>>,
             Rest(c) = T, Stands(c), c.dim = d
      PROVE  /\ r \o Pushed(d, pointer) \in Seq(TIDs \cup {NOT_FOUND})
             /\ \A b \in CallFor(d, pointer) :
                  /\ Stands(b) /\ b.dim = d /\ Rest(b) = T
                  /\ CallFor(d, pointer) = {b}
             /\ Found(r \o Pushed(d, pointer),
                      (P \ T) \cup UNION {Rest(b) : b \in CallFor(d, pointer)})
  <2>1. r \o Pushed(d, pointer) = r
    BY <1>3, ConcatEmptySeq
  <2>2. (P \ T) \cup UNION {Rest(b) : b \in CallFor(d, pointer)} = P
    BY <1>3
  <2>3. QED
    BY <1>3, <2>1, <2>2
<1>4. ASSUME NEW tid \in TIDs, CallFor(d, pointer) = {},
             Pushed(d, pointer) =
               IF \A k \in d..(NUM_DIM - 1) :
                    query.columns[k] => isIn(query, k, STORE[tid][k])
               THEN <<tid>> ELSE <<>>,
             LastRowIsKept => tid \in T /\ \A t \in T : STORE[t] = STORE[tid]
      PROVE  /\ r \o Pushed(d, pointer) \in Seq(TIDs \cup {NOT_FOUND})
             /\ Found(r \o Pushed(d, pointer),
                      (P \ T) \cup UNION {Rest(b) : b \in CallFor(d, pointer)})
  <2>1. (P \ T) \cup UNION {Rest(b) : b \in CallFor(d, pointer)} = P \ T
    BY <1>4
  <2>2. LastRowIsKept => \A t \in T :
          t \in Scan(STORE, query) <=>
            \A k \in d..(NUM_DIM - 1) :
              query.columns[k] => isIn(query, k, STORE[tid][k])
    <3>1. SUFFICES ASSUME LastRowIsKept, NEW t \in T
                   PROVE  t \in Scan(STORE, query) <=>
                            \A k \in d..(NUM_DIM - 1) :
                              query.columns[k] => isIn(query, k, STORE[tid][k])
      OBVIOUS
    <3>2. STORE[t] = STORE[tid] /\ Qualifies(t, d) /\ t \in TIDs
      BY <1>1, <1>4, <3>1
    <3>3. t \in Scan(STORE, query) <=>
            /\ Qualifies(t, d)
            /\ \A k \in d..(NUM_DIM - 1) :
                 query.columns[k] => isIn(query, k, STORE[t][k])
      BY <1>2, <3>2, ScanFacts
    <3>4. QED
      BY <3>2, <3>3
  <2>3. CASE ~ \A k \in d..(NUM_DIM - 1) :
                 query.columns[k] => isIn(query, k, STORE[tid][k])
    <3>1. Pushed(d, pointer) = <<>>
      BY <1>4, <2>3
    <3>2. r \o Pushed(d, pointer) = r
      BY <3>1, ConcatEmptySeq
    <3>3. LastRowIsKept => \A t \in T : t \notin Scan(STORE, query)
      BY <2>2, <2>3
    <3>4. Found(r, P \ T)
      BY <3>3 DEF Found
    <3>5. QED
      BY <2>1, <3>2, <3>4
  <2>4. CASE \A k \in d..(NUM_DIM - 1) :
               query.columns[k] => isIn(query, k, STORE[tid][k])
    <3>1. Pushed(d, pointer) = <<tid>>
      BY <1>4, <2>4
    <3> DEFINE S == TIDs \cup {NOT_FOUND}
    <3>2. PICK s : s = r \o <<tid>>
      OBVIOUS
    <3>3. /\ s \in Seq(S)
          /\ Range(s) = Range(r) \cup {tid}
          /\ \A i \in DOMAIN s :
               \/ i \in DOMAIN r /\ s[i] = r[i]
               \/ i \notin DOMAIN r /\ s[i] = tid
          /\ \A i, j \in DOMAIN s : i \notin DOMAIN r /\ j \notin DOMAIN r => i = j
      <4>1. r \in Seq(S) /\ tid \in S
        OBVIOUS
      <4> HIDE DEF S
      <4>2. QED
        BY <3>2, <4>1, ConcatOne
    <3>4. ASSUME LastRowIsKept
          PROVE  /\ Range(s) \subseteq Scan(STORE, query)
                 /\ \A t \in Scan(STORE, query) :
                      t \in P \ T \/ \E u \in Range(s) : STORE[u] = STORE[t]
                 /\ \A u \in Range(s) : u \notin P \ T
                 /\ \A i, j \in DOMAIN s : STORE[s[i]] = STORE[s[j]] => i = j
      <4>1. /\ Range(r) \subseteq Scan(STORE, query)
            /\ \A t \in Scan(STORE, query) :
                 t \in P \/ \E u \in Range(r) : STORE[u] = STORE[t]
            /\ \A u \in Range(r) : u \notin P
            /\ \A i, j \in DOMAIN r : STORE[r[i]] = STORE[r[j]] => i = j
        BY <3>4 DEF Found
      <4>2. tid \in T /\ \A t \in T : STORE[t] = STORE[tid]
        BY <1>4, <3>4
      <4>3. tid \in Scan(STORE, query)
        BY <2>2, <2>4, <3>4, <4>2
      <4>4. ASSUME NEW u \in Range(r)
            PROVE  STORE[u] # STORE[tid]
        <5>1. u \in TIDs /\ u \notin T
          BY <4>1 DEF Scan, TIDs
        <5>2. u \in T <=> \A k \in 0..(d - 1) : STORE[u][k] = STORE[tid][k]
          BY <4>2, <5>1 DEF SharePrefix
        <5>3. QED
          BY <5>1, <5>2
      <4>5. \A i \in DOMAIN r : r[i] \in Range(r)
        BY DEF Range
      <4>6. ASSUME NEW i \in DOMAIN s, NEW j \in DOMAIN s, STORE[s[i]] = STORE[s[j]]
            PROVE  i = j
        <5>1. CASE i \in DOMAIN r /\ j \in DOMAIN r
          BY <3>3, <4>1, <4>6, <5>1
        <5>2. CASE i \in DOMAIN r /\ j \notin DOMAIN r
          <6>1. s[i] = r[i] /\ s[j] = tid
            BY <3>3, <5>2
          <6>2. QED
            BY <4>4, <4>5, <4>6, <5>2, <6>1
        <5>3. CASE i \notin DOMAIN r /\ j \in DOMAIN r
          <6>1. s[j] = r[j] /\ s[i] = tid
            BY <3>3, <5>3
          <6>2. QED
            BY <4>4, <4>5, <4>6, <5>3, <6>1
        <5>4. CASE i \notin DOMAIN r /\ j \notin DOMAIN r
          BY <3>3, <5>4
        <5>5. QED
          BY <5>1, <5>2, <5>3, <5>4
      <4>7. \A t \in Scan(STORE, query) :
              t \in P \ T \/ \E u \in Range(s) : STORE[u] = STORE[t]
        <5>1. tid \in Range(s) /\ Range(r) \subseteq Range(s)
          BY <3>3
        <5>2. QED
          BY <4>1, <4>2, <5>1
      <4>8. Range(s) \subseteq Scan(STORE, query) /\ \A u \in Range(s) : u \notin P \ T
        BY <3>3, <4>1, <4>2, <4>3
      <4>9. QED
        BY <4>6, <4>7, <4>8
    <3>5. Found(s, P \ T)
      BY <3>4 DEF Found
    <3>6. QED
      BY <2>1, <3>1, <3>2, <3>3, <3>5
  <2>5. QED
    BY <2>3, <2>4
<1>5. CASE \E l \in lists : \E v \in ValuesOf(T, d) :
             LET c == [dim |-> d, position |-> pointer]
             IN  /\ l.tids = T /\ l.dim = d /\ Standing(c, l, v)
                 /\ CallFor(d, pointer) = {c}
                 /\ Pushed(d, pointer) = <<>>
                 /\ Rest(c) = T
  <2>1. PICK c : c = [dim |-> d, position |-> pointer]
    OBVIOUS
  <2>2. PICK l \in lists, v \in ValuesOf(T, d) :
              /\ l.tids = T /\ l.dim = d /\ Standing(c, l, v)
              /\ CallFor(d, pointer) = {c}
              /\ Pushed(d, pointer) = <<>>
              /\ Rest(c) = T
    BY <1>5, <2>1
  <2>3. Stands(c) /\ c.dim = d
    BY <2>1, <2>2 DEF Stands
  <2>4. QED
    BY <1>3, <2>2, <2>3
<1>6. CASE \E tid \in TIDs :
             /\ CallFor(d, pointer) = {}
             /\ Pushed(d, pointer) =
                  IF \A k \in d..(NUM_DIM - 1) :
                       query.columns[k] => isIn(query, k, STORE[tid][k])
                  THEN <<tid>> ELSE <<>>
             /\ LastRowIsKept =>
                  tid \in T /\ \A t \in T : STORE[t] = STORE[tid]
  <2>1. PICK tid \in TIDs :
             /\ CallFor(d, pointer) = {}
             /\ Pushed(d, pointer) =
                  IF \A k \in d..(NUM_DIM - 1) :
                       query.columns[k] => isIn(query, k, STORE[tid][k])
                  THEN <<tid>> ELSE <<>>
             /\ LastRowIsKept =>
                  tid \in T /\ \A t \in T : STORE[t] = STORE[tid]
    BY <1>6
  <2>2. \A c \in CallFor(d, pointer) :
              /\ Stands(c) /\ c.dim = d /\ Rest(c) = T
              /\ CallFor(d, pointer) = {c}
    BY <2>1
  <2>3. QED
    BY <1>4, <2>1, <2>2
<1>7. QED
  BY <1>5, <1>6, FollowFacts

\* What a query sees of the array stays.
LEMMA QuerySame ==
  ASSUME UNCHANGED elfVars
  PROVE  /\ TIDs' = TIDs /\ STORE' = STORE /\ MAX_FIRST_DIM' = MAX_FIRST_DIM
         /\ LastRowIsKept' = LastRowIsKept
         /\ \A T, d : ValuesOf(T, d)' = ValuesOf(T, d)
         /\ \A c, l, v : Standing(c, l, v)' <=> Standing(c, l, v)
         /\ \A c : Stands(c)' <=> Stands(c)
         /\ \A c : Rest(c)' = Rest(c)
<1>1. STORE' = STORE /\ lists' = lists /\ MAX_FIRST_DIM' = MAX_FIRST_DIM
  BY DEF elfVars
<1>2. /\ TIDs' = TIDs /\ LastRowIsKept' = LastRowIsKept
      /\ \A T, d : ValuesOf(T, d)' = ValuesOf(T, d)
      /\ \A l, v : At(l, v)' = At(l, v)
  BY <1>1, SameTable
<1>3. ASSUME NEW c, NEW l, NEW v
      PROVE  Standing(c, l, v)' <=> Standing(c, l, v)
  BY <1>1, <1>2 DEF Standing
<1>4. ASSUME NEW c
      PROVE  Stands(c)' <=> Stands(c)
  BY <1>1, <1>2, <1>3 DEF Stands
<1>5. ASSUME NEW c
      PROVE  Rest(c)' = Rest(c)
  <2>1. \A t : (\E l \in lists' : \E v \in ValuesOf(l.tids, l.dim)' :
                  Standing(c, l, v)' /\ t \in l.tids /\ v <= STORE'[t][l.dim])
               <=> (\E l \in lists : \E v \in ValuesOf(l.tids, l.dim) :
                      Standing(c, l, v) /\ t \in l.tids /\ v <= STORE[t][l.dim])
    BY <1>1, <1>2, <1>3
  <2>2. QED
    BY <1>2, <2>1 DEF Rest
<1>6. QED
  BY <1>1, <1>2, <1>3, <1>4, <1>5

\* What a query accepts, and what an answer must be, stays.
LEMMA AnswerSame ==
  ASSUME UNCHANGED elfVars, query' = query
  PROVE  /\ \A t, d : Qualifies(t, d)' <=> Qualifies(t, d)
         /\ \A r, P : Found(r, P)' <=> Found(r, P)
         /\ Scan(STORE, query)' = Scan(STORE, query)
<1>1. STORE' = STORE /\ LastRowIsKept' = LastRowIsKept
  BY QuerySame
<1>2. \A t, d : Qualifies(t, d)' <=> Qualifies(t, d)
  BY <1>1 DEF Qualifies, isIn
<1>3. Scan(STORE, query)' = Scan(STORE, query)
  BY <1>1
<1>4. \A r, P : Found(r, P)' <=> Found(r, P)
  BY <1>1 DEF Found, Scan, Accepts, isIn
<1>5. QED
  BY <1>2, <1>3, <1>4

\* A step of windowQuery and partialMatch keeps some calls and makes more: each
\* row that is still to be found has its place in A or in one of the calls.
Advances(kept, more, A, r) ==
  /\ kept \subseteq calls /\ A \subseteq Ahead
  /\ r \in Seq(TIDs \cup {NOT_FOUND})
  /\ \A b \in more : /\ Stands(b) /\ Rest(b) \cap A = {}
                     /\ \A t \in Rest(b) : Qualifies(t, b.dim)
  /\ \A b \in more, c \in more : b # c => Rest(b) \cap Rest(c) = {}
  /\ \A b \in more, c \in kept : Rest(b) \cap Rest(c) = {}
  /\ Found(r, Left(A, kept \cup more))
  /\ calls' = kept \cup more /\ Ahead' = A /\ result' = r

\* Such a step keeps the invariant of the queries.
LEMMA MatchStep ==
  ASSUME AskInv, MatchInv, UNCHANGED elfVars,
         stage = "match", stage' = stage, query' = query,
         offset' \in {offset, offset + 2},
         NEW kept, NEW more, NEW A, NEW r, Advances(kept, more, A, r)
  PROVE  QueryInv'
<1>1. /\ MAX_FIRST_DIM' = MAX_FIRST_DIM /\ TIDs' = TIDs
      /\ \A c : Stands(c)' <=> Stands(c)
      /\ \A c : Rest(c)' = Rest(c)
  BY QuerySame
<1>2. /\ \A t, d : Qualifies(t, d)' <=> Qualifies(t, d)
      /\ \A s, P : Found(s, P)' <=> Found(s, P)
  BY AnswerSame
<1>3. /\ offset \in Nat /\ query \in Queries
      /\ \A c \in calls : Stands(c)
  BY DEF AskInv
<1>4. /\ query.op # "exact"
      /\ query.columns[0] => query.upper[0] <= MAX_FIRST_DIM
      /\ offset % 2 = 0
      /\ query.columns[0] => offset >= 2 * query.lower[0]
      /\ \A c \in calls : /\ \A t \in Rest(c) : Qualifies(t, c.dim)
                          /\ Rest(c) \cap Ahead = {}
      /\ \A b, c \in calls : b # c => Rest(b) \cap Rest(c) = {}
  BY DEF MatchInv
<1>5. PICK C : C = kept \cup more
  OBVIOUS
<1>6. /\ calls' = C /\ result' = r /\ r \in Seq(TIDs \cup {NOT_FOUND})
      /\ \A c \in C : Stands(c)
  BY <1>3, <1>5 DEF Advances
<1>7. AskInv'
  BY <1>1, <1>3, <1>6 DEF AskInv
<1>8. /\ Ahead' = A
      /\ \A c \in C : /\ \A t \in Rest(c) : Qualifies(t, c.dim)
                      /\ Rest(c) \cap A = {}
      /\ \A b, c \in C : b # c => Rest(b) \cap Rest(c) = {}
  BY <1>4, <1>5 DEF Advances
<1>9. /\ offset' % 2 = 0
      /\ query.columns[0] => offset' >= 2 * query.lower[0]
  <2>1. query.columns[0] => query.lower[0] \in Nat
    BY <1>3, StoreAssumption, DimFacts DEF Points
  <2>2. PICK o \in Nat : o = offset
    BY <1>3
  <2>3. \A p \in {o, o + 2} : p \in Nat /\ p % 2 = o % 2 /\ p >= o
    OBVIOUS
  <2>4. query.columns[0] => o >= 2 * query.lower[0]
    BY <1>4, <2>2
  <2>5. offset' \in {o, o + 2} /\ o % 2 = 0
    BY <1>4, <2>2
  <2>6. PICK p \in Nat : p = offset' /\ p % 2 = 0 /\ p >= o
    BY <2>3, <2>5
  <2>7. ASSUME query.columns[0]
        PROVE  p >= 2 * query.lower[0]
    <3>1. PICK lower \in Nat : lower = query.lower[0]
      BY <2>1, <2>7
    <3>2. p >= o /\ o >= 2 * lower
      BY <2>4, <2>6, <2>7, <3>1
    <3>3. QED
      BY <3>1, <3>2
  <2>8. QED
    BY <2>6, <2>7
<1>10. Found(result, Pending)'
  <2>1. PICK P : P = Left(A, C)
    OBVIOUS
  <2>2. Found(r, P)'
    BY <1>2, <1>5, <2>1 DEF Advances
  <2>3. Pending' = P
    BY <1>1, <1>6, <1>8, <2>1 DEF Pending, Left
  <2>4. QED
    <3>1. result' = r
      BY <1>6
    <3>2. QED
      BY <2>2, <2>3, <3>1
<1>11. MatchInv'
  BY <1>1, <1>2, <1>4, <1>6, <1>8, <1>9, <1>10 DEF MatchInv
<1>12. ExactInv' /\ MatchIsScan' /\ ExactMatchIsScan'
  BY DEF ExactInv, MatchIsScan, ExactMatchIsScan
<1>13. QED
  BY <1>7, <1>11, <1>12 DEF QueryInv

\* The pointers of dimension 0.
LEMMA FirstPointer ==
  ASSUME BuildInv, stage \notin {"new", "build"}, NEW v \in 0..MAX_FIRST_DIM
  PROVE  /\ todo = {} /\ 2 * v \in DOMAIN ELF
         /\ Leads(ELF[2 * v], Group(TIDs, 0, v), 1)
         /\ SharePrefix(Group(TIDs, 0, v), 1)
<1>1. /\ todo = {} /\ STORE \in Tables /\ MAX_FIRST_DIM \in Nat
      /\ v \in ValuesOf(TIDs, 0)
      /\ Linked(2 * v, Group(TIDs, 0, v), 1)
  BY DEF BuildInv, WordsInv, StageInv, FirstInv
<1>2. SharePrefix(TIDs, 0)
  BY <1>1, StoreFacts DEF SharePrefix
<1>3. SharePrefix(Group(TIDs, 0, v), 0 + 1)
  BY <1>1, <1>2, PrefixFacts
<1>4. QED
  BY <1>1, <1>3 DEF Linked

\* windowQuery and partialMatch start with every accepted row ahead of them.
LEMMA AskStep ==
  ASSUME BuildInv, QueryInv, NEW q \in Queries, Ask(q)
  PROVE  QueryInv'
<1>1. /\ UNCHANGED elfVars /\ query' = q /\ stage' = "match"
      /\ calls' = calls /\ result' = result
      /\ offset' = IF q.columns[0] THEN q.lower[0] * 2 ELSE 0
      /\ q.op # "exact"
      /\ q.columns[0] => q.upper[0] <= MAX_FIRST_DIM
      /\ stage = "ready"
  BY DEF Ask
<1>2. calls = {} /\ result = <<>> /\ STORE \in Tables
  BY <1>1 DEF QueryInv, AskInv, BuildInv, WordsInv
<1>3. q.lower[0] \in Nat /\ q.columns[0] \in BOOLEAN /\ 0 \in Dims
  BY StoreAssumption, DimFacts DEF Points
<1>4. offset' \in Nat /\ offset' % 2 = 0
  BY <1>1, <1>3
<1>5. STORE' = STORE /\ TIDs' = TIDs /\ MAX_FIRST_DIM' = MAX_FIRST_DIM
  BY <1>1, QuerySame
<1>6. AskInv'
  BY <1>1, <1>2, <1>4, <1>5, EmptySeq DEF AskInv
<1>7. Range(<<>>) = {} /\ DOMAIN <<>> = {}
  BY DEF Range
<1>8. ASSUME NEW t \in Scan(STORE', q)
      PROVE  t \in TIDs /\ offset' <= 2 * STORE'[t][0]
  <2>1. t \in TIDs /\ STORE[t][0] \in Nat
    BY <1>2, <1>3, <1>5, <1>8, StoreFacts DEF Scan, TIDs
  <2>2. q.columns[0] => q.lower[0] <= STORE[t][0]
    BY <1>3, <1>5, <1>8 DEF Scan, Accepts, isIn
  <2>3. QED
    BY <1>1, <1>3, <1>5, <2>1, <2>2
<1>9. Found(result, Pending)'
  <2>1. \A t \in Scan(STORE', q) : t \in Pending'
    BY <1>5, <1>8 DEF Pending, Left, Ahead
  <2>2. result' = <<>>
    BY <1>1, <1>2
  <2>3. QED
    BY <1>1, <1>7, <2>1, <2>2 DEF Found
<1>10. MatchInv'
  <2>1. q.columns[0] => offset' >= 2 * q.lower[0]
    BY <1>1, <1>3
  <2>2. QED
    BY <1>1, <1>2, <1>4, <1>5, <1>9, <2>1 DEF MatchInv
<1>11. ExactInv' /\ MatchIsScan' /\ ExactMatchIsScan'
  BY <1>1 DEF ExactInv, MatchIsScan, ExactMatchIsScan
<1>12. QED
  BY <1>6, <1>10, <1>11 DEF QueryInv

\* The next pointer of dimension 0: its rows are no longer ahead.
LEMMA PointerStep ==
  ASSUME BuildInv, QueryInv, NextPointer
  PROVE  QueryInv'
<1>1. /\ UNCHANGED elfVars /\ stage = "match" /\ stage' = stage
      /\ query' = query /\ calls = {} /\ offset <= UPPER
      /\ calls' = CallFor(1, ELF[offset])
      /\ result' = result \o Pushed(1, ELF[offset])
      /\ offset' = offset + 2
  BY DEF NextPointer
<1>2. /\ STORE \in Tables /\ MAX_FIRST_DIM \in Nat
      /\ offset \in Nat /\ result \in Seq(TIDs \cup {NOT_FOUND})
      /\ query \in Queries
      /\ query.columns[0] => query.upper[0] <= MAX_FIRST_DIM
      /\ offset % 2 = 0
      /\ query.columns[0] => offset >= 2 * query.lower[0]
      /\ Found(result, Pending)
  BY <1>1 DEF BuildInv, WordsInv, QueryInv, AskInv, MatchInv
<1>3. /\ query.lower[0] \in Nat /\ query.upper[0] \in Nat
      /\ query.columns[0] \in BOOLEAN /\ 0 \in Dims
  BY <1>2, StoreAssumption, DimFacts DEF Points
<1>4. PICK v \in Nat : offset = 2 * v
  <2>1. offset = 2 * (offset \div 2) /\ offset \div 2 \in Nat
    BY <1>2
  <2>2. QED
    BY <2>1
<1>5. /\ v \in 0..MAX_FIRST_DIM
      /\ query.columns[0] => query.lower[0] <= v /\ v <= query.upper[0]
  BY <1>1, <1>2, <1>3, <1>4 DEF UPPER
<1>6. PICK T, p : T = Group(TIDs, 0, v) /\ p = ELF[offset]
  OBVIOUS
<1>7. /\ todo = {} /\ Leads(p, T, 1) /\ SharePrefix(T, 1)
  BY <1>1, <1>4, <1>5, <1>6, FirstPointer
<1>8. /\ T = {t \in TIDs : STORE[t][0] = v}
      /\ \A t \in TIDs : STORE[t][0] \in Nat
  BY <1>2, <1>3, <1>6, StoreFacts DEF Group
<1>9. Pending = Ahead
  BY <1>1 DEF Pending, Left
<1>10. T \subseteq Ahead
  BY <1>2, <1>4, <1>8 DEF Ahead
<1>11. \A t \in T : Qualifies(t, 1)
  <2>1. \A k \in 0..(1 - 1) : k = 0
    OBVIOUS
  <2>2. QED
    BY <1>5, <1>8, <2>1 DEF Qualifies, isIn
<1>12. PICK A, M, r : A = Ahead \ T /\ M = CallFor(1, p) /\ r = result \o Pushed(1, p)
  OBVIOUS
<1>13. /\ r \in Seq(TIDs \cup {NOT_FOUND})
       /\ \A c \in M : Stands(c) /\ c.dim = 1 /\ Rest(c) = T /\ M = {c}
       /\ Found(r, A \cup UNION {Rest(c) : c \in M})
  <2>1. 1 \in 1..NUM_DIM
    BY DimFacts
  <2>2. Found(result, Ahead)
    BY <1>2, <1>9
  <2>3. /\ result \o Pushed(1, p) \in Seq(TIDs \cup {NOT_FOUND})
        /\ \A c \in CallFor(1, p) :
             Stands(c) /\ c.dim = 1 /\ Rest(c) = T /\ CallFor(1, p) = {c}
        /\ Found(result \o Pushed(1, p),
                 (Ahead \ T) \cup UNION {Rest(c) : c \in CallFor(1, p)})
    <3>1. ASSUME NEW d \in 1..NUM_DIM, d = 1
          PROVE  /\ result \o Pushed(d, p) \in Seq(TIDs \cup {NOT_FOUND})
                 /\ \A c \in CallFor(d, p) :
                      Stands(c) /\ c.dim = d /\ Rest(c) = T /\ CallFor(d, p) = {c}
                 /\ Found(result \o Pushed(d, p),
                          (Ahead \ T) \cup UNION {Rest(c) : c \in CallFor(d, p)})
      <4>1. SharePrefix(T, d) /\ Leads(p, T, d) /\ \A t \in T : Qualifies(t, d)
        BY <1>7, <1>11, <3>1
      <4>2. QED
        BY <1>2, <1>7, <1>10, <2>2, <4>1, FoundFollow
    <3>2. QED
      BY <2>1, <3>1
  <2>4. QED
    BY <1>12, <2>3
<1>14. Ahead' = A
  <2>1. \A t \in TIDs : offset + 2 <= 2 * STORE[t][0]
                          <=> offset <= 2 * STORE[t][0] /\ STORE[t][0] # v
    BY <1>4, <1>8
  <2>2. A = {t \in TIDs : offset <= 2 * STORE[t][0] /\ STORE[t][0] # v}
    BY <1>8, <1>12 DEF Ahead
  <2>3. Ahead' = {t \in TIDs : offset + 2 <= 2 * STORE[t][0]}
    BY <1>1, QuerySame DEF Ahead
  <2>4. QED
    BY <2>1, <2>2, <2>3
<1>15. calls' = {} \cup M /\ result' = r
  BY <1>1, <1>6, <1>12
<1>16. /\ A \subseteq Ahead /\ A \cap T = {}
       /\ Left(A, {} \cup M) = A \cup UNION {Rest(c) : c \in M}
  BY <1>1, <1>12 DEF Left
<1>17. /\ \A b \in M : /\ Stands(b) /\ Rest(b) \cap A = {}
                       /\ \A t \in Rest(b) : Qualifies(t, b.dim)
       /\ \A b \in M, c \in M : b # c => Rest(b) \cap Rest(c) = {}
       /\ \A b \in M, c \in {} : Rest(b) \cap Rest(c) = {}
  BY <1>1, <1>11, <1>13, <1>16
<1>18. Found(r, Left(A, {} \cup M))
  BY <1>13, <1>16
<1>19. AskInv /\ MatchInv
  BY DEF QueryInv
<1>20. QED
  <2>1. offset' \in {offset, offset + 2}
    BY <1>1
  <2>2. /\ UNCHANGED elfVars /\ stage = "match" /\ stage' = stage /\ query' = query
    BY <1>1
  <2>3. Advances({}, M, A, r)
    BY <1>13, <1>14, <1>15, <1>16, <1>17, <1>18 DEF Advances
  <2>4. QED
    BY <1>19, <2>1, <2>2, <2>3, MatchStep

\* Behind the upper bound no accepted row is ahead.
LEMMA ReturnStep ==
  ASSUME BuildInv, QueryInv, Return
  PROVE  QueryInv'
<1>1. /\ UNCHANGED elfVars /\ stage = "match" /\ stage' = "done"
      /\ query' = query /\ calls = {} /\ offset > UPPER
      /\ calls' = calls /\ result' = result /\ offset' = offset
  BY DEF Return, queryVars
<1>2. /\ STORE \in Tables /\ MAX_FIRST_DIM \in Nat /\ offset \in Nat
      /\ query \in Queries /\ query.op # "exact"
      /\ Found(result, Pending)
      /\ ValuesOf(TIDs, 0) = 0..MAX_FIRST_DIM
  BY <1>1 DEF BuildInv, WordsInv, FirstInv, QueryInv, AskInv, MatchInv
<1>3. /\ query.upper[0] \in Nat /\ query.columns[0] \in BOOLEAN /\ 0 \in Dims
  BY <1>2, StoreAssumption, DimFacts DEF Points
<1>4. ASSUME NEW t \in Scan(STORE, query)
      PROVE  t \notin Pending
  <2>1. /\ t \in TIDs /\ STORE[t][0] \in Nat
    BY <1>2, <1>3, <1>4, StoreFacts DEF Scan, TIDs
  <2>2. query.columns[0] => STORE[t][0] <= query.upper[0]
    BY <1>3, <1>4 DEF Scan, Accepts, isIn
  <2>3. STORE[t][0] <= MAX_FIRST_DIM
    BY <1>2, <2>1 DEF ValuesOf
  <2>4. 2 * STORE[t][0] <= UPPER /\ UPPER \in Nat
    BY <1>2, <1>3, <2>1, <2>2, <2>3 DEF UPPER
  <2>5. ~(offset <= 2 * STORE[t][0])
    BY <1>1, <1>2, <2>1, <2>4
  <2>6. QED
    BY <1>1, <2>5 DEF Pending, Left, Ahead
<1>5. Found(result, {})
  BY <1>2, <1>4 DEF Found
<1>6. MatchIsScan'
  <2>1. PICK r : r = result
    OBVIOUS
  <2>2. Found(r, {})'
    BY <1>1, <1>5, <2>1, AnswerSame
  <2>3. QED
    BY <1>1, <2>1, <2>2 DEF Found, MatchIsScan
<1>7. AskInv'
  BY <1>1, QuerySame DEF QueryInv, AskInv
<1>8. MatchInv' /\ ExactInv' /\ ExactMatchIsScan'
  BY <1>1, <1>2 DEF MatchInv, ExactInv, ExactMatchIsScan
<1>9. QED
  BY <1>6, <1>7, <1>8 DEF QueryInv

\* The call for the next entry.
LEMMA NextCall ==
  ASSUME BuildInv, todo = {}, NEW c, NEW l, NEW v, Standing(c, l, v),
         ~IsLastValue(l.tids, l.dim, v)
  PROVE  \E w \in ValuesOf(l.tids, l.dim) :
           /\ Standing([c EXCEPT !.position = @ + 3], l, w)
           /\ v < w /\ \A u \in ValuesOf(l.tids, l.dim) : v < u => w <= u
<1>1. /\ l \in lists /\ v \in ValuesOf(l.tids, l.dim)
      /\ c = [dim |-> l.dim, position |-> At(l, v)]
  BY DEF Standing
<1>2. /\ STORE \in Tables /\ l.tids \in (SUBSET TIDs) \ {{}} /\ l.dim \in Dims
      /\ l.position \in Nat
  <2>1. l \in lists /\ v \in ValuesOf(l.tids, l.dim)
    BY <1>1
  <2>2. QED
    BY <2>1, EntryRead DEF BuildInv, WordsInv
<1>3. PICK T, d, start : T = l.tids /\ d = l.dim /\ start = l.position
  OBVIOUS
<1>4. PICK w \in ValuesOf(T, d) :
            /\ Entry(start, T, d, w) = Entry(start, T, d, v) + 3
            /\ v < w /\ \A u \in ValuesOf(T, d) : v < u => w <= u
  <2>1. /\ STORE \in Tables /\ T \in (SUBSET TIDs) \ {{}} /\ d \in Dims
        /\ start \in Nat /\ v \in ValuesOf(T, d) /\ ~IsLastValue(T, d, v)
    BY <1>1, <1>2, <1>3
  <2>2. QED
    BY <2>1, EntryAfter
<1>5. At(l, w) = At(l, v) + 3
  BY <1>3, <1>4 DEF At
<1>6. [c EXCEPT !.position = @ + 3] = [dim |-> l.dim, position |-> At(l, w)]
  BY <1>1, <1>5
<1>7. w \in ValuesOf(l.tids, l.dim)
  BY <1>3, <1>4
<1>8. Standing([c EXCEPT !.position = @ + 3], l, w)
  BY <1>1, <1>6, <1>7 DEF Standing
<1>9. QED
  BY <1>3, <1>4, <1>7, <1>8

\* What a call leaves to the next one: the rows with larger values, unless the
\* query accepts none of them.
LEMMA RestStep ==
  ASSUME BuildInv, todo = {}, query \in Queries,
         NEW c, NEW l, NEW v, Standing(c, l, v)
  PROVE  LET T == Group(l.tids, l.dim, v)
         IN  /\ T \subseteq Rest(c)
             /\ \A b \in NextOf(c) : /\ Stands(b) /\ b.dim = c.dim /\ NextOf(c) = {b}
                             /\ Rest(b) = Rest(c) \ T
             /\ NextOf(c) = {} => \A t \in Rest(c) \ T : t \notin Scan(STORE, query)
<1>1. /\ l \in lists /\ v \in ValuesOf(l.tids, l.dim) /\ c.dim = l.dim
      /\ c.position = At(l, v)
      /\ Rest(c) = {t \in l.tids : v <= STORE[t][l.dim]}
  BY RestFacts DEF Standing
<1>2. /\ ValueAt(At(l, v)) = v
      /\ EndsAt(At(l, v)) <=> IsLastValue(l.tids, l.dim, v)
      /\ v \in Nat /\ l.dim \in Dims /\ l.tids \in (SUBSET TIDs) \ {{}}
      /\ STORE \in Tables
  BY <1>1, EntryRead DEF BuildInv, WordsInv
<1>3. \A t \in l.tids : STORE[t][l.dim] \in ValuesOf(l.tids, l.dim)
                        /\ STORE[t][l.dim] \in Nat /\ t \in TIDs
  BY <1>2, StoreFacts DEF ValuesOf
<1>4. PICK T : T = Group(l.tids, l.dim, v)
  OBVIOUS
<1>5. T = {t \in l.tids : STORE[t][l.dim] = v}
  BY <1>4 DEF Group
<1>6. T \subseteq Rest(c)
  BY <1>1, <1>2, <1>5
<1>7. Rest(c) \ T = {t \in l.tids : v < STORE[t][l.dim]}
  BY <1>1, <1>2, <1>3, <1>5
<1>8. CASE IsLastValue(l.tids, l.dim, v)
  <2>1. NextOf(c) = {}
    BY <1>1, <1>2, <1>8 DEF NextOf
  <2>2. Rest(c) \ T = {}
    BY <1>2, <1>3, <1>7, <1>8 DEF IsLastValue
  <2>3. QED
    BY <1>4, <1>6, <2>1, <2>2
<1>9. CASE ~IsLastValue(l.tids, l.dim, v) /\ Above(l.dim, v)
  <2>1. NextOf(c) = {}
    BY <1>1, <1>2, <1>9 DEF NextOf
  <2>2. query.columns[l.dim] /\ query.upper[l.dim] < v /\ query.upper[l.dim] \in Nat
    BY <1>2, <1>9, StoreAssumption DEF Above, Points
  <2>3. ASSUME NEW t \in Rest(c) \ T
        PROVE  t \notin Scan(STORE, query)
    <3>1. v < STORE[t][l.dim] /\ STORE[t][l.dim] \in Nat
      BY <1>3, <1>7
    <3>2. ~(STORE[t][l.dim] <= query.upper[l.dim])
      BY <1>2, <2>2, <3>1
    <3>3. QED
      BY <1>2, <2>2, <3>2 DEF Scan, Accepts, isIn
  <2>4. QED
    BY <1>4, <1>6, <2>1, <2>3
<1>10. CASE ~IsLastValue(l.tids, l.dim, v) /\ ~Above(l.dim, v)
  <2>1. PICK b : b = [c EXCEPT !.position = @ + 3]
    OBVIOUS
  <2>2. NextOf(c) = {b}
    BY <1>1, <1>2, <1>10, <2>1 DEF NextOf
  <2>3. PICK w \in ValuesOf(l.tids, l.dim) :
               /\ Standing(b, l, w)
               /\ v < w /\ \A u \in ValuesOf(l.tids, l.dim) : v < u => w <= u
    BY <1>10, <2>1, NextCall
  <2>4. /\ Stands(b) /\ b.dim = l.dim
        /\ Rest(b) = {t \in l.tids : w <= STORE[t][l.dim]}
    BY <2>3, RestFacts
  <2>5. w \in Nat
    BY <1>2, ValuesFacts
  <2>6. \A t \in l.tids : w <= STORE[t][l.dim] <=> v < STORE[t][l.dim]
    BY <1>2, <1>3, <2>3, <2>5
  <2>7. Rest(b) = Rest(c) \ T
    BY <1>7, <2>4, <2>6
  <2>8. QED
    BY <1>1, <1>4, <1>6, <2>2, <2>4, <2>7
<1>11. QED
  BY <1>8, <1>9, <1>10

\* An entry of a list: its rows go to the call or the mono list behind it when
\* they are inside the bounds, and the larger ones to the next entry.
LEMMA EntryStep ==
  ASSUME BuildInv, QueryInv, NEW c \in calls, NextEntry(c)
  PROVE  QueryInv'
<1>1. /\ UNCHANGED elfVars /\ stage = "match" /\ stage' = stage
      /\ query' = query /\ offset' = offset
  BY DEF NextEntry
<1>2. /\ STORE \in Tables /\ todo = {}
      /\ result \in Seq(TIDs \cup {NOT_FOUND}) /\ query \in Queries
      /\ \A b \in calls : /\ \A t \in Rest(b) : Qualifies(t, b.dim)
                          /\ Rest(b) \cap Ahead = {}
      /\ \A a, b \in calls : a # b => Rest(a) \cap Rest(b) = {}
      /\ Found(result, Pending) /\ Stands(c)
  BY <1>1 DEF BuildInv, WordsInv, StageInv, QueryInv, AskInv, MatchInv
<1>3. PICK l \in lists : \E v \in ValuesOf(l.tids, l.dim) : Standing(c, l, v)
  BY <1>2 DEF Stands
<1>4. PICK v \in ValuesOf(l.tids, l.dim) : Standing(c, l, v)
  BY <1>3
<1>5. /\ c.dim = l.dim /\ c.position = At(l, v)
      /\ Rest(c) = {t \in l.tids : v <= STORE[t][l.dim]}
  BY <1>4, RestFacts
<1>6. PICK d, T, p, value :
           /\ d = l.dim /\ T = Group(l.tids, l.dim, v)
           /\ p = PointerAt(c.position) /\ value = ValueAt(c.position)
  OBVIOUS
<1>7. /\ value = v /\ v \in Nat /\ d \in 1..(NUM_DIM - 1) /\ d \in Dims
      /\ l.tids \subseteq TIDs
      /\ Leads(p, T, d + 1) /\ SharePrefix(T, d + 1)
  BY <1>2, <1>5, <1>6, EntryRead
<1>8. T = {t \in l.tids : STORE[t][d] = v}
  BY <1>6 DEF Group
<1>9. PICK N : N = NextOf(c)
  OBVIOUS
<1>10. /\ T \subseteq Rest(c)
       /\ \A b \in N : /\ Stands(b) /\ b.dim = d /\ N = {b}
                       /\ Rest(b) = Rest(c) \ T
       /\ N = {} => \A t \in Rest(c) \ T : t \notin Scan(STORE, query)
  <2>1. todo = {} /\ query \in Queries
    BY <1>2
  <2>2. /\ Group(l.tids, l.dim, v) \subseteq Rest(c)
        /\ \A b \in NextOf(c) : /\ Stands(b) /\ b.dim = c.dim /\ NextOf(c) = {b}
                               /\ Rest(b) = Rest(c) \ Group(l.tids, l.dim, v)
        /\ NextOf(c) = {} => \A t \in Rest(c) \ Group(l.tids, l.dim, v) :
                               t \notin Scan(STORE, query)
    BY <1>4, <2>1, RestStep
  <2>3. QED
    BY <1>5, <1>6, <1>9, <2>2
<1>11. Rest(c) \subseteq Pending
  BY DEF Pending, Left
<1>12. PICK M, r :
            /\ calls' = (calls \ {c}) \cup (N \cup M) /\ result' = r
            /\ r \in Seq(TIDs \cup {NOT_FOUND})
            /\ \A b \in M : /\ Stands(b) /\ Rest(b) = T /\ M = {b}
                            /\ \A t \in T : Qualifies(t, b.dim)
            /\ Found(r, (Pending \ T) \cup UNION {Rest(b) : b \in M})
  <2>1. CASE query.columns[d] => isIn(query, d, value)
    <3>1. \A t \in T : Qualifies(t, d + 1)
      <4>1. \A t \in T : Qualifies(t, d)
        BY <1>2, <1>5, <1>6, <1>10
      <4>2. \A k \in 0..((d + 1) - 1) : k \in 0..(d - 1) \/ k = d
        BY <1>7
      <4>3. \A t \in T : STORE[t][d] = value
        BY <1>7, <1>8
      <4>4. QED
        BY <2>1, <4>1, <4>2, <4>3 DEF Qualifies
    <3>2. PICK e \in 1..NUM_DIM : e = d + 1
      BY <1>7, DimFacts
    <3>3. PICK r : r = result \o Pushed(e, p)
      OBVIOUS
    <3>4. /\ r \in Seq(TIDs \cup {NOT_FOUND})
          /\ \A b \in CallFor(e, p) :
               /\ Stands(b) /\ b.dim = e /\ Rest(b) = T
               /\ CallFor(e, p) = {b}
          /\ Found(r, (Pending \ T) \cup UNION {Rest(b) : b \in CallFor(e, p)})
      <4>1. /\ SharePrefix(T, e) /\ Leads(p, T, e) /\ \A t \in T : Qualifies(t, e)
            /\ T \subseteq Pending
        BY <1>7, <1>10, <1>11, <3>1, <3>2
      <4>2. /\ result \o Pushed(e, p) \in Seq(TIDs \cup {NOT_FOUND})
            /\ \A b \in CallFor(e, p) :
                 /\ Stands(b) /\ b.dim = e /\ Rest(b) = T
                 /\ CallFor(e, p) = {b}
            /\ Found(result \o Pushed(e, p),
                     (Pending \ T) \cup UNION {Rest(b) : b \in CallFor(e, p)})
        BY <1>2, <4>1, FoundFollow
      <4>3. QED
        BY <3>3, <4>2
    <3>5. calls' = (calls \ {c}) \cup (N \cup CallFor(e, p)) /\ result' = r
      <4>1. /\ calls' = (calls \ {c}) \cup N \cup CallFor(d + 1, p)
            /\ result' = result \o Pushed(d + 1, p)
        BY <1>5, <1>6, <1>9, <2>1 DEF NextEntry, NextOf
      <4>2. QED
        BY <3>2, <3>3, <4>1
    <3>6. \A b \in CallFor(e, p) : \A t \in T : Qualifies(t, b.dim)
      BY <3>1, <3>2, <3>4
    <3>7. QED
      BY <3>4, <3>5, <3>6
  <2>2. CASE ~(query.columns[d] => isIn(query, d, value))
    <3>1. calls' = (calls \ {c}) \cup (N \cup {}) /\ result' = result
      <4>1. calls' = (calls \ {c}) \cup N /\ result' = result
        BY <1>5, <1>6, <1>9, <2>2 DEF NextEntry, NextOf
      <4>2. QED
        BY <4>1
    <3>2. \A t \in T : t \notin Scan(STORE, query)
      BY <1>7, <1>8, <2>2 DEF Scan, Accepts
    <3>3. Found(result, Pending \ T)
      BY <1>2, <3>2 DEF Found
    <3>4. (Pending \ T) \cup UNION {Rest(b) : b \in {}} = Pending \ T
      OBVIOUS
    <3>5. Found(result, (Pending \ T) \cup UNION {Rest(b) : b \in {}})
      BY <3>3, <3>4
    <3>6. \A b \in {} : /\ Stands(b) /\ Rest(b) = T /\ {} = {b}
                        /\ \A t \in T : Qualifies(t, b.dim)
      OBVIOUS
    <3>7. QED
      BY <1>2, <3>1, <3>5, <3>6
  <2>3. QED
    BY <2>1, <2>2
<1>13. PICK A, more : A = Ahead /\ more = N \cup M
  OBVIOUS
<1>14. \A b \in more : Rest(b) \subseteq Rest(c)
  BY <1>10, <1>12, <1>13
<1>15. PICK P, Q : /\ P = (Pending \ T) \cup UNION {Rest(b) : b \in M}
                   /\ Q = Left(A, (calls \ {c}) \cup more)
  OBVIOUS
<1>16. Found(r, Q)
  <2>1. \A t \in Q : t \in P
    <3>1. ASSUME NEW t \in A
          PROVE  t \in P
      <4>1. t \in Pending /\ t \notin Rest(c)
        BY <1>2, <1>13, <3>1 DEF Pending, Left
      <4>2. QED
        BY <1>10, <1>15, <4>1
    <3>2. ASSUME NEW b \in calls \ {c}, NEW t \in Rest(b)
          PROVE  t \in P
      <4>1. t \in Pending /\ t \notin Rest(c)
        BY <1>2, <3>2 DEF Pending, Left
      <4>2. QED
        BY <1>10, <1>15, <4>1
    <3>3. ASSUME NEW b \in N, NEW t \in Rest(b)
          PROVE  t \in P
      BY <1>10, <1>11, <1>15, <3>3
    <3>4. ASSUME NEW b \in M, NEW t \in Rest(b)
          PROVE  t \in P
      BY <1>15, <3>4
    <3>5. QED
      BY <1>13, <1>15, <3>1, <3>2, <3>3, <3>4 DEF Left
  <2>2. ASSUME NEW t \in P, t \notin Q
        PROVE  t \notin Scan(STORE, query)
    <3>1. \A b \in M : t \notin Rest(b)
      BY <1>13, <1>15, <2>2 DEF Left
    <3>2. t \in Pending /\ t \notin T
      BY <1>15, <2>2, <3>1
    <3>3. t \notin Ahead /\ \A b \in calls \ {c} : t \notin Rest(b)
      BY <1>13, <1>15, <2>2 DEF Left
    <3>4. t \in Rest(c) \ T
      BY <3>2, <3>3 DEF Pending, Left
    <3>5. N = {}
      <4>1. \A b \in N : t \notin Rest(b)
        BY <1>13, <1>15, <2>2 DEF Left
      <4>2. QED
        BY <1>10, <3>4, <4>1
    <3>6. QED
      BY <1>10, <3>4, <3>5
  <2>3. Q \in SUBSET P /\ Found(r, P)
    BY <1>12, <1>15, <2>1
  <2>4. QED
    BY <2>2, <2>3, FoundDrop
<1>17. \A b \in more : /\ Stands(b) /\ Rest(b) \cap A = {}
                       /\ \A t \in Rest(b) : Qualifies(t, b.dim)
  <2>1. ASSUME NEW b \in more
        PROVE  Rest(b) \cap A = {}
    BY <1>2, <1>13, <1>14
  <2>2. ASSUME NEW b \in N
        PROVE  Stands(b) /\ \A t \in Rest(b) : Qualifies(t, b.dim)
    BY <1>2, <1>5, <1>6, <1>10
  <2>3. ASSUME NEW b \in M
        PROVE  Stands(b) /\ \A t \in Rest(b) : Qualifies(t, b.dim)
    BY <1>12
  <2>4. QED
    BY <1>13, <2>1, <2>2, <2>3
<1>18. \A a \in more, b \in more : a # b => Rest(a) \cap Rest(b) = {}
  BY <1>10, <1>12, <1>13
<1>19. \A a \in more, b \in calls \ {c} : Rest(a) \cap Rest(b) = {}
  BY <1>2, <1>14
<1>20. Ahead' = A
  BY <1>1, <1>13, QuerySame DEF Ahead
<1>21. QED
  <2>1. AskInv /\ MatchInv
    BY DEF QueryInv
  <2>2. /\ UNCHANGED elfVars /\ stage = "match" /\ stage' = stage
        /\ query' = query /\ offset' \in {offset, offset + 2}
    BY <1>1
  <2>3. Advances(calls \ {c}, more, A, r)
    BY <1>12, <1>13, <1>15, <1>16, <1>17, <1>18, <1>19, <1>20 DEF Advances
  <2>4. QED
    BY <2>1, <2>2, <2>3, MatchStep

\* exactMatch accepts the rows that are the point.
LEMMA ExactScan ==
  ASSUME STORE \in Tables, NEW q \in Queries, q.op = "exact"
  PROVE  /\ q.lower \in Points
         /\ \A t \in TIDs : t \in Scan(STORE, q) <=> STORE[t] = q.lower
<1>1. q.lower \in Points /\ q.upper = q.lower /\ \A d \in Dims : q.columns[d]
  BY StoreAssumption
<1>2. ASSUME NEW t \in TIDs
      PROVE  t \in Scan(STORE, q) <=> STORE[t] = q.lower
  <2>1. STORE[t] \in Points
    BY StoreFacts
  <2>2. \A d \in Dims : STORE[t][d] \in Nat /\ q.lower[d] \in Nat
    BY <1>1, <2>1 DEF Points
  <2>3. t \in Scan(STORE, q) <=> \A d \in Dims : isIn(q, d, STORE[t][d])
    BY <1>1 DEF Scan, Accepts, TIDs
  <2>4. \A d \in Dims : isIn(q, d, STORE[t][d]) <=> STORE[t][d] = q.lower[d]
    BY <1>1, <2>2 DEF isIn
  <2>5. STORE[t] = q.lower <=> \A d \in Dims : STORE[t][d] = q.lower[d]
    BY <1>1, <2>1 DEF Points
  <2>6. QED
    BY <2>3, <2>4, <2>5
<1>3. QED
  BY <1>1, <1>2

\* A row that answers exactMatch, and the answer that there is none.
LEMMA ExactDone ==
  ASSUME BuildInv, UNCHANGED elfVars, offset \in Nat,
         NEW q \in Queries, q.op = "exact", query' = q, stage' = "done",
         calls' = {}, offset' = offset,
         NEW a \in TIDs \cup {NOT_FOUND}, result' = <<a>>,
         LastRowIsKept =>
           \/ a \in Scan(STORE, q)
           \/ a = NOT_FOUND /\ Scan(STORE, q) = {}
  PROVE  QueryInv'
<1>1. STORE' = STORE /\ TIDs' = TIDs /\ LastRowIsKept' = LastRowIsKept
  BY QuerySame
<1>2. <<a>> \in Seq(TIDs \cup {NOT_FOUND})
  OBVIOUS
<1>3. AskInv'
  BY <1>1, <1>2 DEF AskInv
<1>4. ExactMatchIsScan'
  BY <1>1 DEF ExactMatchIsScan
<1>5. MatchInv' /\ ExactInv' /\ MatchIsScan'
  BY DEF MatchInv, ExactInv, MatchIsScan
<1>6. QED
  BY <1>3, <1>4, <1>5 DEF QueryInv

\* A call of exactMatch for a list that holds each row that is the point.
LEMMA ExactGoesOn ==
  ASSUME BuildInv, UNCHANGED elfVars, offset \in Nat,
         NEW q \in Queries, q.op = "exact", query' = q, stage' = "exact",
         NEW c, calls' = {c}, offset' = offset, result' = <<>>,
         NEW l, NEW v, Standing(c, l, v),
         \A t \in l.tids : \A k \in 0..(l.dim - 1) : STORE[t][k] = q.lower[k],
         \A t \in TIDs : STORE[t] = q.lower => t \in l.tids /\ v <= STORE[t][l.dim]
  PROVE  QueryInv'
<1>1. /\ STORE' = STORE /\ TIDs' = TIDs
      /\ ValuesOf(l.tids, l.dim)' = ValuesOf(l.tids, l.dim)
      /\ Standing(c, l, v)'
      /\ Stands(c)' <=> Stands(c)
  BY QuerySame
<1>2. Stands(c) /\ l \in lists /\ v \in ValuesOf(l.tids, l.dim)
  BY DEF Standing, Stands
<1>3. <<>> \in Seq(TIDs \cup {NOT_FOUND})
  BY EmptySeq
<1>4. AskInv'
  BY <1>1, <1>2, <1>3 DEF AskInv
<1>5. ExactInv'
  <2>1. l \in lists' /\ v \in ValuesOf(l.tids, l.dim)'
    BY <1>1, <1>2 DEF elfVars
  <2>2. \A b \in calls' : b = c
    OBVIOUS
  <2>3. /\ Standing(c, l, v)'
        /\ \A t \in l.tids : \A k \in 0..(l.dim - 1) : STORE'[t][k] = query'.lower[k]
        /\ \A t \in TIDs' : STORE'[t] = query'.lower =>
             t \in l.tids /\ v <= STORE'[t][l.dim]
    BY <1>1
  <2>4. QED
    BY <2>1, <2>2, <2>3 DEF ExactInv
<1>6. MatchInv' /\ MatchIsScan' /\ ExactMatchIsScan'
  BY DEF MatchInv, MatchIsScan, ExactMatchIsScan
<1>7. QED
  BY <1>4, <1>5, <1>6 DEF QueryInv

\* exactMatch with a pointer to all rows that agree with the point so far.
LEMMA ContinueStep ==
  ASSUME BuildInv, todo = {}, UNCHANGED elfVars, offset \in Nat,
         NEW q \in Queries, q.op = "exact", query' = q, offset' = offset,
         NEW d \in 1..NUM_DIM, NEW T, NEW pointer,
         SharePrefix(T, d), Leads(pointer, T, d),
         \A t \in T : \A k \in 0..(d - 1) : STORE[t][k] = q.lower[k],
         Continue(d, pointer, q.lower)
  PROVE  QueryInv'
<1>1. STORE \in Tables /\ T \subseteq TIDs /\ T # {}
  BY DEF BuildInv, WordsInv, SharePrefix
<1>2. \A t \in TIDs : STORE[t] = q.lower => t \in T
  <2>1. PICK u \in T : TRUE
    BY <1>1
  <2>2. \A t \in TIDs : t \in T <=> \A k \in 0..(d - 1) : STORE[t][k] = STORE[u][k]
    BY DEF SharePrefix
  <2>3. QED
    BY <2>2
<1>3. ASSUME NEW l, NEW v, NEW c, l.tids = T, l.dim = d,
             Standing(c, l, v), \A u \in ValuesOf(T, d) : v <= u,
             pointer < LAST_ENTRY_MASK64, CallFor(d, pointer) = {c}
      PROVE  QueryInv'
  <2>1. calls' = {c} /\ stage' = "exact" /\ result' = <<>>
    BY <1>3 DEF Continue
  <2>2. /\ \A t \in l.tids : \A k \in 0..(l.dim - 1) : STORE[t][k] = q.lower[k]
        /\ \A t \in TIDs : STORE[t] = q.lower => t \in l.tids /\ v <= STORE[t][l.dim]
    BY <1>2, <1>3 DEF ValuesOf
  <2>3. QED
    BY <1>3, <2>1, <2>2, ExactGoesOn
<1>4. ASSUME NEW tid \in TIDs,
             ~(pointer < LAST_ENTRY_MASK64), CallFor(d, pointer) = {},
             MonoTID(d, Recover64(pointer)) = tid,
             \A k \in d..(NUM_DIM - 1) :
               ELF[Recover64(pointer) + k - d] = STORE[tid][k],
             LastRowIsKept => tid \in T /\ \A t \in T : STORE[t] = STORE[tid]
      PROVE  QueryInv'
  <2>1. PICK a \in TIDs \cup {NOT_FOUND} :
          a = IF \A k \in d..(NUM_DIM - 1) : q.lower[k] = STORE[tid][k]
              THEN tid ELSE NOT_FOUND
    OBVIOUS
  <2>2. stage' = "done" /\ calls' = {} /\ result' = <<a>>
    <3>1. (\A k \in d..(NUM_DIM - 1) : q.lower[k] = ELF[Recover64(pointer) + k - d])
            <=> \A k \in d..(NUM_DIM - 1) : q.lower[k] = STORE[tid][k]
      BY <1>4
    <3>2. /\ stage' = "done" /\ calls' = {}
          /\ result' = IF \A k \in d..(NUM_DIM - 1) :
                            q.lower[k] = ELF[Recover64(pointer) + k - d]
                       THEN <<tid>> ELSE <<NOT_FOUND>>
      BY <1>4 DEF Continue
    <3>3. QED
      BY <2>1, <3>1, <3>2
  <2>3. ASSUME LastRowIsKept
        PROVE  \/ a \in Scan(STORE, q)
               \/ a = NOT_FOUND /\ Scan(STORE, q) = {}
    <3>1. tid \in T /\ \A t \in T : STORE[t] = STORE[tid]
      BY <1>4, <2>3
    <3>2. q.lower \in Points /\ STORE[tid] \in Points
      BY <1>1, ExactScan, StoreFacts
    <3>3. STORE[tid] = q.lower
            <=> \A k \in d..(NUM_DIM - 1) : q.lower[k] = STORE[tid][k]
      <4>1. \A k \in 0..(d - 1) : STORE[tid][k] = q.lower[k]
        BY <3>1
      <4>2. \A k \in Dims : k \in 0..(d - 1) \/ k \in d..(NUM_DIM - 1)
        BY DimFacts
      <4>3. (\A k \in Dims : STORE[tid][k] = q.lower[k]) => STORE[tid] = q.lower
        BY <3>2 DEF Points
      <4>4. QED
        BY <4>1, <4>2, <4>3
    <3>4. CASE STORE[tid] = q.lower
      BY <1>1, <2>1, <3>3, <3>4, ExactScan
    <3>5. CASE STORE[tid] # q.lower
      <4>1. \A t \in TIDs : STORE[t] # q.lower
        BY <1>2, <3>1, <3>5
      <4>2. \A t \in Scan(STORE, q) : t \in TIDs
        BY DEF Scan, TIDs
      <4>3. Scan(STORE, q) = {}
        BY <1>1, <4>1, <4>2, ExactScan
      <4>4. QED
        BY <2>1, <3>3, <3>5, <4>3
    <3>6. QED
      BY <3>4, <3>5
  <2>4. QED
    BY <2>2, <2>3, ExactDone
<1>5. CASE \E l \in lists : \E v \in ValuesOf(T, d) :
             LET c == [dim |-> d, position |-> pointer]
             IN  /\ l.tids = T /\ l.dim = d /\ Standing(c, l, v)
                 /\ \A u \in ValuesOf(T, d) : v <= u
                 /\ pointer < LAST_ENTRY_MASK64
                 /\ CallFor(d, pointer) = {c}
  BY <1>3, <1>5
<1>6. CASE \E tid \in TIDs :
             /\ ~(pointer < LAST_ENTRY_MASK64)
             /\ CallFor(d, pointer) = {}
             /\ MonoTID(d, Recover64(pointer)) = tid
             /\ \A k \in d..(NUM_DIM - 1) :
                  ELF[Recover64(pointer) + k - d] = STORE[tid][k]
             /\ LastRowIsKept =>
                  tid \in T /\ \A t \in T : STORE[t] = STORE[tid]
  BY <1>4, <1>6
<1>7. QED
  BY <1>5, <1>6, FollowFacts

\* exactMatch begins with the pointer of the point's value of dimension 0.
LEMMA ExactStep ==
  ASSUME BuildInv, QueryInv, NEW q \in Queries, exactMatch(q)
  PROVE  QueryInv'
<1>1. /\ UNCHANGED elfVars /\ query' = q /\ offset' = offset /\ stage = "ready"
      /\ q.op = "exact" /\ q.lower[0] <= MAX_FIRST_DIM
      /\ Continue(1, ELF[q.lower[0] * 2], q.lower)
  BY DEF exactMatch
<1>2. offset \in Nat /\ MAX_FIRST_DIM \in Nat /\ STORE \in Tables
  BY DEF QueryInv, AskInv, BuildInv, WordsInv
<1>3. q.lower[0] \in Nat
  BY StoreAssumption, DimFacts DEF Points
<1>4. PICK v \in 0..MAX_FIRST_DIM : v = q.lower[0]
  BY <1>1, <1>2, <1>3
<1>5. PICK T, p : T = Group(TIDs, 0, v) /\ p = ELF[2 * v]
  OBVIOUS
<1>6. todo = {} /\ Leads(p, T, 1) /\ SharePrefix(T, 1)
  BY <1>1, <1>4, <1>5, FirstPointer
<1>7. q.lower[0] * 2 = 2 * v
  BY <1>4
<1>8. PICK d \in 1..NUM_DIM : d = 1
  BY DimFacts
<1>9. \A t \in T : \A k \in 0..(d - 1) : STORE[t][k] = q.lower[k]
  <2>1. \A k \in 0..(d - 1) : k = 0
    BY <1>8
  <2>2. QED
    BY <1>4, <1>5, <2>1 DEF Group
<1>10. Continue(d, p, q.lower) /\ Leads(p, T, d) /\ SharePrefix(T, d)
  BY <1>1, <1>5, <1>6, <1>7, <1>8
<1>11. QED
  BY <1>1, <1>2, <1>6, <1>9, <1>10, ContinueStep

\* A turn of listContains: the entry is that of the point, or no later one can
\* be, or the next one is looked at.
LEMMA ContainsStep ==
  ASSUME BuildInv, QueryInv, NEW c \in calls, listContains(c)
  PROVE  QueryInv'
<1>1. /\ UNCHANGED elfVars /\ query' = query /\ offset' = offset /\ stage = "exact"
  BY DEF listContains
<1>2. /\ offset \in Nat /\ STORE \in Tables /\ todo = {} /\ query \in Queries
      /\ query.op = "exact" /\ result = <<>>
      /\ \E l \in lists : \E v \in ValuesOf(l.tids, l.dim) :
           /\ Standing(c, l, v)
           /\ \A t \in l.tids : \A k \in 0..(l.dim - 1) :
                STORE[t][k] = query.lower[k]
           /\ \A t \in TIDs : STORE[t] = query.lower =>
                t \in l.tids /\ v <= STORE[t][l.dim]
  BY <1>1 DEF QueryInv, AskInv, ExactInv, BuildInv, WordsInv, StageInv
<1>3. PICK q \in Queries : q = query
  BY <1>2
<1>4. PICK l \in lists : \E v \in ValuesOf(l.tids, l.dim) :
        /\ Standing(c, l, v)
        /\ \A t \in l.tids : \A k \in 0..(l.dim - 1) : STORE[t][k] = q.lower[k]
        /\ \A t \in TIDs : STORE[t] = q.lower => t \in l.tids /\ v <= STORE[t][l.dim]
  BY <1>2, <1>3
<1>5. PICK v \in ValuesOf(l.tids, l.dim) :
        /\ Standing(c, l, v)
        /\ \A t \in l.tids : \A k \in 0..(l.dim - 1) : STORE[t][k] = q.lower[k]
        /\ \A t \in TIDs : STORE[t] = q.lower => t \in l.tids /\ v <= STORE[t][l.dim]
  BY <1>4
<1>6. c.dim = l.dim /\ c.position = At(l, v)
  BY <1>5, RestFacts
<1>7. PICK d, T, p, value :
           /\ d = l.dim /\ T = Group(l.tids, l.dim, v)
           /\ p = PointerAt(c.position) /\ value = q.lower[l.dim]
  OBVIOUS
<1>8. /\ ValueAt(c.position) = v
      /\ v \in Nat /\ d \in 1..(NUM_DIM - 1) /\ d \in Dims
      /\ l.tids \in (SUBSET TIDs) \ {{}}
      /\ Leads(p, T, d + 1) /\ SharePrefix(T, d + 1)
  BY <1>2, <1>6, <1>7, EntryRead
<1>9. EndsAt(c.position) <=> IsLastValue(l.tids, l.dim, v)
  BY <1>2, <1>6, EntryRead
<1>10. value \in Nat /\ query' = q /\ q.op = "exact"
  BY <1>1, <1>2, <1>3, <1>7, <1>8, StoreAssumption DEF Points
<1>11. CASE /\ IsAt(value, c.position)
            /\ Continue(d + 1, p, q.lower)
  <2>1. value = v
    BY <1>8, <1>11 DEF IsAt
  <2>2. PICK e \in 1..NUM_DIM : e = d + 1
    BY <1>8, DimFacts
  <2>3. \A t \in T : \A k \in 0..(e - 1) : STORE[t][k] = q.lower[k]
    <3>1. \A k \in 0..(e - 1) : k \in 0..(d - 1) \/ k = d
      BY <1>8, <2>2
    <3>2. \A t \in T : t \in l.tids /\ STORE[t][d] = q.lower[d]
      BY <1>7, <2>1 DEF Group
    <3>3. QED
      BY <1>5, <1>7, <3>1, <3>2
  <2>4. Leads(p, T, e) /\ SharePrefix(T, e) /\ Continue(e, p, q.lower)
    BY <1>8, <1>11, <2>2
  <2>5. QED
    BY <1>1, <1>2, <1>10, <2>3, <2>4, ContinueStep
<1>12. CASE /\ ~IsAt(value, c.position)
            /\ EndsAt(c.position) \/ value < ValueAt(c.position)
            /\ stage' = "done" /\ result' = <<NOT_FOUND>> /\ calls' = {}
  <2>1. value # v /\ (IsLastValue(l.tids, l.dim, v) \/ value < v)
    BY <1>8, <1>9, <1>12 DEF IsAt
  <2>2. ASSUME NEW t \in TIDs
        PROVE  STORE[t] # q.lower
    <3>1. SUFFICES ASSUME STORE[t] = q.lower
                   PROVE  FALSE
      OBVIOUS
    <3>2. t \in l.tids /\ v <= value
      BY <1>5, <1>7, <3>1
    <3>3. value \in ValuesOf(l.tids, l.dim)
      BY <1>7, <3>1, <3>2 DEF ValuesOf
    <3>4. value <= v \/ value < v
      BY <2>1, <3>3 DEF IsLastValue
    <3>5. QED
      BY <1>8, <1>10, <2>1, <3>2, <3>4
  <2>3. Scan(STORE, q) = {}
    <3>1. \A t \in Scan(STORE, q) : t \in TIDs
      BY DEF Scan, TIDs
    <3>2. QED
      BY <1>2, <1>10, <2>2, <3>1, ExactScan
  <2>4. PICK a \in TIDs \cup {NOT_FOUND} : a = NOT_FOUND
    OBVIOUS
  <2>5. result' = <<a>>
    BY <1>12, <2>4
  <2>6. stage' = "done" /\ calls' = {}
    BY <1>12
  <2>7. QED
    BY <1>1, <1>2, <1>10, <2>3, <2>4, <2>5, <2>6, ExactDone
<1>13. CASE /\ ~IsAt(value, c.position)
            /\ ~EndsAt(c.position) /\ value >= ValueAt(c.position)
            /\ calls' = {[c EXCEPT !.position = @ + 3]}
            /\ stage' = stage /\ result' = result
  <2>1. PICK b : b = [c EXCEPT !.position = @ + 3]
    OBVIOUS
  <2>2. PICK w \in ValuesOf(l.tids, l.dim) :
               /\ Standing(b, l, w)
               /\ v < w /\ \A u \in ValuesOf(l.tids, l.dim) : v < u => w <= u
    BY <1>2, <1>5, <1>9, <1>13, <2>1, NextCall
  <2>3. value # v /\ value >= v
    BY <1>8, <1>13 DEF IsAt
  <2>4. v < value
    BY <1>8, <1>10, <2>3
  <2>5. ASSUME NEW t \in TIDs, STORE[t] = q.lower
        PROVE  t \in l.tids /\ w <= STORE[t][l.dim]
    <3>1. t \in l.tids /\ STORE[t][l.dim] = value
      BY <1>5, <1>7, <2>5
    <3>2. value \in ValuesOf(l.tids, l.dim)
      BY <3>1 DEF ValuesOf
    <3>3. QED
      BY <2>2, <2>4, <3>1, <3>2
  <2>6. calls' = {b} /\ stage' = "exact" /\ result' = <<>>
    BY <1>1, <1>2, <1>13, <2>1
  <2>7. QED
    BY <1>1, <1>2, <1>5, <1>10, <2>2, <2>5, <2>6, ExactGoesOn
<1>14. QED
  <2>1. \/ /\ IsAt(value, c.position)
           /\ Continue(d + 1, p, q.lower)
        \/ /\ ~IsAt(value, c.position)
           /\ EndsAt(c.position) \/ value < ValueAt(c.position)
           /\ stage' = "done" /\ result' = <<NOT_FOUND>> /\ calls' = {}
        \/ /\ ~IsAt(value, c.position)
           /\ ~EndsAt(c.position) /\ value >= ValueAt(c.position)
           /\ calls' = {[c EXCEPT !.position = @ + 3]}
           /\ stage' = stage /\ result' = result
    BY <1>3, <1>6, <1>7 DEF listContains
  <2>2. QED
    BY <1>11, <1>12, <1>13, <2>1

\* Outside the queries nothing is asked.
LEMMA IdleStep ==
  ASSUME QueryInv, stage' \in {"build", "ready"},
         offset' = offset, calls' = {}, query' = NoQuery, result' = <<>>
  PROVE  QueryInv'
<1>1. AskInv'
  BY EmptySeq DEF QueryInv, AskInv
<1>2. MatchInv' /\ ExactInv' /\ MatchIsScan' /\ ExactMatchIsScan'
  BY DEF MatchInv, ExactInv, MatchIsScan, ExactMatchIsScan
<1>3. QED
  BY <1>1, <1>2 DEF QueryInv

\* Nothing changes.
LEMMA QueryStutter ==
  ASSUME QueryInv, UNCHANGED vars
  PROVE  QueryInv'
<1>1. /\ UNCHANGED elfVars /\ stage' = stage /\ offset' = offset
      /\ calls' = calls /\ query' = query /\ result' = result
  BY DEF vars, queryVars
<1>2. /\ TIDs' = TIDs /\ STORE' = STORE /\ MAX_FIRST_DIM' = MAX_FIRST_DIM
      /\ LastRowIsKept' = LastRowIsKept /\ lists' = lists
      /\ \A T, d : ValuesOf(T, d)' = ValuesOf(T, d)
  BY <1>1, QuerySame DEF elfVars
<1>3. \A c, l, v : Standing(c, l, v)' <=> Standing(c, l, v)
  BY <1>1, QuerySame
<1>4. \A c : Stands(c)' <=> Stands(c)
  BY <1>1, QuerySame
<1>5. \A c : Rest(c)' = Rest(c)
  BY <1>1, QuerySame
<1>6. /\ \A t, d : Qualifies(t, d)' <=> Qualifies(t, d)
      /\ \A r, P : Found(r, P)' <=> Found(r, P)
      /\ Scan(STORE, query)' = Scan(STORE, query)
  BY <1>1, AnswerSame
<1>7. AskInv'
  BY <1>1, <1>2, <1>4 DEF QueryInv, AskInv
<1>8. MatchInv'
  <2>1. Ahead' = Ahead
    BY <1>1, <1>2 DEF Ahead
  <2>2. Pending' = Pending
    BY <1>1, <1>5, <2>1 DEF Pending, Left
  <2>3. stage = "match" => Found(result, Pending)'
    <3>1. PICK r, P : r = result /\ P = Pending
      OBVIOUS
    <3>2. stage = "match" => Found(r, P)'
      BY <1>6, <3>1 DEF QueryInv, MatchInv
    <3>3. QED
      BY <1>1, <2>2, <3>1, <3>2
  <2>4. QED
    BY <1>1, <1>2, <1>5, <1>6, <2>1, <2>3 DEF QueryInv, MatchInv
<1>9. ExactInv'
  BY <1>1, <1>2, <1>3 DEF QueryInv, ExactInv
<1>10. MatchIsScan' /\ ExactMatchIsScan'
  BY <1>1, <1>2, <1>6 DEF QueryInv, MatchIsScan, ExactMatchIsScan
<1>11. QED
  BY <1>7, <1>8, <1>9, <1>10 DEF QueryInv

-----------------------------------------------------------------------------
\* Nothing has been asked.
LEMMA QueryInit == Init => QueryInv
<1>1. SUFFICES ASSUME Init
               PROVE  QueryInv
  OBVIOUS
<1>2. /\ stage = "new" /\ offset = 0 /\ calls = {} /\ query = NoQuery
      /\ result = <<>>
  BY <1>1 DEF Init
<1>3. AskInv
  BY <1>2, EmptySeq DEF AskInv
<1>4. MatchInv /\ ExactInv /\ MatchIsScan /\ ExactMatchIsScan
  BY <1>2 DEF MatchInv, ExactInv, MatchIsScan, ExactMatchIsScan
<1>5. QED
  BY <1>3, <1>4 DEF QueryInv

\* Each step of a query keeps its invariant, and the build asks nothing.
LEMMA QueryNext == BuildInv /\ QueryInv /\ [Next]_vars => QueryInv'
<1>1. SUFFICES ASSUME BuildInv, QueryInv, [Next]_vars
               PROVE  QueryInv'
  OBVIOUS
<1>2. stage \in {"new", "build", "ready"} =>
        calls = {} /\ result = <<>> /\ query = NoQuery
  BY <1>1 DEF QueryInv, AskInv
<1>3. CASE buildFromDataSorting
  <2>1. /\ stage = "new" /\ stage' = "build"
        /\ offset' = offset /\ calls' = calls /\ query' = query /\ result' = result
    BY <1>3 DEF buildFromDataSorting, queryVars
  <2>2. QED
    BY <1>1, <1>2, <2>1, IdleStep
<1>4. ASSUME NEW j \in todo,
             createDimListSorting(j) \/ linearize_elf_mono(j) \/ linearize_equal(j)
      PROVE  QueryInv'
  <2>1. /\ stage = "build" /\ stage' = stage
        /\ offset' = offset /\ calls' = calls /\ query' = query /\ result' = result
    BY <1>4 DEF createDimListSorting, linearize_elf_mono, linearize_equal, Wrote,
       queryVars
  <2>2. QED
    BY <1>1, <1>2, <2>1, IdleStep
<1>5. CASE Built
  <2>1. /\ stage = "build" /\ stage' = "ready"
        /\ offset' = offset /\ calls' = calls /\ query' = query /\ result' = result
    BY <1>5 DEF Built, queryVars
  <2>2. QED
    BY <1>1, <1>2, <2>1, IdleStep
<1>6. ASSUME NEW q \in Queries, Ask(q) \/ exactMatch(q)
      PROVE  QueryInv'
  BY <1>1, <1>6, AskStep, ExactStep
<1>7. CASE NextPointer
  BY <1>1, <1>7, PointerStep
<1>8. ASSUME NEW c \in calls, NextEntry(c) \/ listContains(c)
      PROVE  QueryInv'
  BY <1>1, <1>8, EntryStep, ContainsStep
<1>9. CASE Return
  BY <1>1, <1>9, ReturnStep
<1>10. CASE Forget
  <2>1. /\ stage = "done" /\ stage' = "ready" /\ query' = NoQuery
        /\ result' = <<>> /\ offset' = offset /\ calls' = calls
    BY <1>10 DEF Forget
  <2>2. calls = {}
    BY <1>1, <2>1 DEF QueryInv, AskInv
  <2>3. QED
    BY <1>1, <2>1, <2>2, IdleStep
<1>11. CASE UNCHANGED vars
  BY <1>1, <1>11, QueryStutter
<1>12. QED
  BY <1>1, <1>3, <1>4, <1>5, <1>6, <1>7, <1>8, <1>9, <1>10, <1>11 DEF Next

\* The invariants of the array and of the queries.
LEMMA ElfInvariant == Spec => []ElfInv
<1>1. Init => ElfInv
  BY BuildInit, QueryInit DEF ElfInv
<1>2. ElfInv /\ [Next]_vars => ElfInv'
  BY BuildNext, QueryNext DEF ElfInv
<1>3. QED
  BY <1>1, <1>2, PTL DEF Spec

\* The queries read only words that have been written, at the positions where
\* the build has put an entry, whatever they ask and in whatever state.
THEOREM ElfTypeCorrect == Spec => []ElfTypeOK
<1>1. ElfInv => ElfTypeOK
  <2>1. SUFFICES ASSUME ElfInv
                 PROVE  ElfTypeOK
    OBVIOUS
  <2>2. BuildInv /\ QueryInv
    BY <2>1 DEF ElfInv
  <2>3. /\ stage \in {"new", "build", "ready", "match", "exact", "done"}
        /\ DOMAIN ELF \subseteq 0..(writePointer - 1)
        /\ \A p \in DOMAIN ELF : ELF[p] \in Nat
        /\ writePointer \in Nat /\ MAX_FIRST_DIM \in Nat
        /\ todo \subseteq [slot : 0..(writePointer - 2),
                           tids : (SUBSET TIDs) \ {{}}, dim : 1..NUM_DIM]
    BY <2>2 DEF BuildInv, WordsInv, StageInv
  <2>4. /\ offset \in Nat /\ result \in Seq(TIDs \cup {NOT_FOUND})
        /\ \A c \in calls : Stands(c)
    BY <2>2 DEF QueryInv, AskInv
  <2>5. query = NoQuery \/ query.op \in {"exact", "window", "partial"}
    <3>1. query = NoQuery \/ query \in Queries
      BY <2>2, <2>3 DEF QueryInv, AskInv
    <3>2. QED
      BY <3>1, StoreAssumption
  <2>6. ASSUME NEW c \in calls
        PROVE  c \in [dim : 1..(NUM_DIM - 1), position : DOMAIN ELF]
    <3>1. stage \in {"match", "exact"}
      BY <2>2, <2>6 DEF QueryInv, AskInv
    <3>2. todo = {}
      BY <2>2, <3>1 DEF BuildInv, StageInv
    <3>3. PICK l \in lists : \E v \in ValuesOf(l.tids, l.dim) : Standing(c, l, v)
      BY <2>4 DEF Stands
    <3>4. PICK v \in ValuesOf(l.tids, l.dim) : Standing(c, l, v)
      BY <3>3
    <3>5. At(l, v) \in DOMAIN ELF /\ l.dim \in 1..(NUM_DIM - 1)
      BY <2>2, <3>2, EntryRead
    <3>6. QED
      BY <3>4, <3>5 DEF Standing
  <2>7. QED
    BY <2>3, <2>4, <2>5, <2>6 DEF ElfTypeOK
<1>2. QED
  BY ElfInvariant, <1>1, PTL

\* Every word below the writePointer is written in the end, and the allocation
\* is large enough for every table.
THEOREM Packed == Spec => []ElfIsPacked
<1>1. ElfInv => ElfIsPacked
  <2>1. SUFFICES ASSUME ElfInv
                 PROVE  ElfIsPacked
    OBVIOUS
  <2>2. BuildInv
    BY <2>1 DEF ElfInv
  <2>3. writePointer <= Capacity
    BY <2>2, PositionFacts
  <2>4. stage \notin {"new", "build"} => DOMAIN ELF = 0..(writePointer - 1)
    BY <2>2 DEF BuildInv, PackInv, Slots, StageInv
  <2>5. QED
    BY <2>3, <2>4 DEF ElfIsPacked
<1>2. QED
  BY ElfInvariant, <1>1, PTL

\* windowQuery and partialMatch answer as the scan does.
THEOREM MatchCorrect == Spec => []MatchIsScan
<1>1. ElfInv => MatchIsScan
  BY DEF ElfInv, QueryInv
<1>2. QED
  BY ElfInvariant, <1>1, PTL

\* exactMatch answers as the scan does.
THEOREM ExactMatchCorrect == Spec => []ExactMatchIsScan
<1>1. ElfInv => ExactMatchIsScan
  BY DEF ElfInv, QueryInv
<1>2. QED
  BY ElfInvariant, <1>1, PTL
=============================================================================
