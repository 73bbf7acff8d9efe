--------------------------- MODULE NodeLevelMatch ---------------------------
(***************************************************************************)
(* Elf_final64_nodelevel_enqueue::partialMatch and the tasks it spreads    *)
(* over its ThreadPool (src/Elf_final64_nodelevel_enqueue.h).              *)
(*                                                                         *)
(* The index is read only during a query and is abstracted to a graph of   *)
(* nodes: dimension lists, whose entries point to nodes, and mono lists,   *)
(* which hold the rest of one row and its TID.  How the values of a node   *)
(* compare with the predicates of the query is Verdict and Passes.  A walk *)
(* over a list touches nothing that another thread writes, apart from its  *)
(* calls of submit, so the entries it will pass on are computed at once.   *)
(*                                                                         *)
(* A task runs partialMatch1 or partialMatchMonoList on one node and is    *)
(* named after it.  Main calls partialMatch once for each query; the pool  *)
(* lives on between the calls and nobody shuts it down.                    *)
(***************************************************************************)
EXTENDS ThreadPool

CONSTANTS Main,      \* the thread that calls partialMatch
          Queries,   \* for each call, the list of pointers it collects from
                     \* the first dimension, in the order of their offsets
          Lists,     \* dimension lists; Queries are lists of their own kind
          Entries,   \* what the entries of a list point to, in order
          Verdict,   \* how the value of an entry compares with the bounds
          Passes,    \* mono lists whose values are all inside the bounds
          Garbage    \* memory of RESULTS that nobody has written

ASSUME MatchAssumption ==
  /\ Clients = {Main}
  /\ Queries \in Seq(Lists) /\ Queries # <<>>
  /\ Entries \in [Lists -> Seq(Tasks)]
  /\ \A l \in Lists : Entries[l] # <<>>
  /\ Verdict \in [Tasks -> {"below", "in", "above"}]
  /\ Passes \subseteq Tasks \ Lists
  /\ Garbage \notin Tasks

\* The index is a tree.  A task stands for one visit of a node by one call, so
\* one entry leads to it, no call walks another's pointers, and no list leads
\* back to itself: each set of nodes has one that no list of the set leads to.
\* The values of a list ascend: after one above the bounds none is inside.
ASSUME TreeAssumption ==
  /\ \A l, m \in Lists : \A j \in DOMAIN Entries[l], k \in DOMAIN Entries[m] :
       Entries[l][j] = Entries[m][k] => l = m /\ j = k
  /\ Range(Queries) \cap Tasks = {} /\ IsInjective(Queries)
  /\ \A S \in (SUBSET Tasks) \ {{}} :
       \E n \in S : \A l \in S \cap Lists : n \notin Range(Entries[l])
  /\ \A l \in Lists \cap Tasks : \A j, k \in DOMAIN Entries[l] :
       j < k /\ Verdict[Entries[l][j]] = "above" => Verdict[Entries[l][k]] # "in"

VARIABLES at,           \* what each thread does in this query
          list,         \* the list it walks
          left,         \* the entries of it that it has still to submit
          buffer,       \* the node it will process itself
          slot,         \* where its RESULTS->push_back is going to write
          future,       \* what submit returned, not yet in results_get
          holder,       \* the thread that holds values_mutex
          results_get,  \* vector<std::future<void>> results_get
          i,            \* the future Main looks at, from 1
          results,      \* vector<uint32_t> *resultTIDs
          pushed,       \* mono lists whose TID was given to push_back
          query         \* the number of the call

walkVars == <<at, list, left, buffer>>
futureVars == <<future, holder, results_get, i>>
resultVars == <<slot, results, pushed>>
vars == <<poolVars, walkVars, futureVars, resultVars, query>>
-----------------------------------------------------------------------------
\* The entries of list l that the while loop and the last test find inside
\* the bounds; the loop breaks at the first value above them.
InRange(l) == {k \in DOMAIN Entries[l] :
                 /\ Verdict[Entries[l][k]] = "in"
                 /\ \A j \in 1..k : Verdict[Entries[l][j]] # "above"}

\* The first of them, unless it is the last entry of the list, is kept in
\* buffer and not submitted.
Buffered(l) == {k \in InRange(l) : /\ k # Len(Entries[l])
                                   /\ \A j \in InRange(l) : k <= j}

\* Variant: the buffered entry is submitted too.
EnterSubmittingAll(h, n) ==
  IF n \in Lists
  THEN /\ at' = [at EXCEPT ![h] = "list"]
       /\ list' = [list EXCEPT ![h] = n]
       /\ left' = [left EXCEPT ![h] = InRange(n)]
       /\ \/ /\ Buffered(n) = {}
             /\ buffer' = [buffer EXCEPT ![h] = NoTask]
          \/ \E k \in Buffered(n) :
               buffer' = [buffer EXCEPT ![h] = Entries[n][k]]
  ELSE /\ at' = [at EXCEPT ![h] = "mono"]
       /\ buffer' = [buffer EXCEPT ![h] = n]
       /\ UNCHANGED <<list, left>>

\* Thread h begins partialMatch1 on a list or partialMatchMonoList on a row.
Enter(h, n) ==
  IF n \in Lists
  THEN /\ at' = [at EXCEPT ![h] = "list"]
       /\ list' = [list EXCEPT ![h] = n]
       /\ left' = [left EXCEPT ![h] = InRange(n) \ Buffered(n)]
       /\ \/ /\ Buffered(n) = {}
             /\ buffer' = [buffer EXCEPT ![h] = NoTask]
          \/ \E k \in Buffered(n) :
               buffer' = [buffer EXCEPT ![h] = Entries[n][k]]
  ELSE /\ at' = [at EXCEPT ![h] = "mono"]
       /\ buffer' = [buffer EXCEPT ![h] = n]
       /\ UNCHANGED <<list, left>>

\* partialMatch walks the collected pointers like a list whose first entry is
\* buffered, whatever its kind, and whose other entries are all submitted.
FirstOf(q) == Entries[Queries[q]][1]
OthersOf(q) == DOMAIN Entries[Queries[q]] \ {1}

MatchInit ==
  /\ Init
  /\ at = [h \in Callers |-> IF h = Main THEN "list" ELSE "idle"]
  /\ list = [h \in Callers |-> Queries[1]]
  /\ left = [h \in Callers |-> IF h = Main THEN OthersOf(1) ELSE {}]
  /\ buffer = [h \in Callers |-> IF h = Main THEN FirstOf(1) ELSE NoTask]
  /\ slot = [h \in Callers |-> 0]
  /\ future = [h \in Callers |-> NoTask]
  /\ holder = NoThread
  /\ results_get = <<>>
  /\ i = 1
  /\ results = <<>>
  /\ pushed = {}
  /\ query = 1
-----------------------------------------------------------------------------
\* Variant: no lock_guard.
LockValuesUnlocked(h) ==
  /\ at[h] = "list"
  /\ left[h] # {}
  /\ holder' = h
  /\ UNCHANGED <<poolVars, walkVars, future, results_get, i, resultVars, query>>

\* std::lock_guard<std::mutex> lk(values_mutex), before a submit.
LockValues(h) ==
  /\ at[h] = "list"
  /\ left[h] # {}
  /\ holder = NoThread
  /\ holder' = h
  /\ UNCHANGED <<poolVars, walkVars, future, results_get, i, resultVars, query>>

\* pool->submit(...) of the next entry, up to the enqueue.
SubmitEntry(h) ==
  /\ holder = h
  /\ future[h] = NoTask
  /\ \E k \in left[h] :
       /\ \A j \in left[h] : k <= j
       /\ Enqueue(h, Entries[list[h]][k])
       /\ left' = [left EXCEPT ![h] = @ \ {k}]
       /\ future' = [future EXCEPT ![h] = Entries[list[h]][k]]
  /\ UNCHANGED <<at, list, buffer, holder, results_get, i, resultVars, query>>

\* The end of submit.
Notify(h) ==
  /\ NotifyOne(h)
  /\ UNCHANGED <<walkVars, futureVars, resultVars, query>>

\* Variants: the future is pushed before submit has returned it; the lock is
\* never released.
PushFutureEarly(h) ==
  /\ holder = h
  /\ results_get' = Append(results_get, future[h])
  /\ future' = [future EXCEPT ![h] = NoTask]
  /\ holder' = NoThread
  /\ UNCHANGED <<poolVars, walkVars, i, resultVars, query>>

PushFutureHolding(h) ==
  /\ holder = h
  /\ future[h] # NoTask
  /\ notifying[h] = NoTask
  /\ results_get' = Append(results_get, future[h])
  /\ future' = [future EXCEPT ![h] = NoTask]
  /\ UNCHANGED <<poolVars, walkVars, holder, i, resultVars, query>>

\* results_get.push_back(...), and the end of the lock_guard's scope.
PushFuture(h) ==
  /\ holder = h
  /\ future[h] # NoTask
  /\ notifying[h] = NoTask
  /\ results_get' = Append(results_get, future[h])
  /\ future' = [future EXCEPT ![h] = NoTask]
  /\ holder' = NoThread
  /\ UNCHANGED <<poolVars, walkVars, i, resultVars, query>>

\* Variant: the test of buffer at the end of partialMatch1 is missing.
EndOfListForgetting(h) ==
  /\ at[h] = "list"
  /\ left[h] = {}
  /\ holder # h
  /\ at' = [at EXCEPT ![h] = "idle"]
  /\ UNCHANGED <<poolVars, list, left, buffer, futureVars, resultVars, query>>

\* The list is walked to its end: process the buffered node, or return.
EndOfList(h) ==
  /\ at[h] = "list"
  /\ left[h] = {}
  /\ holder # h
  /\ \/ buffer[h] # NoTask /\ Enter(h, buffer[h])
     \/ /\ buffer[h] = NoTask
        /\ at' = [at EXCEPT ![h] = "idle"]
        /\ UNCHANGED <<list, left, buffer>>
  /\ UNCHANGED <<poolVars, futureVars, resultVars, query>>

\* partialMatchMonoList tests the values of the row: return, or begin
\* RESULTS->push_back by reading where the vector ends.
TestRow(h) ==
  /\ at[h] = "mono"
  /\ \/ /\ buffer[h] \in Passes
        /\ slot' = [slot EXCEPT ![h] = Len(results) + 1]
        /\ at' = [at EXCEPT ![h] = "push"]
     \/ /\ buffer[h] \notin Passes
        /\ at' = [at EXCEPT ![h] = "idle"]
        /\ UNCHANGED slot
  /\ UNCHANGED <<poolVars, list, left, buffer, futureVars, results, pushed,
                 query>>

\* The vector after a push_back that wrote tid to place s and left length n.
Stored(r, tid, s, n) == [k \in 1..n |-> IF k = s THEN tid
                                        ELSE IF k <= Len(r) THEN r[k]
                                        ELSE Garbage]

\* The rest of push_back: store the TID and advance the end.  No lock is held,
\* and the end may be advanced from the value read before or from the present
\* one.  (A reallocation, which makes it worse, is left out.)
PushTID(h) ==
  /\ at[h] = "push"
  /\ \E n \in {slot[h], Len(results) + 1} :
       results' = Stored(results, buffer[h], slot[h], n)
  /\ pushed' = pushed \cup {buffer[h]}
  /\ at' = [at EXCEPT ![h] = "idle"]
  /\ UNCHANGED <<poolVars, list, left, buffer, slot, futureVars, query>>
-----------------------------------------------------------------------------
\* A worker's own steps; with a dequeued task it begins to process its node.
Work(w) ==
  \/ /\ TestShutdown(w) \/ LockAndCheck(w) \/ Wait(w) \/ Relock(w)
     /\ UNCHANGED <<walkVars, futureVars, resultVars, query>>
  \/ /\ Dequeue(w)
     /\ IF m_queue = <<>> THEN UNCHANGED walkVars ELSE Enter(w, Head(m_queue))
     /\ UNCHANGED <<futureVars, resultVars, query>>
  \/ /\ at[w] = "idle"
     /\ Finish(w)
     /\ UNCHANGED <<walkVars, futureVars, resultVars, query>>

WakeUp(w) ==
  /\ SpuriousWakeup(w)
  /\ UNCHANGED <<walkVars, futureVars, resultVars, query>>

\* Variant: the futures are not waited for.
DrainWithoutWaiting ==
  /\ at[Main] = "idle"
  /\ i <= Len(results_get)
  /\ i' = i + 1
  /\ UNCHANGED <<poolVars, walkVars, future, holder, results_get, resultVars,
                 query>>

\* Main spins on results_get[i] and, when it is ready, takes the next one.
Drain ==
  /\ at[Main] = "idle"
  /\ i <= Len(results_get)
  /\ results_get[i] \in ready
  /\ i' = i + 1
  /\ UNCHANGED <<poolVars, walkVars, future, holder, results_get, resultVars,
                 query>>

\* The loop over results_get ends and partialMatch returns resultTIDs.
Return ==
  /\ at[Main] = "idle"
  /\ i > Len(results_get)
  /\ at' = [at EXCEPT ![Main] = "returned"]
  /\ UNCHANGED <<poolVars, list, left, buffer, futureVars, resultVars, query>>

\* The caller has deleted resultTIDs and calls partialMatch again, which
\* clears results_get and collects the pointers.
NextQuery ==
  /\ at[Main] = "returned"
  /\ query < Len(Queries)
  /\ query' = query + 1
  /\ at' = [at EXCEPT ![Main] = "list"]
  /\ list' = [list EXCEPT ![Main] = Queries[query + 1]]
  /\ left' = [left EXCEPT ![Main] = OthersOf(query + 1)]
  /\ buffer' = [buffer EXCEPT ![Main] = FirstOf(query + 1)]
  /\ results_get' = <<>>
  /\ i' = 1
  /\ results' = <<>>
  /\ UNCHANGED <<poolVars, slot, pushed, future, holder>>

Walk(h) == \/ LockValues(h) \/ SubmitEntry(h) \/ Notify(h) \/ PushFuture(h)
           \/ EndOfList(h) \/ TestRow(h) \/ PushTID(h)

MatchNext == \/ \E h \in Callers : Walk(h)
             \/ \E w \in Workers : Work(w) \/ WakeUp(w)
             \/ Drain \/ Return \/ NextQuery

MatchSpec == MatchInit /\ [][MatchNext]_vars

\* Every thread that can go on is scheduled in the end; that a blocked worker
\* wakes up by itself is not assumed.
MatchFairness == /\ \A h \in Callers : WF_vars(Walk(h))
                 /\ \A w \in Workers : WF_vars(Work(w))
                 /\ WF_vars(Drain) /\ WF_vars(Return) /\ WF_vars(NextQuery)

FairMatchSpec == MatchSpec /\ MatchFairness
-----------------------------------------------------------------------------
\* Every variable has its type.
MatchTypeOK ==
  /\ TypeOK
  /\ at \in [Callers -> {"idle", "list", "mono", "push", "returned"}]
  /\ list \in [Callers -> Lists]
  /\ left \in [Callers -> SUBSET Nat]
  /\ \A h \in Callers : left[h] \subseteq DOMAIN Entries[list[h]]
  /\ buffer \in [Callers -> Tasks \cup {NoTask}]
  /\ slot \in [Callers -> Nat]
  /\ future \in [Callers -> Tasks \cup {NoTask}]
  /\ holder \in Callers \cup {NoThread}
  /\ results_get \in Seq(Tasks)
  /\ i \in Nat
  /\ results \in Seq(Tasks \cup {Garbage})
  /\ pushed \in SUBSET Tasks
  /\ query \in DOMAIN Queries

\* When partialMatch returns, every task of the query has been run to its end
\* and no worker is inside one, although tasks go on submitting tasks while
\* Main drains results_get: nothing writes to resultTIDs after its caller
\* deletes it, nor reads pointerNextDim after the frame is gone.
WaitsForAll ==
  at[Main] = "returned" =>
    /\ submitted = ready
    /\ \A w \in Workers : at[w] = "idle"

\* results_get and the queue of the pool agree on the order of the tasks,
\* because values_mutex is held from the submit to the push_back.
PendingFuture == {future[h] : h \in Callers} \ {NoTask}
QueueIsLatestFutures ==
  \E pending \in {<<>>} \cup {<<t>> : t \in PendingFuture} :
    LET all == results_get \o pending
        first == Len(all) - Len(m_queue)
    IN /\ first >= 0
       /\ m_queue = SubSeq(all, first + 1, Len(all))

\* The rows that each query selects: in the least set of nodes that holds what
\* its pointers lead to and, with a list, the entries of the list inside the
\* bounds, whoever walks, in whatever order, and wherever the walk breaks off.
Closed == {S \in SUBSET Tasks :
             \A l \in S \cap Lists : \A n \in Range(Entries[l]) :
               Verdict[n] = "in" => n \in S}
Reach(N) == {n \in Tasks : \A S \in Closed : N \subseteq S => n \in S}
Roots(q) == Range(Entries[Queries[q]])
Selects == [q \in DOMAIN Queries |-> Passes \cap Reach(Roots(q))]

\* When partialMatch returns it has pushed each selected row and no other: the
\* buffered entry of a list is neither forgotten nor processed twice.
AllSelectedArePushed ==
  at[Main] = "returned" => pushed = UNION {Selects[q] : q \in 1..query}
PushedOnce == [][\A h \in Callers : PushTID(h) => buffer[h] \notin pushed]_vars

\* Main leaves the query, or it spins for ever because every worker sleeps
\* beside a queue that is not empty: there is no third way to hang, neither
\* through values_mutex nor through a future that nobody completes.
Finished == at[Main] = "returned" /\ query = Len(Queries)
ReturnsOrLosesWakeup == <>Finished \/ <>[](m_queue # <<>> /\ AllAsleep)

\* src/main.cpp:516-520 compares each parallel result with the sequential one
\* and exits with "RESULT DIDN'T MATCH FOR" when a TID of it is missing.
ResultMatchesSequential ==
  at[Main] = "returned" => Selects[query] \subseteq Range(results)
=============================================================================
