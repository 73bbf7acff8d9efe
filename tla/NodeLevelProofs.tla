--------------------------- MODULE NodeLevelProofs ---------------------------
(***************************************************************************)
(* Proofs about NodeLevelMatch, for any index, any sequence of queries and *)
(* any number of workers.                                                  *)
(***************************************************************************)
EXTENDS NodeLevelMatch, ThreadPoolProofs

Ats == {"idle", "list", "mono", "push", "returned"}

\* A thread in Main's place: only Main returns, and a worker processes a node
\* only inside the task that it runs.
PlaceInv == \A w \in Workers :
              /\ at[w] # "returned"
              /\ at[w] # "idle" => pc[w] = "run"

\* A future that is not yet in results_get belongs to the thread that holds
\* values_mutex, which is still walking a list, and is not its own task's.
FutureInv == \A h \in Callers :
               /\ future[h] # NoTask => holder = h
               /\ holder = h => at[h] = "list"
               /\ h \in Workers /\ future[h] # NoTask => future[h] # func[h]

\* Main has still to look at the future of every task that is not ready, or
\* some thread is about to append that future.
Ahead(t) == \E j \in DOMAIN results_get : j >= i /\ results_get[j] = t
DrainInv == /\ i \in 1..(Len(results_get) + 1)
            /\ \A t \in submitted \ ready :
                 Ahead(t) \/ \E h \in Callers : future[h] = t

\* What a thread pushes is a row that passes.
RowInv == \A h \in Callers : at[h] = "push" => buffer[h] \in Passes

MatchInv == /\ MatchTypeOK /\ IInv
            /\ PlaceInv /\ FutureInv /\ DrainInv /\ WaitsForAll
-----------------------------------------------------------------------------
LEMMA MainIsCaller == /\ Main \in Callers /\ Main \notin Workers
                      /\ Callers = {Main} \cup Workers
                      /\ NoThread \notin Callers
BY MatchAssumption, PoolAssumption DEF Callers

LEMMA EntriesType ==
  ASSUME NEW l \in Lists
  PROVE  /\ Entries[l] \in Seq(Tasks)
         /\ DOMAIN Entries[l] = 1..Len(Entries[l])
         /\ DOMAIN Entries[l] \subseteq Nat
         /\ 1 \in DOMAIN Entries[l]
         /\ \A k \in DOMAIN Entries[l] : Entries[l][k] \in Tasks
<1>1. Entries[l] \in Seq(Tasks) /\ Entries[l] # <<>>
  BY MatchAssumption
<1>2. Len(Entries[l]) \in Nat \ {0} /\ DOMAIN Entries[l] = 1..Len(Entries[l])
  BY <1>1, LenProperties, EmptySeq
<1>3. QED
  BY <1>1, <1>2

LEMMA EnterType ==
  ASSUME MatchTypeOK, NEW h \in Callers, NEW n \in Tasks, Enter(h, n)
  PROVE  /\ at' \in [Callers -> Ats]
         /\ list' \in [Callers -> Lists]
         /\ left' \in [Callers -> SUBSET Nat]
         /\ \A g \in Callers : left'[g] \subseteq DOMAIN Entries[list'[g]]
         /\ buffer' \in [Callers -> Tasks \cup {NoTask}]
         /\ \A g \in Callers \ {h} : at'[g] = at[g]
         /\ at'[h] \in {"list", "mono"}
<1> USE DEF MatchTypeOK, Ats
<1>1. CASE n \in Lists
  <2>1. InRange(n) \ Buffered(n) \subseteq DOMAIN Entries[n]
    BY DEF InRange
  <2>2. buffer' \in [Callers -> Tasks \cup {NoTask}]
    <3>1. CASE buffer' = [buffer EXCEPT ![h] = NoTask]
      BY <3>1
    <3>2. ASSUME NEW k \in Buffered(n),
                 buffer' = [buffer EXCEPT ![h] = Entries[n][k]]
          PROVE  buffer' \in [Callers -> Tasks \cup {NoTask}]
      <4>1. Entries[n][k] \in Tasks
        BY <1>1, EntriesType DEF Buffered, InRange
      <4>2. QED
        BY <3>2, <4>1
    <3>3. QED
      BY <1>1, <3>1, <3>2 DEF Enter
  <2>3. InRange(n) \ Buffered(n) \subseteq Nat
    BY <1>1, <2>1, EntriesType
  <2>4. /\ at' = [at EXCEPT ![h] = "list"]
        /\ list' = [list EXCEPT ![h] = n]
        /\ left' = [left EXCEPT ![h] = InRange(n) \ Buffered(n)]
    BY <1>1 DEF Enter
  <2>5. QED
    BY <1>1, <2>1, <2>2, <2>3, <2>4
<1>2. CASE n \notin Lists
  BY <1>2 DEF Enter
<1>3. QED
  BY <1>1, <1>2

LEMMA StartType ==
  ASSUME NEW q \in DOMAIN Queries
  PROVE  /\ Queries[q] \in Lists
         /\ FirstOf(q) \in Tasks
         /\ OthersOf(q) \subseteq DOMAIN Entries[Queries[q]]
         /\ OthersOf(q) \subseteq Nat
<1>1. Queries[q] \in Lists
  BY MatchAssumption, ElementOfSeq, LenProperties
<1>2. QED
  BY <1>1, EntriesType DEF FirstOf, OthersOf

LEMMA StoredType ==
  ASSUME NEW r \in Seq(Tasks \cup {Garbage}), NEW tid \in Tasks,
         NEW s \in Nat, NEW n \in Nat
  PROVE  Stored(r, tid, s, n) \in Seq(Tasks \cup {Garbage})
<1> DEFINE S == Tasks \cup {Garbage}
           e(k) == IF k = s THEN tid ELSE IF k <= Len(r) THEN r[k] ELSE Garbage
<1>1. Len(r) \in Nat /\ \A k \in 1..Len(r) : r[k] \in S
  BY LenProperties, ElementOfSeq
<1>2. \A k \in 1..n : e(k) \in S
  BY <1>1
<1>3. Stored(r, tid, s, n) \in [1..n -> S]
  BY <1>2 DEF Stored
<1>4. QED
  BY <1>3, SeqDef

-----------------------------------------------------------------------------
\* To the pool, a step of a query is one of its own steps or no step.
LEMMA PoolStep == MatchTypeOK /\ [MatchNext]_vars => [Next]_poolVars
<1> SUFFICES ASSUME MatchTypeOK, [MatchNext]_vars
             PROVE  Next \/ UNCHANGED poolVars
  OBVIOUS
<1>1. ASSUME NEW h \in Callers, Walk(h)
      PROVE  Next \/ UNCHANGED poolVars
  <2>1. CASE SubmitEntry(h)
    <3>1. PICK k \in left[h] : Enqueue(h, Entries[list[h]][k])
      BY <2>1 DEF SubmitEntry
    <3>2. Entries[list[h]][k] \in Tasks
      BY <3>1, EntriesType DEF MatchTypeOK
    <3>3. QED
      BY <3>1, <3>2 DEF Next
  <2>2. CASE Notify(h)
    BY <2>2 DEF Notify, Next
  <2>3. CASE LockValues(h) \/ PushFuture(h) \/ EndOfList(h) \/ TestRow(h)
             \/ PushTID(h)
    BY <2>3 DEF LockValues, PushFuture, EndOfList, TestRow, PushTID
  <2>4. QED
    BY <1>1, <2>1, <2>2, <2>3 DEF Walk
<1>2. ASSUME NEW w \in Workers, Work(w) \/ WakeUp(w)
      PROVE  Next
  BY <1>2 DEF Work, WakeUp, Next, WorkerStep
<1>3. CASE Drain \/ Return \/ NextQuery
  BY <1>3 DEF Drain, Return, NextQuery
<1>4. CASE UNCHANGED vars
  BY <1>4 DEF vars
<1>5. QED
  BY <1>1, <1>2, <1>3, <1>4 DEF MatchNext

-----------------------------------------------------------------------------
\* A thread that holds values_mutex runs a task that is not ready, or is Main.
LEMMA HolderRuns ==
  ASSUME MatchInv, NEW w \in Workers, at[w] # "idle"
  PROVE  /\ pc[w] = "run"
         /\ func[w] \in submitted \ ready
         /\ func[w] \in Tasks
<1>1. pc[w] = "run" /\ func[w] # NoTask
  BY DEF MatchInv, PlaceInv, IInv, FuncInv
<1>2. func[w] \in Running
  BY <1>1 DEF Running
<1>3. QED
  BY <1>1, <1>2 DEF MatchInv, IInv, Conservation, TypeOK

\* While partialMatch has returned no worker has a task.
LEMMA ReturnedQuiet ==
  ASSUME MatchInv, at[Main] = "returned"
  PROVE  /\ m_queue = <<>>
         /\ \A h \in Callers : holder # h
         /\ \A w \in Workers : at[w] = "idle" /\ pc[w] # "run"
<1>1. submitted = ready /\ \A w \in Workers : at[w] = "idle"
  BY DEF MatchInv, WaitsForAll
<1>2. Queued = {} /\ Running = {}
  BY <1>1 DEF MatchInv, IInv, Conservation
<1>3. m_queue = <<>>
  <2>1. SUFFICES ASSUME m_queue # <<>> PROVE FALSE
    OBVIOUS
  <2>2. m_queue \in Seq(Tasks) /\ 1 \in DOMAIN m_queue
    BY <2>1, EmptySeq, LenProperties DEF MatchInv, IInv, TypeOK
  <2>3. QED
    BY <1>2, <2>2 DEF Queued, Range
<1>4. \A w \in Workers : pc[w] # "run"
  BY <1>2 DEF Running, MatchInv, IInv, FuncInv
<1>5. \A h \in Callers : holder # h
  <2>1. ASSUME NEW h \in Callers
        PROVE  at[h] # "list"
    BY <1>1, MainIsCaller
  <2>2. QED
    BY <2>1 DEF MatchInv, FutureInv
<1>6. QED
  BY <1>1, <1>3, <1>4, <1>5

LEMMA LockValuesInv ==
  ASSUME MatchInv, IInv', NEW h \in Callers, LockValues(h)
  PROVE  MatchInv'
<1> USE DEF LockValues, MatchInv, poolVars, walkVars, resultVars
<1>1. MatchTypeOK'
  BY DEF MatchTypeOK, IInv
<1>2. PlaceInv'
  BY DEF PlaceInv
<1>3. FutureInv'
  BY MainIsCaller DEF FutureInv
<1>4. DrainInv'
  BY DEF DrainInv, Ahead
<1>5. WaitsForAll'
  BY DEF WaitsForAll
<1>6. QED
  BY <1>1, <1>2, <1>3, <1>4, <1>5

LEMMA SubmitEntryInv ==
  ASSUME MatchInv, IInv', NEW h \in Callers, SubmitEntry(h)
  PROVE  MatchInv'
<1> USE DEF MatchInv
<1>1. PICK k \in left[h] : /\ Enqueue(h, Entries[list[h]][k])
                           /\ left' = [left EXCEPT ![h] = @ \ {k}]
                           /\ future' = [future EXCEPT ![h] = Entries[list[h]][k]]
  BY DEF SubmitEntry
<1> DEFINE t == Entries[list[h]][k]
<1>2. t \in Tasks
  BY <1>1, EntriesType DEF MatchTypeOK
<1>3. /\ holder = h /\ future[h] = NoTask
      /\ UNCHANGED <<at, list, buffer, holder, results_get, i, resultVars, query>>
  BY DEF SubmitEntry
<1>4. /\ t \notin submitted /\ submitted' = submitted \cup {t}
      /\ UNCHANGED <<pc, func, ready>>
  BY <1>1 DEF Enqueue
<1>5. at[h] = "list"
  BY <1>3 DEF FutureInv
<1>6. MatchTypeOK'
  BY <1>1, <1>2, <1>3 DEF MatchTypeOK, IInv, resultVars
<1>7. PlaceInv'
  BY <1>3, <1>4 DEF PlaceInv
<1>8. FutureInv'
  <2>1. h \in Workers => func[h] # t
    BY <1>4, <1>5, HolderRuns
  <2>2. future'[h] = t /\ \A g \in Callers \ {h} : future'[g] = future[g]
    BY <1>1 DEF MatchTypeOK
  <2>3. UNCHANGED <<holder, at, func>>
    BY <1>3, <1>4
  <2>4. QED
    BY <1>3, <2>1, <2>2, <2>3 DEF FutureInv
<1>9. DrainInv'
  <2>1. future'[h] = t /\ \A g \in Callers \ {h} : future'[g] = future[g]
    BY <1>1 DEF MatchTypeOK
  <2>2. ASSUME NEW u \in Tasks
        PROVE  Ahead(u)' <=> Ahead(u)
    BY <1>3 DEF Ahead
  <2>3. ASSUME NEW u \in submitted' \ ready'
        PROVE  Ahead(u)' \/ \E g \in Callers : future'[g] = u
    <3>1. CASE u = t
      BY <2>1, <3>1
    <3>2. CASE u # t
      <4>1. u \in submitted \ ready /\ u # NoTask
        BY <1>4, <2>3, <3>2, PoolAssumption DEF IInv, TypeOK
      <4>2. CASE Ahead(u)
        BY <1>3, <4>2 DEF Ahead
      <4>3. ASSUME NEW g \in Callers, future[g] = u
            PROVE  future'[g] = u
        BY <1>3, <2>1, <4>1, <4>3
      <4>4. QED
        BY <4>1, <4>2, <4>3 DEF DrainInv
    <3>3. QED
      BY <3>1, <3>2
  <2>4. QED
    BY <1>3, <2>3 DEF DrainInv
<1>10. WaitsForAll'
  BY <1>3, <1>5, ReturnedQuiet DEF WaitsForAll
<1>11. QED
  BY <1>6, <1>7, <1>8, <1>9, <1>10

LEMMA NotifyInv ==
  ASSUME MatchInv, IInv', NEW h \in Callers, Notify(h)
  PROVE  MatchInv'
<1> USE DEF MatchInv, Notify, NotifyOne, walkVars, futureVars, resultVars
<1>1. \A w \in Workers : pc[w] = "run" => pc'[w] = "run"
  BY DEF Goto, Blocked, IInv, TypeOK
<1>2. MatchTypeOK'
  BY DEF MatchTypeOK, IInv
<1>3. PlaceInv'
  BY <1>1 DEF PlaceInv
<1>4. FutureInv' /\ DrainInv' /\ WaitsForAll'
  BY DEF FutureInv, DrainInv, Ahead, WaitsForAll
<1>5. QED
  BY <1>2, <1>3, <1>4

LEMMA PushFutureInv ==
  ASSUME MatchInv, IInv', NEW h \in Callers, PushFuture(h)
  PROVE  MatchInv'
<1> USE DEF MatchInv, PushFuture, poolVars, walkVars, resultVars
<1>1. /\ future[h] \in Tasks
      /\ results_get \in Seq(Tasks) /\ i \in 1..(Len(results_get) + 1)
  BY DEF MatchTypeOK, DrainInv
<1>2. /\ results_get' \in Seq(Tasks)
      /\ Len(results_get) \in Nat
      /\ Len(results_get') = Len(results_get) + 1
      /\ \A j \in DOMAIN results_get :
           j \in DOMAIN results_get' /\ results_get'[j] = results_get[j]
      /\ Len(results_get) + 1 \in DOMAIN results_get'
      /\ results_get'[Len(results_get) + 1] = future[h]
  BY <1>1, AppendProperties, LenProperties
<1>3. MatchTypeOK'
  BY <1>2 DEF MatchTypeOK, IInv
<1>4. PlaceInv'
  BY DEF PlaceInv
<1>5. FutureInv'
  <2>1. holder' = NoThread /\ future' = [future EXCEPT ![h] = NoTask]
        /\ at' = at /\ func' = func
    OBVIOUS
  <2>2. \A g \in Callers : future[g] # NoTask => g = h
    BY DEF FutureInv
  <2>3. \A g \in Callers : future'[g] = NoTask
    BY <2>1, <2>2 DEF MatchTypeOK
  <2>4. QED
    BY <2>1, <2>3, MainIsCaller DEF FutureInv
<1>6. DrainInv'
  <2>1. i' \in 1..(Len(results_get') + 1)
    BY <1>1, <1>2
  <2>2. \E j \in DOMAIN results_get' : j >= i' /\ results_get'[j] = future[h]
    BY <1>1, <1>2
  <2>3. ASSUME NEW t, Ahead(t)
        PROVE  \E j \in DOMAIN results_get' : j >= i' /\ results_get'[j] = t
    BY <1>2, <2>3 DEF Ahead
  <2>4. ASSUME NEW g \in Callers, g # h
        PROVE  future'[g] = future[g]
    BY <2>4 DEF MatchTypeOK
  <2>5. ASSUME NEW t \in submitted \ ready
        PROVE  Ahead(t)' \/ \E g \in Callers : future'[g] = t
    <3>1. CASE Ahead(t)
      BY <2>3, <3>1 DEF Ahead
    <3>2. ASSUME NEW g \in Callers, future[g] = t
          PROVE  Ahead(t)' \/ future'[g] = t
      BY <2>2, <2>4, <3>2 DEF Ahead
    <3>3. QED
      BY <3>1, <3>2 DEF DrainInv
  <2>6. QED
    BY <2>1, <2>5 DEF DrainInv
<1>7. WaitsForAll'
  BY DEF WaitsForAll
<1>8. QED
  BY <1>3, <1>4, <1>5, <1>6, <1>7

\* A step in which thread h only goes on with its node, holding no lock.
LEMMA WalkOnInv ==
  ASSUME MatchInv, IInv', NEW h \in Callers, MatchTypeOK',
         at[h] \in {"list", "mono", "push"}, holder # h,
         \A g \in Callers \ {h} : at'[g] = at[g],
         at'[h] # "returned",
         UNCHANGED <<poolVars, futureVars>>
  PROVE  MatchInv'
<1> USE DEF MatchInv, poolVars, futureVars
<1>1. PlaceInv'
  BY DEF PlaceInv, Callers
<1>2. FutureInv'
  BY DEF FutureInv
<1>3. DrainInv'
  BY DEF DrainInv, Ahead
<1>4. WaitsForAll'
  BY MainIsCaller DEF WaitsForAll
<1>5. QED
  BY <1>1, <1>2, <1>3, <1>4

LEMMA EndOfListInv ==
  ASSUME MatchInv, IInv', NEW h \in Callers, EndOfList(h)
  PROVE  MatchInv'
<1> USE DEF EndOfList
<1>1. CASE buffer[h] # NoTask /\ Enter(h, buffer[h])
  <2>1. buffer[h] \in Tasks
    BY <1>1 DEF MatchInv, MatchTypeOK
  <2>2. MatchTypeOK'
    BY <1>1, <2>1, EnterType
       DEF MatchInv, MatchTypeOK, IInv, futureVars, resultVars, Ats
  <2>3. at'[h] # "returned" /\ \A g \in Callers \ {h} : at'[g] = at[g]
    BY <1>1, <2>1, EnterType DEF MatchInv
  <2>4. QED
    BY <2>2, <2>3, WalkOnInv
<1>2. CASE buffer[h] = NoTask /\ at' = [at EXCEPT ![h] = "idle"]
           /\ UNCHANGED <<list, left, buffer>>
  <2>1. MatchTypeOK'
    BY <1>2 DEF MatchInv, MatchTypeOK, IInv, futureVars, resultVars
  <2>2. at'[h] # "returned" /\ \A g \in Callers \ {h} : at'[g] = at[g]
    BY <1>2 DEF MatchInv, MatchTypeOK
  <2>3. QED
    BY <2>1, <2>2, WalkOnInv
<1>3. QED
  BY <1>1, <1>2

LEMMA TestRowInv ==
  ASSUME MatchInv, IInv', NEW h \in Callers, TestRow(h)
  PROVE  MatchInv'
<1> USE DEF TestRow
<1>0. Len(results) + 1 \in Nat
  BY LenProperties DEF MatchInv, MatchTypeOK
<1>1. MatchTypeOK'
  BY <1>0, ZenonT(30) DEF MatchInv, MatchTypeOK, IInv, futureVars
<1>2. at'[h] # "returned" /\ \A g \in Callers \ {h} : at'[g] = at[g]
  BY DEF MatchInv, MatchTypeOK
<1>3. holder # h
  BY DEF MatchInv, FutureInv
<1>4. QED
  BY <1>1, <1>2, <1>3, WalkOnInv

LEMMA PushTIDInv ==
  ASSUME MatchInv, RowInv, IInv', NEW h \in Callers, PushTID(h)
  PROVE  MatchInv'
<1> USE DEF PushTID
<1>1. results' \in Seq(Tasks \cup {Garbage})
  <2>1. /\ results \in Seq(Tasks \cup {Garbage})
        /\ slot[h] \in Nat /\ Len(results) + 1 \in Nat
        /\ buffer[h] \in Tasks
    BY LenProperties, MatchAssumption DEF MatchInv, MatchTypeOK, RowInv
  <2>2. PICK n \in {slot[h], Len(results) + 1} :
          results' = Stored(results, buffer[h], slot[h], n)
    OBVIOUS
  <2>3. QED
    BY <2>1, <2>2, StoredType
<1>2. MatchTypeOK'
  BY <1>1, MatchAssumption DEF MatchInv, MatchTypeOK, RowInv, IInv, futureVars
<1>3. at'[h] # "returned" /\ \A g \in Callers \ {h} : at'[g] = at[g]
  BY DEF MatchInv, MatchTypeOK
<1>4. holder # h
  BY DEF MatchInv, FutureInv
<1>5. QED
  BY <1>2, <1>3, <1>4, WalkOnInv
-----------------------------------------------------------------------------
LEMMA WorkInv ==
  ASSUME MatchInv, IInv', NEW w \in Workers, Work(w) \/ WakeUp(w)
  PROVE  MatchInv'
<1> USE DEF MatchInv
<1>1. w \in Callers /\ pc \in [Workers -> Labels] /\ func \in [Workers -> Tasks \cup {NoTask}]
  BY DEF Callers, IInv, TypeOK
<1>2. CASE /\ \/ TestShutdown(w) \/ LockAndCheck(w) \/ Wait(w) \/ Relock(w)
              \/ SpuriousWakeup(w)
           /\ UNCHANGED <<walkVars, futureVars, resultVars, query>>
  <2> USE DEF walkVars, futureVars, resultVars
  <2>1. /\ pc[w] # "run" /\ \A v \in Workers \ {w} : pc'[v] = pc[v]
        /\ UNCHANGED <<func, submitted, ready>>
    BY <1>1, <1>2 DEF TestShutdown, LockAndCheck, Wait, Relock, SpuriousWakeup,
                      Goto
  <2>2. MatchTypeOK'
    BY <1>2 DEF MatchTypeOK, IInv
  <2>3. PlaceInv'
    BY <1>2, <2>1 DEF PlaceInv
  <2>4. FutureInv' /\ DrainInv' /\ WaitsForAll'
    BY <1>2, <2>1 DEF FutureInv, DrainInv, Ahead, WaitsForAll
  <2>5. QED
    BY <2>2, <2>3, <2>4
<1>3. CASE Dequeue(w) /\ m_queue = <<>>
           /\ UNCHANGED <<walkVars, futureVars, resultVars, query>>
  <2> USE DEF walkVars, futureVars, resultVars
  <2>1. /\ pc[w] # "run" /\ \A v \in Workers \ {w} : pc'[v] = pc[v]
        /\ UNCHANGED <<func, submitted, ready>>
    BY <1>1, <1>3 DEF Dequeue, Goto
  <2>2. MatchTypeOK'
    BY <1>3 DEF MatchTypeOK, IInv
  <2>3. PlaceInv'
    BY <1>3, <2>1 DEF PlaceInv
  <2>4. FutureInv' /\ DrainInv' /\ WaitsForAll'
    BY <1>3, <2>1 DEF FutureInv, DrainInv, Ahead, WaitsForAll
  <2>5. QED
    BY <2>2, <2>3, <2>4
<1>4. CASE Dequeue(w) /\ m_queue # <<>> /\ Enter(w, Head(m_queue))
           /\ UNCHANGED <<futureVars, resultVars, query>>
  <2> DEFINE t == Head(m_queue)
  <2>1. t \in Tasks
    BY <1>4, HeadTailProperties DEF IInv, TypeOK
  <2>2. /\ pc[w] # "run" /\ pc'[w] = "run"
        /\ \A v \in Workers \ {w} : pc'[v] = pc[v] /\ func'[v] = func[v]
        /\ UNCHANGED <<submitted, ready>>
    BY <1>1, <1>4 DEF Dequeue, Goto
  <2>3. at[w] = "idle" /\ at[Main] # "returned"
    BY <1>4, <2>2, ReturnedQuiet DEF PlaceInv
  <2>4. /\ at' \in [Callers -> Ats]
        /\ list' \in [Callers -> Lists]
        /\ left' \in [Callers -> SUBSET Nat]
        /\ \A g \in Callers : left'[g] \subseteq DOMAIN Entries[list'[g]]
        /\ buffer' \in [Callers -> Tasks \cup {NoTask}]
        /\ \A g \in Callers \ {w} : at'[g] = at[g]
        /\ at'[w] \in {"list", "mono"}
    BY <1>1, <1>4, <2>1, EnterType
  <2>5. MatchTypeOK'
    BY <1>4, <2>4 DEF MatchTypeOK, IInv, futureVars, resultVars, Ats
  <2>6. PlaceInv'
    BY <2>2, <2>4, MainIsCaller DEF PlaceInv
  <2>7. FutureInv'
    <3>1. holder # w /\ future[w] = NoTask
      BY <1>1, <2>3 DEF FutureInv
    <3>2. UNCHANGED <<future, holder>>
      BY <1>4 DEF futureVars
    <3>3. QED
      BY <2>2, <2>4, <3>1, <3>2 DEF FutureInv
  <2>8. DrainInv'
    BY <1>4, <2>2 DEF DrainInv, Ahead, futureVars
  <2>9. WaitsForAll'
    BY <2>3, <2>4, MainIsCaller DEF WaitsForAll
  <2>10. QED
    BY <2>5, <2>6, <2>7, <2>8, <2>9
<1>5. CASE at[w] = "idle" /\ Finish(w)
           /\ UNCHANGED <<walkVars, futureVars, resultVars, query>>
  <2> USE DEF walkVars, futureVars, resultVars
  <2>1. /\ \A v \in Workers \ {w} : pc'[v] = pc[v] /\ func'[v] = func[v]
        /\ submitted' = submitted
        /\ ready' = ready \cup {func[w]}
    BY <1>1, <1>5 DEF Finish, Goto
  <2>2. MatchTypeOK'
    BY <1>5 DEF MatchTypeOK, IInv
  <2>3. PlaceInv'
    BY <1>5, <2>1 DEF PlaceInv
  <2>4. FutureInv'
    <3>1. holder # w /\ future[w] = NoTask
      BY <1>1, <1>5 DEF FutureInv
    <3>2. QED
      BY <1>5, <2>1, <3>1 DEF FutureInv
  <2>5. DrainInv'
    BY <1>5, <2>1 DEF DrainInv, Ahead
  <2>6. WaitsForAll'
    BY <1>5, ReturnedQuiet DEF WaitsForAll, Finish
  <2>7. QED
    BY <2>2, <2>3, <2>4, <2>5, <2>6
<1>6. QED
  BY <1>2, <1>3, <1>4, <1>5 DEF Work, WakeUp

LEMMA DrainStepInv ==
  ASSUME MatchInv, IInv', Drain
  PROVE  MatchInv'
<1> USE DEF MatchInv, Drain, poolVars, walkVars, resultVars
<1>1. results_get \in Seq(Tasks) /\ Len(results_get) \in Nat /\ i \in Nat
  BY LenProperties DEF MatchTypeOK
<1>2. MatchTypeOK'
  BY <1>1 DEF MatchTypeOK, IInv
<1>3. PlaceInv' /\ FutureInv' /\ WaitsForAll'
  BY DEF PlaceInv, FutureInv, WaitsForAll
<1>4. DrainInv'
  <2>1. i' \in 1..(Len(results_get') + 1)
    BY <1>1 DEF DrainInv
  <2>2. ASSUME NEW t \in submitted \ ready, Ahead(t)
        PROVE  \E j \in DOMAIN results_get' : j >= i' /\ results_get'[j] = t
    <3>1. PICK j \in DOMAIN results_get : j >= i /\ results_get[j] = t
      BY <2>2 DEF Ahead
    <3>2. j # i /\ j \in Nat
      BY <1>1, <2>2, <3>1, LenProperties
    <3>3. QED
      BY <1>1, <3>1, <3>2
  <2>3. QED
    BY <2>1, <2>2 DEF DrainInv, Ahead
<1>5. QED
  BY <1>2, <1>3, <1>4

\* The heart of it: at the end of results_get only the future that some worker
\* is about to append could be missing, but the task of that worker is itself
\* not ready, and nobody but the worker could hold its future back.
LEMMA ReturnInv ==
  ASSUME MatchInv, IInv', Return
  PROVE  MatchInv'
<1> USE DEF MatchInv, Return, poolVars, futureVars, resultVars
<1>1. \A t : ~Ahead(t)
  BY LenProperties DEF Ahead, DrainInv, MatchTypeOK
<1>2. \A h \in Callers : holder # h
  <2>1. SUFFICES ASSUME NEW h \in Callers, holder = h PROVE FALSE
    OBVIOUS
  <2>2. h \in Workers /\ at[h] = "list"
    BY <2>1, MainIsCaller DEF FutureInv
  <2>3. func[h] \in submitted \ ready /\ func[h] \in Tasks
    BY <2>2, HolderRuns
  <2>4. PICK g \in Callers : future[g] = func[h]
    BY <1>1, <2>3 DEF DrainInv
  <2>5. g = h /\ future[h] # NoTask
    BY <2>1, <2>3, <2>4, PoolAssumption DEF FutureInv
  <2>6. QED
    BY <2>2, <2>4, <2>5 DEF FutureInv
<1>3. \A h \in Callers : future[h] = NoTask
  BY <1>2 DEF FutureInv
<1>4. submitted = ready
  <2>1. submitted \subseteq ready
    BY <1>1, <1>3, PoolAssumption DEF DrainInv, IInv, TypeOK
  <2>2. QED
    BY <2>1 DEF IInv, Conservation
<1>5. \A w \in Workers : at[w] = "idle"
  BY <1>4, HolderRuns
<1>6. MatchTypeOK'
  BY DEF MatchTypeOK, IInv
<1>7. at' = [at EXCEPT ![Main] = "returned"] /\ at \in [Callers -> Ats]
  BY DEF MatchTypeOK, Ats
<1>8. \A w \in Workers : at'[w] = "idle"
  BY <1>5, <1>7, MainIsCaller
<1>9. PlaceInv' /\ WaitsForAll'
  BY <1>4, <1>8 DEF PlaceInv, WaitsForAll
<1>10. FutureInv'
  BY <1>2, <1>3 DEF FutureInv
<1>11. DrainInv'
  BY DEF DrainInv, Ahead
<1>12. QED
  BY <1>6, <1>9, <1>10, <1>11

LEMMA NextQueryInv ==
  ASSUME MatchInv, IInv', NextQuery
  PROVE  MatchInv'
<1> USE DEF MatchInv, NextQuery, poolVars
<1>1. query + 1 \in DOMAIN Queries
  BY MatchAssumption, LenProperties DEF MatchTypeOK
<1>2. /\ Queries[query + 1] \in Lists
      /\ FirstOf(query + 1) \in Tasks
      /\ OthersOf(query + 1) \subseteq DOMAIN Entries[Queries[query + 1]]
      /\ OthersOf(query + 1) \subseteq Nat
  BY <1>1, StartType
<1>3. /\ Main \in Callers
      /\ at' = [at EXCEPT ![Main] = "list"]
      /\ list' = [list EXCEPT ![Main] = Queries[query + 1]]
      /\ left' = [left EXCEPT ![Main] = OthersOf(query + 1)]
      /\ buffer' = [buffer EXCEPT ![Main] = FirstOf(query + 1)]
  BY MainIsCaller
<1>4. /\ at' \in [Callers -> Ats]
      /\ list' \in [Callers -> Lists]
      /\ left' \in [Callers -> SUBSET Nat]
      /\ buffer' \in [Callers -> Tasks \cup {NoTask}]
  BY <1>2, <1>3 DEF MatchTypeOK, Ats
<1>5. \A g \in Callers : left'[g] \subseteq DOMAIN Entries[list'[g]]
  BY <1>2, <1>3 DEF MatchTypeOK
<1>6. MatchTypeOK'
  BY <1>1, <1>4, <1>5, EmptySeq DEF MatchTypeOK, IInv, Ats
<1>7. \A w \in Workers : at'[w] = at[w]
  BY <1>3, MainIsCaller DEF MatchTypeOK
<1>8. at'[Main] = "list"
  BY <1>3 DEF MatchTypeOK
<1>9. PlaceInv'
  BY <1>7 DEF PlaceInv
<1>10. FutureInv'
  BY ReturnedQuiet DEF FutureInv
<1>11. DrainInv'
  <2>1. submitted \subseteq ready
    BY DEF WaitsForAll
  <2>2. i' \in 1..(Len(results_get') + 1)
    BY EmptySeq
  <2>3. QED
    BY <2>1, <2>2 DEF DrainInv
<1>12. WaitsForAll'
  BY <1>8 DEF WaitsForAll
<1>13. QED
  BY <1>6, <1>9, <1>10, <1>11, <1>12
-----------------------------------------------------------------------------
LEMMA RowStep ==
  MatchTypeOK /\ RowInv /\ [MatchNext]_vars => RowInv'
<1> SUFFICES ASSUME MatchTypeOK, RowInv, [MatchNext]_vars
             PROVE  RowInv'
  OBVIOUS
<1> USE DEF RowInv
<1>1. ASSUME NEW h \in Callers, NEW n \in Tasks, Enter(h, n)
      PROVE  RowInv'
  <2>1. at'[h] # "push" /\ \A g \in Callers \ {h} : at'[g] = at[g]
    BY <1>1, EnterType
  <2>2. \A g \in Callers \ {h} : buffer'[g] = buffer[g]
    BY <1>1 DEF Enter, MatchTypeOK
  <2>3. QED
    BY <2>1, <2>2
<1>2. ASSUME NEW h \in Callers, Walk(h)
      PROVE  RowInv'
  <2>1. CASE LockValues(h) \/ SubmitEntry(h) \/ Notify(h) \/ PushFuture(h)
    BY <2>1 DEF LockValues, SubmitEntry, Notify, PushFuture, walkVars
  <2>2. CASE EndOfList(h)
    <3>1. CASE buffer[h] # NoTask /\ Enter(h, buffer[h])
      BY <1>1, <3>1 DEF MatchTypeOK
    <3>2. CASE at' = [at EXCEPT ![h] = "idle"] /\ buffer' = buffer
      BY <3>2 DEF MatchTypeOK
    <3>3. QED
      BY <2>2, <3>1, <3>2 DEF EndOfList
  <2>3. CASE TestRow(h) \/ PushTID(h)
    BY <2>3 DEF TestRow, PushTID, MatchTypeOK
  <2>4. QED
    BY <1>2, <2>1, <2>2, <2>3 DEF Walk
<1>3. ASSUME NEW w \in Workers, Work(w) \/ WakeUp(w)
      PROVE  RowInv'
  <2>1. CASE UNCHANGED walkVars
    BY <2>1 DEF walkVars
  <2>2. CASE m_queue # <<>> /\ Enter(w, Head(m_queue))
    <3>1. Head(m_queue) \in Tasks /\ w \in Callers
      BY <2>2, HeadTailProperties DEF MatchTypeOK, TypeOK, Callers
    <3>2. QED
      BY <1>1, <2>2, <3>1
  <2>3. QED
    BY <1>3, <2>1, <2>2 DEF Work, WakeUp
<1>4. CASE Drain \/ Return \/ NextQuery \/ UNCHANGED vars
  BY <1>4, MainIsCaller
     DEF Drain, Return, NextQuery, MatchTypeOK, walkVars, vars
<1>5. QED
  BY <1>2, <1>3, <1>4 DEF MatchNext

LEMMA MatchInitInv == MatchInit => MatchInv /\ RowInv
<1> SUFFICES ASSUME MatchInit
             PROVE  MatchInv /\ RowInv
  OBVIOUS
<1> USE DEF MatchInit
<1>1. IInv
  BY InitIInv
<1>2. 1 \in DOMAIN Queries
  BY MatchAssumption, EmptySeq, LenProperties
<1>3. /\ Queries[1] \in Lists /\ FirstOf(1) \in Tasks
      /\ OthersOf(1) \subseteq DOMAIN Entries[Queries[1]]
      /\ OthersOf(1) \subseteq Nat
  BY <1>2, StartType
<1>4. MatchTypeOK
  BY <1>1, <1>2, <1>3, EmptySeq DEF MatchTypeOK, IInv
<1>5. PlaceInv /\ FutureInv /\ WaitsForAll /\ RowInv
  BY MainIsCaller DEF PlaceInv, FutureInv, WaitsForAll, RowInv
<1>6. DrainInv
  BY EmptySeq DEF DrainInv, Init
<1>7. QED
  BY <1>1, <1>4, <1>5, <1>6 DEF MatchInv

LEMMA MatchNextInv ==
  MatchInv /\ RowInv /\ [MatchNext]_vars => MatchInv' /\ RowInv'
<1> SUFFICES ASSUME MatchInv, RowInv, [MatchNext]_vars
             PROVE  MatchInv' /\ RowInv'
  OBVIOUS
<1>1. IInv'
  BY PoolStep, NextIInv DEF MatchInv
<1>2. RowInv'
  BY RowStep DEF MatchInv
<1>3. ASSUME NEW h \in Callers, Walk(h)
      PROVE  MatchInv'
  BY <1>1, <1>3, LockValuesInv, SubmitEntryInv, NotifyInv, PushFutureInv,
     EndOfListInv, TestRowInv, PushTIDInv DEF Walk
<1>4. ASSUME NEW w \in Workers, Work(w) \/ WakeUp(w)
      PROVE  MatchInv'
  BY <1>1, <1>4, WorkInv
<1>5. CASE Drain \/ Return \/ NextQuery
  BY <1>1, <1>2, <1>5, DrainStepInv, ReturnInv, NextQueryInv
<1>6. CASE UNCHANGED vars
  BY <1>1, <1>2, <1>6
     DEF MatchInv, MatchTypeOK, PlaceInv, FutureInv, DrainInv, Ahead,
         WaitsForAll, IInv, vars, poolVars, walkVars, futureVars, resultVars
<1>7. QED
  BY <1>2, <1>3, <1>4, <1>5, <1>6 DEF MatchNext

LEMMA MatchInductive == MatchSpec => [](MatchInv /\ RowInv)
BY MatchInitInv, MatchNextInv, PTL DEF MatchSpec

\* Type correctness of the query and of the pool it uses.
THEOREM MatchTypeCorrect == MatchSpec => []MatchTypeOK
<1>1. MatchInv => MatchTypeOK
  BY DEF MatchInv
<1>2. QED
  BY <1>1, MatchInductive, PTL

\* partialMatch never returns while a task of its query is queued or running,
\* whatever the index, the queries and the number of workers.
THEOREM ReturnWaitsForAll == MatchSpec => []WaitsForAll
<1>1. MatchInv => WaitsForAll
  BY DEF MatchInv
<1>2. QED
  BY <1>1, MatchInductive, PTL

\* The composition drives the pool only as the pool allows.
THEOREM QueryUsesPool == MatchSpec => Spec
<1>1. MatchInit => Init
  BY DEF MatchInit
<1>2. MatchInv /\ [MatchNext]_vars => [Next]_poolVars
  BY PoolStep DEF MatchInv
<1>3. QED
  BY <1>1, <1>2, MatchInductive, PTL DEF MatchSpec, Spec
-----------------------------------------------------------------------------
\* The future that submit has returned and results_get does not hold yet.
PendingSeq == IF holder \in Callers /\ future[holder] # NoTask
              THEN <<future[holder]>> ELSE <<>>

\* s is the end of the sequence r.
IsEndOf(s, r) ==
  /\ Len(s) <= Len(r)
  /\ \A k \in 1..Len(s) : s[k] = r[Len(r) - Len(s) + k]

\* The queue is the end of the sequence of all futures, the pending one last.
OrderInv == IsEndOf(m_queue, results_get \o PendingSeq)

LEMMA PendingType ==
  ASSUME MatchTypeOK
  PROVE  /\ PendingSeq \in Seq(Tasks)
         /\ results_get \o PendingSeq \in Seq(Tasks)
<1>1. PendingSeq \in Seq(Tasks)
  <2>1. CASE holder \in Callers /\ future[holder] # NoTask
    <3>1. future[holder] \in Tasks
      BY <2>1 DEF MatchTypeOK
    <3>2. QED
      BY <2>1, <3>1 DEF PendingSeq
  <2>2. CASE ~(holder \in Callers /\ future[holder] # NoTask)
    BY <2>2, EmptySeq DEF PendingSeq
  <2>3. QED
    BY <2>1, <2>2
<1>2. QED
  BY <1>1, ConcatProperties DEF MatchTypeOK

LEMMA EndOfAppend ==
  ASSUME NEW s \in Seq(Tasks), NEW r \in Seq(Tasks), NEW t \in Tasks,
         IsEndOf(s, r)
  PROVE  IsEndOf(Append(s, t), Append(r, t))
<1> DEFINE a == Append(s, t)
           b == Append(r, t)
<1>1. /\ Len(s) \in Nat /\ Len(r) \in Nat
      /\ Len(a) = Len(s) + 1 /\ Len(b) = Len(r) + 1
      /\ \A k \in 1..Len(s) : a[k] = s[k]
      /\ \A k \in 1..Len(r) : b[k] = r[k]
      /\ a[Len(s) + 1] = t /\ b[Len(r) + 1] = t
  BY AppendProperties, LenProperties
<1>2. ASSUME NEW k \in 1..Len(a)
      PROVE  a[k] = b[Len(b) - Len(a) + k]
  <2>1. CASE k = Len(s) + 1
    BY <1>1, <2>1
  <2>2. CASE k # Len(s) + 1
    <3>1. k \in 1..Len(s) /\ Len(r) - Len(s) + k \in 1..Len(r)
      BY <1>1, <2>2 DEF IsEndOf
    <3>2. Len(b) - Len(a) + k = Len(r) - Len(s) + k
      BY <1>1, <3>1
    <3>3. QED
      BY <1>1, <3>1, <3>2 DEF IsEndOf
  <2>3. QED
    BY <2>1, <2>2
<1>3. Len(a) <= Len(b)
  BY <1>1 DEF IsEndOf
<1> HIDE DEF a, b
<1>4. IsEndOf(a, b)
  BY <1>2, <1>3 DEF IsEndOf
<1>5. QED
  BY <1>4 DEF a, b

LEMMA EndOfTail ==
  ASSUME NEW s \in Seq(Tasks), NEW r \in Seq(Tasks), s # <<>>, IsEndOf(s, r)
  PROVE  IsEndOf(Tail(s), r)
<1>1. /\ Len(s) \in Nat /\ Len(r) \in Nat
      /\ Len(Tail(s)) = Len(s) - 1
      /\ \A k \in 1..(Len(s) - 1) : Tail(s)[k] = s[k + 1]
  BY HeadTailProperties, LenProperties
<1>2. ASSUME NEW k \in 1..(Len(s) - 1)
      PROVE  Tail(s)[k] = r[Len(r) - (Len(s) - 1) + k]
  <2>1. k + 1 \in 1..Len(s)
    BY <1>1
  <2>2. Len(r) - Len(s) + (k + 1) = Len(r) - (Len(s) - 1) + k
    BY <1>1
  <2>3. QED
    BY <1>1, <2>1, <2>2 DEF IsEndOf
<1>3. QED
  BY <1>1, <1>2 DEF IsEndOf

LEMMA OrderStep ==
  ASSUME MatchInv, OrderInv, [MatchNext]_vars
  PROVE  OrderInv'
<1> DEFINE all == results_get \o PendingSeq
<1>1. /\ m_queue \in Seq(Tasks) /\ results_get \in Seq(Tasks)
      /\ future \in [Callers -> Tasks \cup {NoTask}]
      /\ PendingSeq \in Seq(Tasks) /\ all \in Seq(Tasks)
  BY PendingType DEF MatchInv, MatchTypeOK, TypeOK
<1>2. NoThread \notin Callers /\ NoTask \notin Tasks
  BY MainIsCaller, PoolAssumption
<1>3. ASSUME NEW h \in Callers, LockValues(h)
      PROVE  OrderInv'
  <2>1. PendingSeq = <<>>
    BY <1>2, <1>3 DEF LockValues, PendingSeq
  <2>2. PendingSeq' = <<>>
    BY <1>2, <1>3 DEF LockValues, PendingSeq, MatchInv, FutureInv
  <2>3. QED
    BY <1>3, <2>1, <2>2 DEF LockValues, OrderInv, poolVars
<1>4. ASSUME NEW h \in Callers, SubmitEntry(h)
      PROVE  OrderInv'
  <2>1. PICK k \in left[h] :
          /\ Enqueue(h, Entries[list[h]][k])
          /\ future' = [future EXCEPT ![h] = Entries[list[h]][k]]
    BY <1>4 DEF SubmitEntry
  <2> DEFINE t == Entries[list[h]][k]
  <2>2. t \in Tasks
    BY <2>1, EntriesType DEF MatchInv, MatchTypeOK
  <2>3. holder = h /\ holder' = h /\ future[h] = NoTask
        /\ results_get' = results_get
    BY <1>4 DEF SubmitEntry
  <2>4. PendingSeq = <<>>
    BY <2>3 DEF PendingSeq
  <2>5. PendingSeq' = <<t>>
    BY <1>1, <1>2, <2>1, <2>2, <2>3 DEF PendingSeq
  <2>6. all = results_get /\ results_get \o PendingSeq' = Append(all, t)
    BY <1>1, <2>2, <2>4, <2>5, ConcatEmptySeq, AppendIsConcat
  <2>7. m_queue' = Append(m_queue, t)
    BY <2>1 DEF Enqueue
  <2>8. IsEndOf(Append(m_queue, t), Append(all, t))
    BY <1>1, <2>2, EndOfAppend DEF OrderInv
  <2>9. QED
    BY <2>3, <2>6, <2>7, <2>8 DEF OrderInv
<1>5. ASSUME NEW h \in Callers, PushFuture(h)
      PROVE  OrderInv'
  <2>1. holder = h /\ future[h] # NoTask /\ holder' = NoThread
        /\ results_get' = Append(results_get, future[h]) /\ m_queue' = m_queue
    BY <1>5 DEF PushFuture, poolVars
  <2>2. PendingSeq = <<future[h]>> /\ PendingSeq' = <<>>
    BY <1>2, <2>1 DEF PendingSeq
  <2>3. future[h] \in Tasks
    BY <1>1, <2>1
  <2>4. Append(results_get, future[h]) \in Seq(Tasks)
    BY <1>1, <2>3, AppendProperties
  <2>5. results_get' \o PendingSeq' = all
    BY <1>1, <2>1, <2>2, <2>3, <2>4, ConcatEmptySeq, AppendIsConcat
  <2>6. QED
    BY <2>1, <2>5 DEF OrderInv
<1>6. ASSUME NEW w \in Workers, Dequeue(w), UNCHANGED futureVars
      PROVE  OrderInv'
  <2>1. results_get' \o PendingSeq' = all
    BY <1>6 DEF futureVars, PendingSeq
  <2>2. CASE m_queue = <<>>
    BY <1>6, <2>1, <2>2 DEF Dequeue, OrderInv
  <2>3. CASE m_queue # <<>>
    <3>1. IsEndOf(Tail(m_queue), all)
      BY <1>1, <2>3, EndOfTail DEF OrderInv
    <3>2. m_queue' = Tail(m_queue)
      BY <1>6, <2>3 DEF Dequeue
    <3>3. QED
      BY <2>1, <3>1, <3>2 DEF OrderInv
  <2>4. QED
    BY <2>2, <2>3
<1>7. CASE NextQuery
  <2>1. m_queue' = <<>> /\ results_get' = <<>>
        /\ holder' = holder /\ future' = future
    BY <1>7, ReturnedQuiet DEF NextQuery, poolVars
  <2>2. PendingSeq' = PendingSeq /\ PendingSeq = <<>>
    BY <1>7, <2>1, ReturnedQuiet DEF PendingSeq, NextQuery
  <2>3. <<>> \o <<>> = <<>> /\ Len(<<>>) = 0
    BY EmptySeq, ConcatEmptySeq
  <2>4. QED
    BY <2>1, <2>2, <2>3 DEF OrderInv, IsEndOf
<1>8. CASE UNCHANGED <<m_queue, results_get, holder, future>>
  BY <1>8 DEF OrderInv, PendingSeq
<1>9. ASSUME NEW h \in Callers,
             Notify(h) \/ EndOfList(h) \/ TestRow(h) \/ PushTID(h)
      PROVE  UNCHANGED <<m_queue, results_get, holder, future>>
  BY <1>9 DEF Notify, NotifyOne, EndOfList, TestRow, PushTID, poolVars,
              futureVars
<1>10. ASSUME NEW w \in Workers, Work(w) \/ WakeUp(w), ~Dequeue(w)
       PROVE  UNCHANGED <<m_queue, results_get, holder, future>>
  BY <1>10 DEF Work, WakeUp, TestShutdown, LockAndCheck, Wait, Relock, Finish,
               SpuriousWakeup, futureVars
<1>11. ASSUME NEW w \in Workers, Work(w) \/ WakeUp(w)
       PROVE  UNCHANGED futureVars
  BY <1>11 DEF Work, WakeUp
<1>12. CASE Drain \/ Return \/ UNCHANGED vars
  BY <1>8, <1>12 DEF Drain, Return, vars, poolVars, futureVars
<1>13. QED
  BY <1>3, <1>4, <1>5, <1>6, <1>7, <1>8, <1>9, <1>10, <1>11, <1>12
     DEF MatchNext, Walk

\* The pool's queue is always the end of results_get, the future about to be
\* appended included: values_mutex, held from submit to push_back, keeps the
\* two orders the same for any number of threads that submit.
THEOREM QueueFollowsFutures == MatchSpec => []QueueIsLatestFutures
<1>1. MatchInit => OrderInv
  BY EmptySeq, ConcatEmptySeq, MainIsCaller
     DEF MatchInit, Init, OrderInv, PendingSeq, IsEndOf
<1>2. MatchInv /\ OrderInv /\ [MatchNext]_vars => OrderInv'
  BY OrderStep
<1>3. MatchInv /\ OrderInv => QueueIsLatestFutures
  <2> SUFFICES ASSUME MatchInv, OrderInv
               PROVE  QueueIsLatestFutures
    OBVIOUS
  <2> DEFINE all == results_get \o PendingSeq
             first == Len(all) - Len(m_queue)
  <2>1. /\ m_queue \in Seq(Tasks) /\ all \in Seq(Tasks)
        /\ Len(all) \in Nat /\ Len(m_queue) \in Nat
    BY PendingType, LenProperties DEF MatchInv, MatchTypeOK, TypeOK
  <2>2. first \in Nat /\ Len(m_queue) = Len(all) - first
        /\ \A k \in 1..Len(m_queue) : m_queue[k] = all[first + k]
    BY <2>1 DEF OrderInv, IsEndOf
  <2>3. m_queue = SubSeq(all, first + 1, Len(all))
    <3> DEFINE t == SubSeq(all, first + 1, Len(all))
    <3> HIDE DEF all, first
    <3>1. \A j \in first + 1 .. Len(all) : all[j] \in Tasks
      BY <2>1, <2>2, ElementOfSeq
    <3>2. /\ t \in Seq(Tasks)
          /\ Len(t) = Len(m_queue)
          /\ \A k \in 1..Len(m_queue) : t[k] = all[first + k]
      BY <2>1, <2>2, <3>1, SubSeqProperties
    <3>3. QED
      BY <2>1, <2>2, <3>2, SeqEqual
  <2>4. PendingSeq \in {<<>>} \cup {<<t>> : t \in PendingFuture}
    BY DEF PendingSeq, PendingFuture
  <2>5. QED
    BY <2>2, <2>3, <2>4 DEF QueueIsLatestFutures
<1>4. QED
  BY <1>1, <1>2, <1>3, MatchInductive, PTL DEF MatchSpec

-----------------------------------------------------------------------------
(***************************************************************************)
(* What the queries of NodeLevelMatch select, proved for any index, any    *)
(* sequence of queries and any number of workers: every selected row is    *)
(* pushed, no other one is, and none twice.                                *)
(*                                                                         *)
(* At any time the rows still to be pushed are those under the pending     *)
(* nodes: the tasks in the queue and, of each thread, the entries it has   *)
(* still to submit and the node in its buffer.  Each step that takes a     *)
(* node up replaces it by the entries of it that a walk goes on to.        *)
(***************************************************************************)

\* The nodes that a walk reaches from node n, and the rows of a set of nodes.
Under(n) == Reach({n})
Rows(N) == Passes \cap UNION {Under(n) : n \in N}

\* What a walk goes on to from a list.
Kids(l) == {n \in Range(Entries[l]) : Verdict[n] = "in"}

\* No two nodes of N have a node in common that is reached from both.
Apart(N) == \A m, n \in N : m # n => Under(m) \cap Under(n) = {}

\* The nodes thread h has to submit or to process itself.
Unsubmitted(h) == {Entries[list[h]][k] : k \in left[h]}
Own(h) == IF at[h] = "list" THEN Unsubmitted(h) \cup ({buffer[h]} \ {NoTask})
          ELSE IF at[h] \in {"mono", "push"} THEN {buffer[h]}
          ELSE {}

Pending == Queued \cup UNION {Own(h) : h \in Callers}
Called == UNION {Roots(q) : q \in 1..query}
Later == UNION {Roots(q) : q \in DOMAIN Queries \ 1..query}

\* A pending node is in one place only.
PlacesInv ==
  /\ \A h \in Callers : Queued \cap Own(h) = {}
  /\ \A g, h \in Callers : g # h => Own(g) \cap Own(h) = {}
  /\ \A h \in Callers : at[h] = "list" => buffer[h] \notin Unsubmitted(h)
  /\ Pending \cap Later = {}

\* What is pending, what later calls will find and what was pushed have no row
\* in common.
ApartInv == /\ Apart(Pending \cup Later)
            /\ \A n \in Pending \cup Later : pushed \cap Under(n) = {}

\* The rows that the calls select so far are pushed or under a pending node.
RowsInv == pushed \cup Rows(Pending) = Rows(Called)

\* A thread that tests or pushes a row has one in its buffer.
MonoInv == \A h \in Callers :
             at[h] \in {"mono", "push"} => buffer[h] \in Tasks \ Lists

SelectionInv == PlacesInv /\ ApartInv /\ RowsInv /\ MonoInv
-----------------------------------------------------------------------------
LEMMA EntriesInTasks ==
  ASSUME NEW l \in Lists
  PROVE  Range(Entries[l]) \subseteq Tasks
BY EntriesType DEF Range

LEMMA OneParent ==
  ASSUME NEW l \in Lists, NEW m \in Lists,
         NEW n \in Range(Entries[l]), n \in Range(Entries[m])
  PROVE  l = m
BY TreeAssumption DEF Range

\* Reach(N) is the least closed set of nodes that holds N.
LEMMA ReachLeast ==
  ASSUME NEW N \in SUBSET Tasks
  PROVE  /\ N \subseteq Reach(N)
         /\ Reach(N) \in Closed
         /\ \A S \in Closed : N \subseteq S => Reach(N) \subseteq S
<1>1. N \subseteq Reach(N) /\ Reach(N) \subseteq Tasks
  BY DEF Reach
<1>2. ASSUME NEW l \in Reach(N) \cap Lists, NEW n \in Range(Entries[l]),
             Verdict[n] = "in"
      PROVE  n \in Reach(N)
  <2>1. n \in Tasks
    BY <1>2, EntriesInTasks
  <2>2. ASSUME NEW S \in Closed, N \subseteq S
        PROVE  n \in S
    <3>1. l \in S
      BY <2>2 DEF Reach
    <3>2. QED
      BY <1>2, <2>2, <3>1 DEF Closed
  <2>3. QED
    BY <2>1, <2>2 DEF Reach
<1>3. Reach(N) \in Closed
  BY <1>1, <1>2 DEF Closed
<1>4. QED
  BY <1>1, <1>3 DEF Reach

LEMMA UnderLeast ==
  ASSUME NEW n \in Tasks
  PROVE  /\ n \in Under(n) /\ Under(n) \subseteq Tasks
         /\ \A l \in Under(n) \cap Lists : Kids(l) \subseteq Under(n)
         /\ \A S \in Closed : n \in S => Under(n) \subseteq S
<1>1. {n} \in SUBSET Tasks
  OBVIOUS
<1>2. Under(n) \in Closed
  BY <1>1, ReachLeast DEF Under
<1>3. QED
  BY <1>1, <1>2, ReachLeast DEF Under, Closed, Kids

\* A set of nodes is closed when it holds what a walk goes on to.
LEMMA ClosedByKids ==
  ASSUME NEW S \in SUBSET Tasks, \A l \in S \cap Lists : Kids(l) \subseteq S
  PROVE  S \in Closed
BY DEF Closed, Kids

LEMMA ReachIsUnion ==
  ASSUME NEW N \in SUBSET Tasks
  PROVE  Reach(N) = UNION {Under(n) : n \in N}
<1> DEFINE U == UNION {Under(n) : n \in N}
<1>1. U \in Closed
  <2>1. U \in SUBSET Tasks
    BY UnderLeast
  <2>2. \A l \in U \cap Lists : Kids(l) \subseteq U
    BY UnderLeast
  <2>3. QED
    BY <2>1, <2>2, ClosedByKids
<1>2. N \subseteq U
  BY UnderLeast
<1>3. \A n \in N : Under(n) \subseteq Reach(N)
  BY ReachLeast, UnderLeast
<1>4. QED
  BY <1>1, <1>2, <1>3, ReachLeast

LEMMA UnderRow ==
  ASSUME NEW n \in Tasks \ Lists
  PROVE  Under(n) = {n}
<1>1. {n} \in Closed
  BY DEF Closed
<1>2. QED
  BY <1>1, UnderLeast

LEMMA UnderList ==
  ASSUME NEW l \in Lists \cap Tasks
  PROVE  Under(l) = {l} \cup UNION {Under(k) : k \in Kids(l)}
<1> DEFINE U == {l} \cup UNION {Under(k) : k \in Kids(l)}
<1>1. Kids(l) \subseteq Tasks
  BY EntriesInTasks DEF Kids
<1>2. U \in Closed
  <2>1. U \in SUBSET Tasks
    BY <1>1, UnderLeast
  <2>2. ASSUME NEW m \in U \cap Lists
        PROVE  Kids(m) \subseteq U
    BY <1>1, UnderLeast
  <2>3. QED
    BY <2>1, <2>2, ClosedByKids
<1>3. Under(l) \subseteq U
  BY <1>2, UnderLeast
<1>4. ASSUME NEW k \in Kids(l)
      PROVE  Under(k) \subseteq Under(l)
  <2>1. k \in Under(l)
    BY UnderLeast
  <2>2. Under(l) \in Closed
    BY UnderLeast, ClosedByKids
  <2>3. QED
    BY <1>1, <2>1, <2>2, UnderLeast
<1>5. QED
  BY <1>3, <1>4, UnderLeast

\* A walk comes to a node below n from a list below n.
LEMMA HasParent ==
  ASSUME NEW n \in Tasks, NEW x \in Under(n), x # n
  PROVE  \E l \in Under(n) \cap Lists : x \in Kids(l)
<1> SUFFICES ASSUME \A l \in Under(n) \cap Lists : x \notin Kids(l)
             PROVE  FALSE
  OBVIOUS
<1> DEFINE S == Under(n) \ {x}
<1>1. S \in SUBSET Tasks /\ n \in S
  BY UnderLeast
<1>2. \A l \in S \cap Lists : Kids(l) \subseteq S
  BY UnderLeast
<1>3. S \in Closed
  BY <1>1, <1>2, ClosedByKids
<1>4. QED
  BY <1>1, <1>3, UnderLeast

\* No list lies under an entry of its own.  Otherwise each list under that
\* entry with l under it had a parent of the same kind.
LEMMA NoCycle ==
  ASSUME NEW l \in Lists \cap Tasks, NEW k \in Kids(l)
  PROVE  l \notin Under(k)
<1> SUFFICES ASSUME l \in Under(k)
             PROVE  FALSE
  OBVIOUS
<1> DEFINE S == {x \in Under(k) : l \in Under(x)}
<1>1. k \in Tasks
  BY EntriesInTasks DEF Kids
<1>2. S \in (SUBSET Tasks) \ {{}} /\ l \in S /\ k \in S
  BY <1>1, UnderLeast
<1>3. PICK x \in S : \A m \in S \cap Lists : x \notin Range(Entries[m])
  BY <1>2, TreeAssumption
<1>4. x # k
  BY <1>2, <1>3 DEF Kids
<1>5. PICK m \in Under(k) \cap Lists : x \in Kids(m)
  BY <1>1, <1>4, HasParent
<1>6. m \in Lists \cap Tasks
  BY <1>1, <1>5, UnderLeast
<1>7. l \in Under(m)
  BY <1>5, <1>6, UnderList
<1>8. QED
  BY <1>3, <1>5, <1>7 DEF Kids

\* Two nodes have nothing in common when neither's list lies under the other.
LEMMA EntriesApart ==
  ASSUME NEW l \in Lists, NEW m \in Lists, NEW a \in Range(Entries[l]),
         NEW b \in Range(Entries[m]), a # b, l \notin Under(b), m \notin Under(a)
  PROVE  Under(a) \cap Under(b) = {}
<1> DEFINE S == Under(a) \ Under(b)
<1>1. a \in Tasks /\ b \in Tasks
  BY EntriesInTasks
<1>2. b \notin Under(a) /\ a \notin Under(b)
  <2>1. ASSUME b \in Under(a)
        PROVE  FALSE
    <3>1. PICK p \in Under(a) \cap Lists : b \in Kids(p)
      BY <1>1, <2>1, HasParent
    <3>2. p = m
      BY <3>1, OneParent DEF Kids
    <3>3. QED
      BY <3>1, <3>2
  <2>2. ASSUME a \in Under(b)
        PROVE  FALSE
    <3>1. PICK p \in Under(b) \cap Lists : a \in Kids(p)
      BY <1>1, <2>2, HasParent
    <3>2. p = l
      BY <3>1, OneParent DEF Kids
    <3>3. QED
      BY <3>1, <3>2
  <2>3. QED
    BY <2>1, <2>2
<1>3. ASSUME NEW x \in S \cap Lists, NEW y \in Kids(x)
      PROVE  y \in S
  <2>1. y \in Under(a)
    BY <1>1, UnderLeast
  <2>2. SUFFICES ASSUME y \in Under(b)
                 PROVE  FALSE
    BY <2>1
  <2>3. PICK p \in Under(b) \cap Lists : y \in Kids(p)
    <3>1. y # b
      BY <1>2, <2>1
    <3>2. QED
      BY <1>1, <2>2, <3>1, HasParent
  <2>4. p = x
    BY <2>3, OneParent DEF Kids
  <2>5. QED
    BY <2>3, <2>4
<1>4. S \in Closed
  BY <1>1, <1>3, UnderLeast, ClosedByKids
<1>5. a \in S
  BY <1>1, <1>2, UnderLeast
<1>6. QED
  BY <1>1, <1>4, <1>5, UnderLeast

LEMMA KidsApart ==
  ASSUME NEW l \in Lists \cap Tasks
  PROVE  Apart(Kids(l))
<1> SUFFICES ASSUME NEW a \in Kids(l), NEW b \in Kids(l), a # b
             PROVE  Under(a) \cap Under(b) = {}
  BY DEF Apart
<1>1. QED
  BY NoCycle, EntriesApart DEF Kids

LEMMA QueriesType ==
  ASSUME NEW q \in DOMAIN Queries
  PROVE  Queries[q] \in Lists \ Tasks /\ Roots(q) \subseteq Tasks
<1>1. Queries[q] \in Lists
  BY StartType
<1>2. Queries[q] \notin Tasks
  BY TreeAssumption DEF Range
<1>3. QED
  BY <1>1, <1>2, EntriesInTasks DEF Roots

LEMMA RootsApart ==
  ASSUME NEW Q \in SUBSET DOMAIN Queries
  PROVE  /\ Apart(UNION {Roots(q) : q \in Q})
         /\ \A q \in DOMAIN Queries \ Q :
              Roots(q) \cap UNION {Roots(r) : r \in Q} = {}
<1>1. ASSUME NEW q \in DOMAIN Queries, NEW r \in DOMAIN Queries,
             NEW a \in Roots(q), NEW b \in Roots(r), a # b
      PROVE  Under(a) \cap Under(b) = {}
  BY <1>1, QueriesType, UnderLeast, EntriesApart DEF Roots
<1>2. ASSUME NEW q \in DOMAIN Queries, NEW r \in DOMAIN Queries, q # r
      PROVE  Roots(q) \cap Roots(r) = {}
  <2>1. Queries[q] # Queries[r]
    BY <1>2, TreeAssumption DEF IsInjective
  <2>2. QED
    BY <2>1, QueriesType, OneParent DEF Roots
<1>3. QED
  BY <1>1, <1>2 DEF Apart

\* The loop of partialMatch1 finds what a walk goes on to, although it breaks
\* off at the first value above the bounds.
LEMMA KidsAreInRange ==
  ASSUME NEW l \in Lists \cap Tasks
  PROVE  Kids(l) = {Entries[l][k] : k \in InRange(l)}
<1>1. ASSUME NEW k \in DOMAIN Entries[l], Verdict[Entries[l][k]] = "in"
      PROVE  k \in InRange(l)
  <2>1. ASSUME NEW j \in 1..k
        PROVE  Verdict[Entries[l][j]] # "above"
    <3>1. k \in Nat /\ j \in DOMAIN Entries[l] /\ (j < k \/ j = k)
      BY EntriesType
    <3>2. QED
      BY <1>1, <3>1, TreeAssumption
  <2>2. QED
    BY <1>1, <2>1 DEF InRange
<1>2. QED
  BY <1>1 DEF Kids, Range, InRange
-----------------------------------------------------------------------------
LEMMA RowsUnion ==
  ASSUME NEW M, NEW N
  PROVE  Rows(M \cup N) = Rows(M) \cup Rows(N)
BY DEF Rows

LEMMA OwnInTasks ==
  ASSUME MatchTypeOK, MonoInv
  PROVE  /\ \A h \in Callers : Own(h) \subseteq Tasks
         /\ Queued \subseteq Tasks
         /\ Pending \subseteq Tasks /\ Later \subseteq Tasks
<1>1. ASSUME NEW h \in Callers
      PROVE  Own(h) \subseteq Tasks
  <2>1. Unsubmitted(h) \subseteq Tasks
    BY EntriesType DEF Unsubmitted, MatchTypeOK
  <2>2. QED
    BY <2>1 DEF Own, MonoInv, MatchTypeOK
<1>2. Queued \subseteq Tasks
  BY RangeOfSeq DEF Queued, MatchTypeOK, TypeOK
<1>3. Later \subseteq Tasks
  BY QueriesType DEF Later
<1>4. QED
  BY <1>1, <1>2, <1>3 DEF Pending

\* Thread h, which has nothing else, takes up node n, its own or one from the
\* queue: its nodes K take the place of n and the rows E are pushed.
LEMMA TakeUpStep ==
  ASSUME MatchTypeOK, SelectionInv, NEW h \in Callers, NEW n \in Queued \cup Own(h),
         Own(h) \subseteq {n}, Queued' = Queued \ {n},
         \A g \in Callers \ {h} : Own(g)' = Own(g), query' = query,
         NEW E \in SUBSET Under(n), pushed' = pushed \cup E,
         Own(h)' \subseteq Tasks, Apart(Own(h)'),
         \A k \in Own(h)' : Under(k) \subseteq Under(n) \ E,
         E \cup Rows(Own(h)') = Rows({n})
  PROVE  /\ \A g \in Callers : Queued' \cap Own(g)' = {}
         /\ \A f, g \in Callers : f # g => Own(f)' \cap Own(g)' = {}
         /\ (Pending \cap Later = {})'
         /\ ApartInv' /\ RowsInv'
<1> DEFINE K == Own(h)'
           Rest == Pending \ {n}
<1>1. /\ K \subseteq Tasks /\ Apart(K) /\ E \cup Rows(K) = Rows({n})
      /\ \A k \in K : Under(k) \subseteq Under(n) \ E
  OBVIOUS
<1>2. Later' = Later /\ Called' = Called
  BY DEF Later, Called
<1>3. \A g \in Callers \ {h} : n \notin Own(g)
  BY DEF SelectionInv, PlacesInv
<1>4. Pending' = Rest \cup K
  BY <1>3 DEF Pending
<1> HIDE DEF K
<1>5. Pending \subseteq Tasks /\ Later \subseteq Tasks /\ n \in Pending
  BY OwnInTasks DEF Pending, SelectionInv
<1>6. /\ Pending \cap Later = {} /\ Apart(Pending \cup Later)
      /\ \A x \in Pending \cup Later : pushed \cap Under(x) = {}
  BY DEF SelectionInv, PlacesInv, ApartInv
<1>7. \A k \in K : k \in Under(n) /\ k \in Under(k)
  BY <1>1, UnderLeast
<1>8. \A x \in Rest \cup Later : /\ Under(x) \cap Under(n) = {}
                                 /\ x \in Under(x)
  BY <1>5, <1>6, UnderLeast DEF Apart
<1>9. K \cap (Rest \cup Later) = {}
  BY <1>7, <1>8
<1>10. (Pending \cap Later = {})'
  BY <1>2, <1>4, <1>6, <1>9
<1>11. ASSUME NEW x \in Rest \cup K \cup Later, NEW y \in Rest \cup K \cup Later,
              x # y
       PROVE  Under(x) \cap Under(y) = {}
  <2>1. CASE x \in K /\ y \in K
    BY <1>1, <1>11, <2>1 DEF Apart
  <2>2. CASE x \in K /\ y \notin K
    BY <1>1, <1>8, <2>2
  <2>3. CASE x \notin K /\ y \in K
    BY <1>1, <1>8, <2>3
  <2>4. CASE x \notin K /\ y \notin K
    BY <1>6, <1>11, <2>4 DEF Apart
  <2>5. QED
    BY <2>1, <2>2, <2>3, <2>4
<1>12. ASSUME NEW x \in Rest \cup K \cup Later
       PROVE  (pushed \cup E) \cap Under(x) = {}
  <2>1. CASE x \in K
    BY <1>1, <1>5, <1>6, <2>1
  <2>2. CASE x \notin K
    BY <1>6, <1>8, <2>2
  <2>3. QED
    BY <2>1, <2>2
<1>13. ApartInv'
  <2>1. Apart(Rest \cup K \cup Later)
    BY <1>11 DEF Apart
  <2>2. (Apart(Pending \cup Later))'
    BY <1>2, <1>4, <2>1 DEF Apart
  <2>3. QED
    BY <1>2, <1>4, <1>12, <2>2 DEF ApartInv
<1>14. RowsInv'
  <2>1. Rows(Rest \cup K) = Rows(Rest) \cup Rows(K)
    BY RowsUnion
  <2>2. Rows(Pending) = Rows(Rest) \cup Rows({n})
    <3>1. Pending = Rest \cup {n}
      BY <1>5
    <3>2. QED
      BY <3>1, RowsUnion
  <2>3. (pushed \cup E) \cup Rows(Rest \cup K) = Rows(Called)
    BY <1>1, <2>1, <2>2 DEF RowsInv, SelectionInv
  <2>4. (Rows(Pending))' = Rows(Pending') /\ (Rows(Called))' = Rows(Called')
    BY DEF Rows
  <2>5. QED
    BY <1>2, <1>4, <2>3, <2>4 DEF RowsInv
<1>15. ASSUME NEW g \in Callers
       PROVE  Queued' \cap Own(g)' = {}
  <2>1. CASE g = h
    BY <1>9, <2>1 DEF Pending, K
  <2>2. CASE g # h
    BY <2>2 DEF SelectionInv, PlacesInv
  <2>3. QED
    BY <2>1, <2>2
<1>16. ASSUME NEW f \in Callers, NEW g \in Callers, f # g
       PROVE  Own(f)' \cap Own(g)' = {}
  <2>1. \A e \in Callers \ {h} : Own(e)' \cap K = {}
    BY <1>3, <1>9 DEF Pending
  <2>2. QED
    BY <1>16, <2>1 DEF SelectionInv, PlacesInv, K
<1>17. QED
  BY <1>10, <1>13, <1>14, <1>15, <1>16

\* Nothing moves between the places.
LEMMA StillStep ==
  ASSUME SelectionInv, Queued' = Queued, pushed' = pushed, query' = query,
         \A h \in Callers : /\ Own(h)' = Own(h)
                            /\ at'[h] = "list" => buffer'[h] \notin Unsubmitted(h)',
         MonoInv'
  PROVE  SelectionInv'
<1>1. Pending' = Pending /\ Later' = Later /\ Called' = Called
  BY DEF Pending, Later, Called
<1>2. PlacesInv'
  BY <1>1 DEF SelectionInv, PlacesInv
<1>3. ApartInv' /\ RowsInv'
  BY <1>1 DEF SelectionInv, ApartInv, RowsInv
<1>4. QED
  BY <1>2, <1>3 DEF SelectionInv

\* A thread that takes up a node owns in its place what a walk goes on to.
LEMMA EnterStep ==
  ASSUME MatchTypeOK, SelectionInv, NEW h \in Callers, NEW n \in Queued \cup Own(h),
         Enter(h, n), Own(h) \subseteq {n}, Queued' = Queued \ {n},
         UNCHANGED <<pushed, query>>
  PROVE  SelectionInv'
<1>1. n \in Tasks
  BY OwnInTasks DEF SelectionInv
<1>2. \A g \in Callers \ {h} : /\ at'[g] = at[g] /\ list'[g] = list[g]
                               /\ left'[g] = left[g] /\ buffer'[g] = buffer[g]
  BY DEF Enter, MatchTypeOK
<1>3. \A g \in Callers \ {h} : Own(g)' = Own(g) /\ Unsubmitted(g)' = Unsubmitted(g)
  BY <1>2, SMTT(30) DEF Own, Unsubmitted
<1>4. CASE n \in Lists
  <2>1. /\ at'[h] = "list" /\ list'[h] = n
        /\ left'[h] = InRange(n) \ Buffered(n)
        /\ \/ Buffered(n) = {} /\ buffer'[h] = NoTask
           \/ \E k \in Buffered(n) : buffer'[h] = Entries[n][k]
    BY <1>4 DEF Enter, MatchTypeOK
  <2>2. /\ InRange(n) \subseteq DOMAIN Entries[n]
        /\ Buffered(n) \subseteq InRange(n)
        /\ \A j, k \in Buffered(n) : j = k
    <3>1. InRange(n) \subseteq Nat
      BY <1>4, EntriesType DEF InRange
    <3>2. QED
      BY <3>1 DEF InRange, Buffered
  <2>3. Unsubmitted(h)' = {Entries[n][k] : k \in InRange(n) \ Buffered(n)}
    BY <2>1 DEF Unsubmitted
  <2>4. NoTask \notin Tasks /\ \A k \in DOMAIN Entries[n] : Entries[n][k] \in Tasks
    BY <1>4, EntriesType, PoolAssumption
  <2>5. Own(h)' = Kids(n) /\ buffer'[h] \notin Unsubmitted(h)'
    <3>1. Kids(n) = {Entries[n][k] : k \in InRange(n)}
      BY <1>1, <1>4, KidsAreInRange
    <3>2. Own(h)' = Unsubmitted(h)' \cup ({buffer'[h]} \ {NoTask})
      BY <2>1 DEF Own
    <3>3. CASE Buffered(n) = {} /\ buffer'[h] = NoTask
      BY <2>2, <2>3, <2>4, <3>1, <3>2, <3>3
    <3>4. ASSUME NEW k \in Buffered(n), buffer'[h] = Entries[n][k]
          PROVE  Own(h)' = Kids(n) /\ buffer'[h] \notin Unsubmitted(h)'
      <4>1. Buffered(n) = {k} /\ k \in InRange(n) /\ Entries[n][k] # NoTask
        BY <2>2, <2>4, <3>4
      <4>2. \A j \in InRange(n) \ {k} : Entries[n][j] # Entries[n][k]
        BY <1>4, <2>2, <4>1, TreeAssumption
      <4>3. QED
        BY <2>3, <3>1, <3>2, <3>4, <4>1, <4>2
    <3>5. QED
      BY <2>1, <3>3, <3>4
  <2>6. /\ Kids(n) \subseteq Tasks /\ Apart(Kids(n))
        /\ \A k \in Kids(n) : Under(k) \subseteq Under(n)
        /\ Rows(Kids(n)) = Rows({n})
    <3>1. Under(n) = {n} \cup UNION {Under(k) : k \in Kids(n)}
      BY <1>1, <1>4, UnderList
    <3>2. n \notin Passes
      BY <1>4, MatchAssumption
    <3>3. Rows({n}) = Rows(Kids(n))
      BY <3>1, <3>2 DEF Rows
    <3>4. QED
      BY <1>1, <1>4, <3>1, <3>3, KidsApart, EntriesInTasks DEF Kids
  <2>7. /\ \A g \in Callers : Queued' \cap Own(g)' = {}
        /\ \A f, g \in Callers : f # g => Own(f)' \cap Own(g)' = {}
        /\ (Pending \cap Later = {})'
        /\ ApartInv' /\ RowsInv'
    <3> DEFINE E == {}
    <3>1. /\ E \in SUBSET Under(n) /\ pushed' = pushed \cup E
          /\ Own(h)' \subseteq Tasks /\ Apart(Own(h)')
          /\ \A k \in Own(h)' : Under(k) \subseteq Under(n) \ E
          /\ E \cup Rows(Own(h)') = Rows({n})
      BY <2>5, <2>6
    <3> HIDE DEF E
    <3>2. QED
      BY <1>3, <3>1, TakeUpStep
  <2>8. PlacesInv'
    BY <1>2, <1>3, <2>5, <2>7 DEF PlacesInv, SelectionInv
  <2>9. MonoInv'
    BY <1>2, <2>1 DEF MonoInv, SelectionInv
  <2>10. QED
    BY <2>7, <2>8, <2>9 DEF SelectionInv
<1>5. CASE n \notin Lists
  <2>1. at'[h] = "mono" /\ buffer'[h] = n
    BY <1>5 DEF Enter, MatchTypeOK
  <2>2. Own(h)' = {n}
    BY <2>1 DEF Own
  <2>3. /\ \A g \in Callers : Queued' \cap Own(g)' = {}
        /\ \A f, g \in Callers : f # g => Own(f)' \cap Own(g)' = {}
        /\ (Pending \cap Later = {})'
        /\ ApartInv' /\ RowsInv'
    <3> DEFINE E == {}
    <3>1. /\ E \in SUBSET Under(n) /\ pushed' = pushed \cup E
          /\ Own(h)' \subseteq Tasks /\ Apart(Own(h)')
          /\ \A k \in Own(h)' : Under(k) \subseteq Under(n) \ E
          /\ E \cup Rows(Own(h)') = Rows({n})
      BY <1>1, <2>2 DEF Apart
    <3> HIDE DEF E
    <3>2. QED
      BY <1>3, <3>1, TakeUpStep
  <2>4. PlacesInv'
    BY <1>2, <1>3, <2>1, <2>3 DEF PlacesInv, SelectionInv
  <2>5. MonoInv'
    BY <1>1, <1>2, <1>5, <2>1 DEF MonoInv, SelectionInv
  <2>6. QED
    BY <2>3, <2>4, <2>5 DEF SelectionInv
<1>6. QED
  BY <1>4, <1>5
-----------------------------------------------------------------------------
\* Steps that move no node: they leave the walks and the queue alone.
LEMMA FrameStep ==
  ASSUME SelectionInv,
         UNCHANGED <<walkVars, m_queue, pushed, query>>
  PROVE  SelectionInv'
<1>1. Queued' = Queued
  BY DEF Queued
<1>2. \A h \in Callers : Own(h)' = Own(h) /\ Unsubmitted(h)' = Unsubmitted(h)
  BY DEF Own, Unsubmitted, walkVars
<1>3. MonoInv'
  BY DEF SelectionInv, MonoInv, walkVars
<1>4. QED
  BY <1>1, <1>2, <1>3, StillStep DEF SelectionInv, PlacesInv, walkVars

\* A thread goes on without a node.
LEMMA LeaveStep ==
  ASSUME MatchTypeOK, SelectionInv, NEW h \in Callers, Own(h) = {},
         NEW a \in {"idle", "returned"}, at' = [at EXCEPT ![h] = a],
         UNCHANGED <<list, left, buffer, m_queue, pushed, query>>
  PROVE  SelectionInv'
<1>1. at'[h] = a /\ \A g \in Callers \ {h} : at'[g] = at[g]
  BY DEF MatchTypeOK
<1>2. \A g \in Callers : Own(g)' = Own(g)
  BY <1>1 DEF Own, Unsubmitted
<1>3. \A g \in Callers : at'[g] = "list" => buffer'[g] \notin Unsubmitted(g)'
  BY <1>1 DEF Unsubmitted, SelectionInv, PlacesInv
<1>4. MonoInv'
  BY <1>1 DEF SelectionInv, MonoInv
<1>5. Queued' = Queued
  BY DEF Queued
<1>6. QED
  BY <1>2, <1>3, <1>4, <1>5, StillStep

\* An entry that is submitted moves from its thread to the queue.
LEMMA SubmitStep ==
  ASSUME MatchTypeOK, FutureInv, SelectionInv, NEW h \in Callers, SubmitEntry(h)
  PROVE  SelectionInv'
<1>1. PICK k \in left[h] : /\ Enqueue(h, Entries[list[h]][k])
                           /\ left' = [left EXCEPT ![h] = @ \ {k}]
  BY DEF SubmitEntry
<1> DEFINE t == Entries[list[h]][k]
<1>2. /\ at[h] = "list" /\ list[h] \in Lists
      /\ left[h] \subseteq DOMAIN Entries[list[h]]
      /\ UNCHANGED <<at, list, buffer, pushed, query>>
  BY DEF SubmitEntry, FutureInv, MatchTypeOK, resultVars
<1>3. t \in Unsubmitted(h) /\ Unsubmitted(h)' = Unsubmitted(h) \ {t}
  <2>1. left'[h] = left[h] \ {k}
    BY <1>1 DEF MatchTypeOK
  <2>2. \A j \in left[h] : Entries[list[h]][j] = t => j = k
    BY <1>1, <1>2, TreeAssumption
  <2>3. QED
    BY <1>1, <1>2, <2>1, <2>2 DEF Unsubmitted
<1>4. Own(h)' = Own(h) \ {t} /\ t \in Own(h) /\ buffer[h] \notin Unsubmitted(h)
  BY <1>2, <1>3 DEF Own, SelectionInv, PlacesInv
<1>5. \A g \in Callers \ {h} : Own(g)' = Own(g) /\ Unsubmitted(g)' = Unsubmitted(g)
  BY <1>1, <1>2 DEF Own, Unsubmitted, MatchTypeOK
<1>6. Queued' = Queued \cup {t}
  <2>1. t \in Tasks /\ m_queue \in Seq(Tasks)
    BY <1>4, OwnInTasks DEF SelectionInv, MatchTypeOK, TypeOK
  <2>2. m_queue' = Append(m_queue, t)
    BY <1>1 DEF Enqueue
  <2>3. QED
    BY <2>1, <2>2, AppendElements DEF Queued
<1>7. Pending' = Pending /\ Later' = Later /\ Called' = Called
  BY <1>2, <1>4, <1>5, <1>6 DEF Pending, Later, Called
<1>8. PlacesInv'
  <2>1. \A g \in Callers \ {h} : t \notin Own(g)
    BY <1>4 DEF SelectionInv, PlacesInv
  <2>2. ASSUME NEW g \in Callers
        PROVE  /\ Queued' \cap Own(g)' = {}
               /\ at'[g] = "list" => buffer'[g] \notin Unsubmitted(g)'
    <3>1. CASE g = h
      BY <1>2, <1>3, <1>4, <1>6, <3>1 DEF SelectionInv, PlacesInv
    <3>2. CASE g # h
      BY <1>2, <1>5, <1>6, <2>1, <3>2 DEF SelectionInv, PlacesInv
    <3>3. QED
      BY <3>1, <3>2
  <2>3. \A f, g \in Callers : f # g => Own(f)' \cap Own(g)' = {}
    BY <1>4, <1>5 DEF SelectionInv, PlacesInv
  <2>4. QED
    BY <1>7, <2>2, <2>3 DEF SelectionInv, PlacesInv
<1>9. ApartInv' /\ RowsInv'
  BY <1>2, <1>7 DEF SelectionInv, ApartInv, RowsInv
<1>10. MonoInv'
  BY <1>2 DEF SelectionInv, MonoInv
<1>11. QED
  BY <1>8, <1>9, <1>10 DEF SelectionInv

LEMMA EndOfListStep ==
  ASSUME MatchTypeOK, SelectionInv, NEW h \in Callers, EndOfList(h)
  PROVE  SelectionInv'
<1>1. /\ at[h] = "list" /\ left[h] = {}
      /\ UNCHANGED <<m_queue, pushed, query>>
  BY DEF EndOfList, poolVars, resultVars
<1>2. Own(h) = {buffer[h]} \ {NoTask}
  BY <1>1 DEF Own, Unsubmitted
<1>3. CASE buffer[h] # NoTask /\ Enter(h, buffer[h])
  <2>1. Queued' = Queued \ {buffer[h]} /\ Own(h) = {buffer[h]}
    BY <1>1, <1>2, <1>3 DEF Queued, SelectionInv, PlacesInv
  <2>2. QED
    BY <1>1, <1>3, <2>1, EnterStep
<1>4. CASE /\ buffer[h] = NoTask /\ at' = [at EXCEPT ![h] = "idle"]
           /\ UNCHANGED <<list, left, buffer>>
  BY <1>1, <1>2, <1>4, LeaveStep
<1>5. QED
  BY <1>3, <1>4 DEF EndOfList

\* The row is dropped because it does not pass, or it is pushed.
LEMMA RowStepSelection ==
  ASSUME MatchTypeOK, RowInv, SelectionInv, NEW h \in Callers,
         TestRow(h) \/ PushTID(h)
  PROVE  SelectionInv'
<1> DEFINE n == buffer[h]
<1>1. /\ at[h] \in {"mono", "push"} /\ n \in Tasks \ Lists /\ Own(h) = {n}
      /\ UNCHANGED <<list, left, buffer, m_queue, query>>
  BY DEF TestRow, PushTID, SelectionInv, MonoInv, Own, poolVars
<1>2. Under(n) = {n} /\ Rows({n}) = Passes \cap {n} /\ Rows({}) = {}
  BY <1>1, UnderRow DEF Rows
<1>3. Queued' = Queued /\ n \notin Queued
  BY <1>1 DEF Queued, SelectionInv, PlacesInv
<1>4. CASE at' = [at EXCEPT ![h] = "push"] /\ pushed' = pushed
  <2>1. at'[h] = "push" /\ \A g \in Callers \ {h} : at'[g] = at[g]
    BY <1>4 DEF MatchTypeOK
  <2>2. \A g \in Callers : Own(g)' = Own(g) /\ Unsubmitted(g)' = Unsubmitted(g)
    BY <1>1, <2>1 DEF Own, Unsubmitted
  <2>3. MonoInv'
    BY <1>1, <2>1 DEF SelectionInv, MonoInv
  <2>4. \A g \in Callers : at'[g] = "list" => buffer'[g] \notin Unsubmitted(g)'
    BY <1>1, <2>1, <2>2 DEF SelectionInv, PlacesInv
  <2>5. QED
    BY <1>1, <1>3, <1>4, <2>2, <2>3, <2>4, StillStep
<1>5. ASSUME NEW E \in SUBSET {n}, E = Passes \cap {n}, pushed' = pushed \cup E,
             at' = [at EXCEPT ![h] = "idle"]
      PROVE  SelectionInv'
  <2>1. at'[h] = "idle" /\ \A g \in Callers \ {h} : at'[g] = at[g]
    BY <1>5 DEF MatchTypeOK
  <2>2. Own(h)' = {} /\ \A g \in Callers \ {h} : Own(g)' = Own(g)
    BY <1>1, <2>1 DEF Own, Unsubmitted
  <2>3. /\ \A g \in Callers : Queued' \cap Own(g)' = {}
        /\ \A f, g \in Callers : f # g => Own(f)' \cap Own(g)' = {}
        /\ (Pending \cap Later = {})'
        /\ ApartInv' /\ RowsInv'
    <3>1. /\ E \in SUBSET Under(n) /\ n \in Queued \cup Own(h)
          /\ Own(h) \subseteq {n} /\ Queued' = Queued \ {n}
          /\ Own(h)' \subseteq Tasks /\ Apart(Own(h)')
          /\ \A k \in Own(h)' : Under(k) \subseteq Under(n) \ E
          /\ E \cup Rows(Own(h)') = Rows({n})
      BY <1>1, <1>2, <1>3, <1>5, <2>2 DEF Apart
    <3> HIDE DEF n
    <3>2. QED
      BY <1>1, <1>5, <2>2, <3>1, TakeUpStep
  <2>4. \A g \in Callers : at'[g] = "list" => buffer'[g] \notin Unsubmitted(g)'
    BY <1>1, <2>1 DEF Unsubmitted, SelectionInv, PlacesInv
  <2>5. MonoInv'
    BY <1>1, <2>1 DEF SelectionInv, MonoInv
  <2>6. QED
    BY <2>3, <2>4, <2>5 DEF SelectionInv, PlacesInv
<1>6. CASE n \notin Passes /\ at' = [at EXCEPT ![h] = "idle"] /\ pushed' = pushed
  <2>1. {} \in SUBSET {n} /\ {} = Passes \cap {n} /\ pushed' = pushed \cup {}
    BY <1>6
  <2>2. QED
    BY <1>5, <1>6, <2>1
<1>7. CASE PushTID(h)
  <2>1. /\ n \in Passes /\ pushed' = pushed \cup {n}
        /\ at' = [at EXCEPT ![h] = "idle"]
    BY <1>7 DEF PushTID, RowInv
  <2>2. {n} \in SUBSET {n} /\ {n} = Passes \cap {n}
    BY <2>1
  <2>3. QED
    BY <1>5, <2>1, <2>2
<1>8. CASE TestRow(h)
  BY <1>4, <1>6, <1>8 DEF TestRow
<1>9. QED
  BY <1>7, <1>8

LEMMA DequeueStep ==
  ASSUME MatchTypeOK, PlaceInv, Conservation, SelectionInv, NEW w \in Workers,
         Dequeue(w), m_queue # <<>>, Enter(w, Head(m_queue)),
         UNCHANGED <<pushed, query>>
  PROVE  SelectionInv'
<1> DEFINE t == Head(m_queue)
<1>1. m_queue \in Seq(Tasks) /\ IsInjective(m_queue) /\ m_queue' = Tail(m_queue)
  BY DEF Dequeue, MatchTypeOK, TypeOK, Conservation
<1>2. t \in Queued /\ Queued' = Queued \ {t}
  BY <1>1, TailElements DEF Queued
<1>3. at[w] = "idle" /\ w \in Callers
  BY DEF Dequeue, PlaceInv, Callers
<1>4. Own(w) = {}
  BY <1>3 DEF Own
<1>5. QED
  BY <1>2, <1>3, <1>4, EnterStep

\* Nothing is pending when a call begins; it adds the pointers it collects.
LEMMA NextQueryStep ==
  ASSUME MatchInv, SelectionInv, NextQuery
  PROVE  SelectionInv'
<1> DEFINE q == query + 1
<1>1. /\ q \in DOMAIN Queries /\ query \in Nat
      /\ 1..q = (1..query) \cup {q}
      /\ DOMAIN Queries \ 1..query = (DOMAIN Queries \ 1..q) \cup {q}
  BY MatchAssumption, LenProperties DEF NextQuery, MatchInv, MatchTypeOK
<1>2. /\ m_queue = <<>> /\ at[Main] = "returned"
      /\ \A w \in Workers : at[w] = "idle"
  BY ReturnedQuiet DEF NextQuery
<1>3. /\ m_queue' = m_queue /\ pushed' = pushed /\ query' = q
      /\ at'[Main] = "list" /\ list'[Main] = Queries[q]
      /\ left'[Main] = OthersOf(q) /\ buffer'[Main] = FirstOf(q)
      /\ \A w \in Workers : at'[w] = "idle"
  BY <1>2, MainIsCaller DEF NextQuery, poolVars, MatchInv, MatchTypeOK
<1>4. Queued = {} /\ Queued' = {}
  BY <1>2, <1>3 DEF Queued, Range
<1>5. \A h \in Callers : Own(h) = {}
  BY <1>2, MainIsCaller DEF Own
<1>6. \A h \in Callers : h # Main => at'[h] = "idle" /\ Own(h)' = {}
  BY <1>3, MainIsCaller DEF Own
<1>7. /\ Unsubmitted(Main)' = {Entries[Queries[q]][k] : k \in OthersOf(q)}
      /\ Own(Main)' = Roots(q) /\ FirstOf(q) \notin Unsubmitted(Main)'
  <2>1. Queries[q] \in Lists /\ FirstOf(q) \in Tasks /\ 1 \in DOMAIN Entries[Queries[q]]
    BY <1>1, StartType, EntriesType
  <2>2. Unsubmitted(Main)' = {Entries[Queries[q]][k] : k \in OthersOf(q)}
    BY <1>3 DEF Unsubmitted
  <2>3. Own(Main)' = Unsubmitted(Main)' \cup {FirstOf(q)}
    BY <1>3, <2>1, PoolAssumption DEF Own
  <2>4. Roots(q) = Unsubmitted(Main)' \cup {FirstOf(q)}
    BY <2>1, <2>2 DEF Roots, Range, OthersOf, FirstOf
  <2>5. \A k \in OthersOf(q) : Entries[Queries[q]][k] # FirstOf(q)
    BY <2>1, TreeAssumption DEF OthersOf, FirstOf
  <2>6. QED
    BY <2>2, <2>3, <2>4, <2>5
<1>8. /\ Pending = {} /\ Pending' = Roots(q)
      /\ Later = Later' \cup Roots(q) /\ Called' = Called \cup Roots(q)
  <2>1. Pending = {}
    BY <1>4, <1>5 DEF Pending
  <2>2. Pending' = Roots(q)
    BY <1>4, <1>6, <1>7, MainIsCaller DEF Pending
  <2>3. Later' = UNION {Roots(r) : r \in DOMAIN Queries \ 1..q}
        /\ Called' = UNION {Roots(r) : r \in 1..q}
    BY <1>3 DEF Later, Called
  <2>4. QED
    BY <1>1, <2>1, <2>2, <2>3 DEF Later, Called
<1>9. Roots(q) \cap Later' = {}
  <2>1. Later' = UNION {Roots(r) : r \in DOMAIN Queries \ 1..q}
    BY <1>3 DEF Later
  <2>2. q \in DOMAIN Queries \ (DOMAIN Queries \ 1..q)
    BY <1>1
  <2>3. QED
    BY <2>1, <2>2, RootsApart
<1>10. PlacesInv'
  BY <1>3, <1>4, <1>6, <1>7, <1>8, <1>9 DEF PlacesInv
<1>11. ApartInv'
  BY <1>3, <1>8 DEF SelectionInv, ApartInv, Apart
<1>12. RowsInv'
  <2>1. pushed = Rows(Called)
    BY <1>8 DEF SelectionInv, RowsInv, Rows
  <2>2. Rows(Called \cup Roots(q)) = Rows(Called) \cup Rows(Roots(q))
    BY RowsUnion
  <2>3. QED
    BY <1>3, <1>8, <2>1, <2>2 DEF RowsInv
<1>13. MonoInv'
  BY <1>3, <1>6, MainIsCaller DEF MonoInv
<1>14. QED
  BY <1>10, <1>11, <1>12, <1>13 DEF SelectionInv

-----------------------------------------------------------------------------
LEMMA SelectionInit == MatchInit => SelectionInv
<1> SUFFICES ASSUME MatchInit
             PROVE  SelectionInv
  OBVIOUS
<1>1. /\ at[Main] = "list" /\ list[Main] = Queries[1] /\ left[Main] = OthersOf(1)
      /\ buffer[Main] = FirstOf(1) /\ query = 1 /\ pushed = {} /\ m_queue = <<>>
      /\ \A h \in Callers : h # Main => at[h] = "idle"
  BY MainIsCaller DEF MatchInit, Init
<1>2. 1 \in DOMAIN Queries
  BY MatchAssumption, EmptySeq, LenProperties
<1>3. Queued = {} /\ \A h \in Callers : h # Main => Own(h) = {}
  BY <1>1 DEF Queued, Range, Own
<1>4. Own(Main) = Roots(1) /\ FirstOf(1) \notin Unsubmitted(Main)
  <2>1. Queries[1] \in Lists /\ FirstOf(1) \in Tasks /\ 1 \in DOMAIN Entries[Queries[1]]
    BY <1>2, StartType, EntriesType
  <2>2. Own(Main) = Unsubmitted(Main) \cup {FirstOf(1)}
    BY <1>1, <2>1, PoolAssumption DEF Own
  <2>3. Roots(1) = Unsubmitted(Main) \cup {FirstOf(1)}
    BY <1>1, <2>1 DEF Unsubmitted, Roots, Range, OthersOf, FirstOf
  <2>4. \A k \in OthersOf(1) : Entries[Queries[1]][k] # FirstOf(1)
    BY <2>1, TreeAssumption DEF OthersOf, FirstOf
  <2>5. QED
    BY <1>1, <2>2, <2>3, <2>4 DEF Unsubmitted
<1>5. Pending = Roots(1) /\ Called = Roots(1)
  <2>1. 1..query = {1}
    BY <1>1
  <2>2. QED
    BY <1>3, <1>4, <2>1, MainIsCaller DEF Pending, Called
<1>6. 1 \in DOMAIN Queries \ (DOMAIN Queries \ 1..query)
      /\ Pending \cup Later = UNION {Roots(q) : q \in DOMAIN Queries}
  <2>1. 1..query = {1}
    BY <1>1
  <2>2. QED
    BY <1>2, <1>5, <2>1 DEF Later
<1>7. Roots(1) \cap Later = {}
  BY <1>6, RootsApart DEF Later
<1>8. Apart(Pending \cup Later)
  BY <1>6, RootsApart
<1>9. PlacesInv
  BY <1>1, <1>3, <1>4, <1>5, <1>7 DEF PlacesInv
<1>10. ApartInv /\ RowsInv /\ MonoInv
  BY <1>1, <1>5, <1>8, MainIsCaller DEF ApartInv, RowsInv, MonoInv
<1>11. QED
  BY <1>9, <1>10 DEF SelectionInv

LEMMA SelectionNext ==
  ASSUME MatchInv, RowInv, SelectionInv, [MatchNext]_vars
  PROVE  SelectionInv'
<1> USE DEF MatchInv
<1>1. ASSUME NEW h \in Callers, LockValues(h) \/ Notify(h) \/ PushFuture(h)
      PROVE  SelectionInv'
  BY <1>1, FrameStep DEF LockValues, Notify, NotifyOne, PushFuture, poolVars,
                         resultVars
<1>2. ASSUME NEW h \in Callers, Walk(h)
      PROVE  SelectionInv'
  BY <1>1, <1>2, SubmitStep, EndOfListStep, RowStepSelection DEF Walk
<1>3. ASSUME NEW w \in Workers, Work(w) \/ WakeUp(w)
      PROVE  SelectionInv'
  <2>1. CASE UNCHANGED walkVars /\ m_queue' = m_queue
    BY <1>3, <2>1, FrameStep DEF Work, WakeUp, resultVars
  <2>2. CASE Dequeue(w) /\ m_queue # <<>> /\ Enter(w, Head(m_queue))
    BY <1>3, <2>2, DequeueStep DEF Work, WakeUp, resultVars, IInv
  <2>3. QED
    BY <1>3, <2>1, <2>2
       DEF Work, WakeUp, TestShutdown, LockAndCheck, Wait, Relock, Finish,
           SpuriousWakeup, Dequeue
<1>4. CASE Drain \/ UNCHANGED vars
  BY <1>4, FrameStep DEF Drain, vars, poolVars, resultVars
<1>5. CASE Return
  <2>1. Own(Main) = {}
    BY <1>5 DEF Return, Own
  <2>2. QED
    BY <1>5, <2>1, LeaveStep, MainIsCaller DEF Return, poolVars, resultVars
<1>6. CASE NextQuery
  BY <1>6, NextQueryStep
<1>7. QED
  BY <1>2, <1>3, <1>4, <1>5, <1>6 DEF MatchNext

LEMMA SelectionInductive == MatchSpec => []SelectionInv
BY SelectionInit, SelectionNext, MatchInductive, PTL DEF MatchSpec

\* When partialMatch returns, the rows pushed to its result are those that the
\* queries so far select, for any index, any queries and any number of threads:
\* no walk forgets a node, and none goes where the sequential walk does not.
THEOREM SelectedArePushed == MatchSpec => []AllSelectedArePushed
<1>1. MatchInv /\ SelectionInv => AllSelectedArePushed
  <2> SUFFICES ASSUME MatchInv, SelectionInv, at[Main] = "returned"
               PROVE  pushed = UNION {Selects[q] : q \in 1..query}
    BY DEF AllSelectedArePushed
  <2>1. Queued = {} /\ \A h \in Callers : Own(h) = {}
    BY ReturnedQuiet, MainIsCaller DEF Queued, Range, Own
  <2>2. pushed = Rows(Called)
    BY <2>1 DEF Pending, Rows, SelectionInv, RowsInv
  <2>3. 1..query \subseteq DOMAIN Queries
    BY MatchAssumption, LenProperties DEF MatchInv, MatchTypeOK
  <2>4. ASSUME NEW q \in 1..query
        PROVE  Selects[q] = Rows(Roots(q))
    BY <2>3, QueriesType, ReachIsUnion DEF Selects, Rows
  <2>5. Rows(Called) = UNION {Rows(Roots(q)) : q \in 1..query}
    BY DEF Rows, Called
  <2>6. QED
    BY <2>2, <2>4, <2>5
<1>2. QED
  BY <1>1, MatchInductive, SelectionInductive, PTL

\* No thread pushes a row that has been pushed before.
THEOREM RowsArePushedOnce == MatchSpec => PushedOnce
<1>1. ASSUME MatchTypeOK, SelectionInv, NEW h \in Callers, PushTID(h)
      PROVE  buffer[h] \notin pushed
  <2>1. buffer[h] \in Own(h) /\ buffer[h] \in Tasks
    BY <1>1 DEF PushTID, Own, SelectionInv, MonoInv
  <2>2. buffer[h] \in Pending /\ buffer[h] \in Under(buffer[h])
    BY <2>1, UnderLeast DEF Pending
  <2>3. QED
    BY <1>1, <2>2 DEF SelectionInv, ApartInv
<1>2. MatchInv /\ SelectionInv /\ [MatchNext]_vars
        => [\A h \in Callers : PushTID(h) => buffer[h] \notin pushed]_vars
  BY <1>1 DEF MatchInv
<1>3. QED
  BY <1>2, MatchInductive, SelectionInductive, PTL DEF MatchSpec, PushedOnce
=============================================================================
