-------------------------- MODULE ThreadPoolProofs --------------------------
(***************************************************************************)
(* Proofs about ThreadPool, for any number of workers, clients and tasks.  *)
(***************************************************************************)
EXTENDS ThreadPool, SequenceTheorems, TLAPS

\* A worker holds a task exactly while it is inside func().
FuncInv == \A w \in Workers : (func[w] # NoTask) <=> (pc[w] = "run")

\* The invariant that is inductive: Conservation needs FuncInv (a worker that
\* dequeues holds nothing) and CheckedIsThere needs MutexInv (only the owner
\* of the mutex dequeues).
IInv == TypeOK /\ MutexInv /\ CheckedIsThere /\ FuncInv /\ Conservation

-----------------------------------------------------------------------------
\* The elements of a queue after an enqueue and after a dequeue.
LEMMA AppendElements ==
  ASSUME NEW s \in Seq(Tasks), NEW t \in Tasks
  PROVE  /\ Append(s, t) \in Seq(Tasks)
         /\ Append(s, t) # <<>>
         /\ Range(Append(s, t)) = Range(s) \cup {t}
         /\ IsInjective(s) /\ t \notin Range(s) => IsInjective(Append(s, t))
<1> DEFINE a == Append(s, t)
<1>1. /\ a \in Seq(Tasks)
      /\ a # <<>>
      /\ DOMAIN s = 1..Len(s)
      /\ DOMAIN a = 1..(Len(s) + 1)
      /\ Len(s) \in Nat
      /\ \A i \in 1..Len(s) : a[i] = s[i]
      /\ a[Len(s) + 1] = t
  BY AppendProperties, LenProperties
<1>2. Range(a) = Range(s) \cup {t}
  <2>1. ASSUME NEW i \in DOMAIN a
        PROVE  a[i] \in Range(s) \cup {t}
    <3>1. i \in 1..Len(s) \/ i = Len(s) + 1
      BY <1>1, <2>1
    <3>2. QED
      BY <1>1, <3>1 DEF Range
  <2>2. ASSUME NEW i \in DOMAIN s
        PROVE  s[i] \in Range(a)
    <3>1. i \in DOMAIN a /\ a[i] = s[i]
      BY <1>1, <2>2
    <3>2. QED
      BY <3>1 DEF Range
  <2>3. t \in Range(a)
    <3>1. Len(s) + 1 \in DOMAIN a
      BY <1>1
    <3>2. QED
      BY <1>1, <3>1 DEF Range
  <2>4. QED
    BY <2>1, <2>2, <2>3 DEF Range
<1>3. ASSUME IsInjective(s), t \notin Range(s),
             NEW i \in DOMAIN a, NEW j \in DOMAIN a, a[i] = a[j]
      PROVE  i = j
  <2>1. (i \in DOMAIN s \/ i = Len(s) + 1) /\ (j \in DOMAIN s \/ j = Len(s) + 1)
    BY <1>1, <1>3
  <2>2. QED
    BY <1>1, <1>3, <2>1 DEF IsInjective, Range
<1>4. QED
  BY <1>1, <1>2, <1>3 DEF IsInjective

LEMMA TailElements ==
  ASSUME NEW s \in Seq(Tasks), s # <<>>, IsInjective(s)
  PROVE  /\ Head(s) \in Tasks
         /\ Tail(s) \in Seq(Tasks)
         /\ Range(s) = Range(Tail(s)) \cup {Head(s)}
         /\ Head(s) \notin Range(Tail(s))
         /\ IsInjective(Tail(s))
<1> DEFINE r == Tail(s)
<1>1. /\ Head(s) \in Tasks
      /\ r \in Seq(Tasks)
      /\ Len(s) \in Nat \ {0}
      /\ DOMAIN s = 1..Len(s)
      /\ DOMAIN r = 1..(Len(s) - 1)
      /\ Head(s) = s[1]
      /\ \A i \in 1..(Len(s) - 1) : r[i] = s[i + 1]
  BY HeadTailProperties, LenProperties, EmptySeq
<1>2. ASSUME NEW i \in DOMAIN s
      PROVE  s[i] \in Range(r) \cup {Head(s)}
  <2>1. CASE i = 1
    BY <1>1, <2>1
  <2>2. CASE i # 1
    <3>1. i - 1 \in DOMAIN r /\ r[i - 1] = s[i]
      BY <1>1, <1>2, <2>2
    <3>2. QED
      BY <3>1 DEF Range
  <2>3. QED
    BY <2>1, <2>2
<1>3. ASSUME NEW k \in DOMAIN r
      PROVE  r[k] \in Range(s) /\ r[k] # Head(s)
  <2>1. k + 1 \in DOMAIN s /\ 1 \in DOMAIN s /\ r[k] = s[k + 1] /\ k + 1 # 1
    BY <1>1, <1>3
  <2>2. QED
    BY <1>1, <2>1 DEF Range, IsInjective
<1>4. Head(s) \in Range(s)
  BY <1>1 DEF Range
<1>5. ASSUME NEW i \in DOMAIN r, NEW j \in DOMAIN r, r[i] = r[j]
      PROVE  i = j
  <2>1. /\ i + 1 \in DOMAIN s /\ j + 1 \in DOMAIN s /\ s[i + 1] = s[j + 1]
        /\ i \in Nat /\ j \in Nat
    BY <1>1, <1>5
  <2>2. i + 1 = j + 1
    BY <2>1 DEF IsInjective
  <2>3. QED
    BY <2>1, <2>2
<1>6. QED
  BY <1>1, <1>2, <1>3, <1>4, <1>5 DEF Range, IsInjective

-----------------------------------------------------------------------------
LEMMA InitIInv == Init => IInv
<1> USE DEF Init
<1>1. Init => Queued = {} /\ IsInjective(m_queue)
  BY DEF Queued, Range, IsInjective
<1>2. Init => TypeOK
  BY EmptySeq DEF TypeOK, Labels, Callers
<1>3. Init => MutexInv /\ CheckedIsThere /\ FuncInv
  BY PoolAssumption DEF MutexInv, CheckedIsThere, FuncInv, Guarded
<1>4. Init => Conservation
  BY <1>1 DEF Conservation, Running
<1>5. QED
  BY <1>2, <1>3, <1>4 DEF IInv

\* What only moves worker w between two labels outside the guarded part and
\* outside func() disturbs nothing.
LEMMA MoveIInv ==
  ASSUME IInv, NEW w \in Workers, NEW label \in Labels,
         pc[w] \notin Guarded \cup {"run"},
         label \notin Guarded \cup {"run"},
         Goto(w, label),
         UNCHANGED <<m_queue, owner, func, submitted, ready>>,
         m_shutdown' \in BOOLEAN,
         notifying' \in [Callers -> Tasks \cup {NoTask}],
         closing' \in {"open", "notifying", "joining", "closed"}
  PROVE  IInv'
<1>1. TypeOK'
  BY DEF IInv, TypeOK, Goto
<1>2. MutexInv' /\ CheckedIsThere' /\ FuncInv'
  BY DEF IInv, TypeOK, MutexInv, CheckedIsThere, FuncInv, Goto, Guarded
<1>3. Conservation'
  BY DEF IInv, Conservation, Queued, Running
<1>4. QED
  BY <1>1, <1>2, <1>3 DEF IInv

\* What changes neither where the workers are nor who holds which task
\* disturbs nothing.
LEMMA FrameIInv ==
  ASSUME IInv,
         UNCHANGED <<m_queue, owner, pc, func, submitted, ready>>,
         m_shutdown' \in BOOLEAN,
         notifying' \in [Callers -> Tasks \cup {NoTask}],
         closing' \in {"open", "notifying", "joining", "closed"}
  PROVE  IInv'
BY DEF IInv, TypeOK, MutexInv, CheckedIsThere, FuncInv, Conservation,
       Queued, Running

LEMMA DequeueIInv ==
  ASSUME IInv, NEW w \in Workers, Dequeue(w)
  PROVE  IInv'
<1> USE DEF IInv, Dequeue, Goto
<1>1. owner = w /\ owner' = NoThread /\ func[w] = NoTask
  BY DEF MutexInv, Guarded, FuncInv
<1>2. CASE m_queue = <<>>
  <2>1. TypeOK'
    BY <1>2 DEF TypeOK, Labels
  <2>2. MutexInv'
    BY <1>1, <1>2, PoolAssumption DEF MutexInv, Guarded, TypeOK
  <2>3. CheckedIsThere' /\ FuncInv'
    BY <1>1, <1>2 DEF CheckedIsThere, FuncInv, MutexInv, Guarded, TypeOK
  <2>4. Conservation'
    BY <1>2 DEF Conservation, Queued, Running
  <2>5. QED
    BY <2>1, <2>2, <2>3, <2>4
<1>3. CASE m_queue # <<>>
  <2>1. /\ Head(m_queue) \in Tasks
        /\ Tail(m_queue) \in Seq(Tasks)
        /\ Queued = Queued' \cup {Head(m_queue)}
        /\ Head(m_queue) \notin Queued'
        /\ IsInjective(m_queue')
    <3>1. /\ m_queue \in Seq(Tasks)
          /\ IsInjective(m_queue)
          /\ m_queue' = Tail(m_queue)
      BY <1>3 DEF TypeOK, Conservation
    <3>2. QED
      BY <1>3, <3>1, TailElements DEF Queued
  <2>2. TypeOK'
    BY <1>3, <2>1 DEF TypeOK, Labels
  <2>3. MutexInv'
    BY <1>1, <1>3, PoolAssumption DEF MutexInv, Guarded, TypeOK
  <2>4. CheckedIsThere' /\ FuncInv'
    BY <1>1, <1>3, <2>1, PoolAssumption
       DEF CheckedIsThere, FuncInv, MutexInv, Guarded, TypeOK
  <2>5. Running' = Running \cup {Head(m_queue)}
    BY <1>1, <1>3, <2>1, PoolAssumption DEF Running, TypeOK
  <2>6. ASSUME NEW u \in Workers, NEW v \in Workers,
               func'[u] = func'[v], func'[u] # NoTask
        PROVE  u = v
    <3>1. \A x \in Workers \ {w} : func'[x] = func[x]
      BY <1>3 DEF TypeOK
    <3>2. func'[w] = Head(m_queue)
      BY <1>3 DEF TypeOK
    <3>3. \A x \in Workers : func[x] # Head(m_queue)
      BY <2>1, PoolAssumption DEF Conservation, Running
    <3>4. QED
      BY <2>6, <3>1, <3>2, <3>3 DEF Conservation
  <2>7. submitted' = submitted /\ ready' = ready
    OBVIOUS
  <2>8. Conservation'
    BY <2>1, <2>5, <2>6, <2>7 DEF Conservation
  <2>9. QED
    BY <2>2, <2>3, <2>4, <2>8
<1>4. QED
  BY <1>2, <1>3

LEMMA FinishIInv ==
  ASSUME IInv, NEW w \in Workers, Finish(w)
  PROVE  IInv'
<1> USE DEF IInv, Finish, Goto
<1>1. func[w] \in Tasks /\ func[w] # NoTask
  BY DEF FuncInv, TypeOK
<1>2. TypeOK'
  BY <1>1 DEF TypeOK, Labels
<1>3. MutexInv' /\ CheckedIsThere' /\ FuncInv'
  BY DEF MutexInv, CheckedIsThere, FuncInv, Guarded, TypeOK
<1>4. Running' = Running \ {func[w]}
  BY <1>1 DEF Running, Conservation, TypeOK
<1>5. func[w] \in Running /\ ready' = ready \cup {func[w]}
  BY <1>1 DEF Running
<1>6. \A u, v \in Workers :
        func'[u] = func'[v] /\ func'[u] # NoTask => u = v
  BY DEF Conservation, TypeOK
<1>7. Queued' = Queued /\ submitted' = submitted /\ m_queue' = m_queue
  BY DEF Queued
<1>8. Conservation'
  BY <1>4, <1>5, <1>6, <1>7 DEF Conservation
<1>9. QED
  BY <1>2, <1>3, <1>8

LEMMA EnqueueIInv ==
  ASSUME IInv, NEW c \in Callers, NEW t \in Tasks, Enqueue(c, t)
  PROVE  IInv'
<1> USE DEF IInv, Enqueue
<1>1. t \notin Queued /\ t \notin Running /\ t \notin ready
  BY DEF Conservation
<1>2. /\ m_queue' \in Seq(Tasks)
      /\ m_queue' # <<>>
      /\ Queued' = Queued \cup {t}
      /\ IsInjective(m_queue')
  <2>1. /\ m_queue \in Seq(Tasks)
        /\ IsInjective(m_queue)
        /\ m_queue' = Append(m_queue, t)
        /\ t \notin Range(m_queue)
    BY <1>1 DEF TypeOK, Conservation, Queued
  <2>2. QED
    BY <2>1, AppendElements DEF Queued
<1>3. TypeOK'
  BY <1>2 DEF TypeOK
<1>4. MutexInv' /\ CheckedIsThere' /\ FuncInv'
  BY <1>2 DEF MutexInv, CheckedIsThere, FuncInv
<1>5. Running' = Running
  BY DEF Running
<1>6. Conservation'
  BY <1>1, <1>2, <1>5 DEF Conservation
<1>7. QED
  BY <1>3, <1>4, <1>6

LEMMA NextIInv == IInv /\ [Next]_poolVars => IInv'
<1> SUFFICES ASSUME IInv, [Next]_poolVars
             PROVE  IInv'
  OBVIOUS
<1>1. ASSUME NEW w \in Workers, TestShutdown(w)
      PROVE  IInv'
  <2>1. CASE m_shutdown
    BY <1>1, <2>1, MoveIInv DEF IInv, TypeOK, TestShutdown, Guarded, Labels
  <2>2. CASE ~m_shutdown
    BY <1>1, <2>2, MoveIInv DEF IInv, TypeOK, TestShutdown, Guarded, Labels
  <2>3. QED
    BY <2>1, <2>2
<1>2. ASSUME NEW w \in Workers, LockAndCheck(w)
      PROVE  IInv'
  <2> USE <1>2 DEF IInv, LockAndCheck, Goto
  <2>1. TypeOK'
    BY DEF TypeOK, Labels
  <2>2. MutexInv'
    BY PoolAssumption DEF MutexInv, TypeOK, Guarded
  <2>3. CheckedIsThere' /\ FuncInv'
    BY DEF CheckedIsThere, FuncInv, TypeOK
  <2>4. Conservation'
    BY DEF Conservation, Queued, Running
  <2>5. QED
    BY <2>1, <2>2, <2>3, <2>4
<1>3. ASSUME NEW w \in Workers, Wait(w)
      PROVE  IInv'
  <2> USE <1>3 DEF IInv, Wait, Goto
  <2>1. TypeOK'
    BY DEF TypeOK, Labels
  <2>2. MutexInv'
    BY PoolAssumption DEF MutexInv, TypeOK, Guarded
  <2>3. CheckedIsThere' /\ FuncInv'
    BY DEF CheckedIsThere, FuncInv, TypeOK
  <2>4. Conservation'
    BY DEF Conservation, Queued, Running
  <2>5. QED
    BY <2>1, <2>2, <2>3, <2>4
<1>4. ASSUME NEW w \in Workers, SpuriousWakeup(w)
      PROVE  IInv'
  BY <1>4, MoveIInv DEF SpuriousWakeup, IInv, TypeOK, Guarded, Labels
<1>5. ASSUME NEW w \in Workers, Relock(w)
      PROVE  IInv'
  <2> USE <1>5 DEF IInv, Relock, Goto
  <2>1. TypeOK'
    BY DEF TypeOK, Labels
  <2>2. MutexInv'
    BY PoolAssumption DEF MutexInv, TypeOK, Guarded
  <2>3. CheckedIsThere' /\ FuncInv'
    BY DEF CheckedIsThere, FuncInv, TypeOK
  <2>4. Conservation'
    BY DEF Conservation, Queued, Running
  <2>5. QED
    BY <2>1, <2>2, <2>3, <2>4
<1>6. ASSUME NEW w \in Workers, Dequeue(w)
      PROVE  IInv'
  BY <1>6, DequeueIInv
<1>7. ASSUME NEW w \in Workers, Finish(w)
      PROVE  IInv'
  BY <1>7, FinishIInv
<1>8. ASSUME NEW c \in Callers, NEW t \in Tasks, Enqueue(c, t)
      PROVE  IInv'
  BY <1>8, EnqueueIInv
<1>9. ASSUME NEW c \in Callers, NotifyOne(c)
      PROVE  IInv'
  <2>1. notifying' \in [Callers -> Tasks \cup {NoTask}]
    BY <1>9 DEF NotifyOne, IInv, TypeOK
  <2>2. CASE UNCHANGED pc
    BY <1>9, <2>1, <2>2, FrameIInv DEF NotifyOne, IInv, TypeOK
  <2>3. ASSUME NEW w \in Blocked, Goto(w, "relock")
        PROVE  IInv'
    BY <1>9, <2>1, <2>3, MoveIInv
       DEF NotifyOne, IInv, TypeOK, Blocked, Guarded, Labels
  <2>4. QED
    BY <1>9, <2>2, <2>3 DEF NotifyOne
<1>10. CASE SetShutdown
  BY <1>10, FrameIInv DEF SetShutdown, IInv, TypeOK
<1>11. CASE NotifyAll
  <2> USE <1>11 DEF IInv, NotifyAll
  <2>1. TypeOK'
    BY DEF TypeOK, Labels
  <2>2. MutexInv' /\ CheckedIsThere' /\ FuncInv'
    BY DEF MutexInv, CheckedIsThere, FuncInv, TypeOK, Guarded
  <2>3. Conservation'
    BY DEF Conservation, Queued, Running
  <2>4. QED
    BY <2>1, <2>2, <2>3
<1>12. CASE Join
  BY <1>12, FrameIInv DEF Join, IInv, TypeOK
<1>13. CASE UNCHANGED poolVars
  BY <1>13, FrameIInv DEF poolVars, IInv, TypeOK
<1>14. QED
  BY <1>1, <1>2, <1>3, <1>4, <1>5, <1>6, <1>7, <1>8, <1>9, <1>10, <1>11,
     <1>12, <1>13
     DEF Next, WorkerStep, Shutdown

LEMMA Inductive == Spec => []IInv
BY InitIInv, NextIInv, PTL DEF Spec

-----------------------------------------------------------------------------
\* Type correctness of the pool.
THEOREM TypeCorrect == Spec => []TypeOK
<1>1. IInv => TypeOK
  BY DEF IInv
<1>2. QED
  BY <1>1, Inductive, PTL

\* The mutex really guards: only its owner is between the test of the queue
\* and the dequeue, for any number of workers.
THEOREM MutualExclusion == Spec => []MutexInv
<1>1. IInv => MutexInv
  BY DEF IInv
<1>2. QED
  BY <1>1, Inductive, PTL

\* A worker that found a task in the queue does not come back from dequeue
\* without one, although submit and dequeue use another lock than the test.
THEOREM FoundIsDequeued == Spec => []CheckedIsThere
<1>1. IInv => CheckedIsThere
  BY DEF IInv
<1>2. QED
  BY <1>1, Inductive, PTL

\* No task is lost, duplicated or run twice on its way through the pool.
THEOREM TasksConserved == Spec => []Conservation
<1>1. IInv => Conservation
  BY DEF IInv
<1>2. QED
  BY <1>1, Inductive, PTL

-----------------------------------------------------------------------------
\* Each step of the pool is a step of TaskPool or changes nothing of it.
LEMMA StepSimulation ==
  IInv /\ [Next]_poolVars => [Abstract!Next]_(Abstract!vars)
<1> SUFFICES ASSUME IInv, [Next]_poolVars
             PROVE  Abstract!Next \/ UNCHANGED <<m_queue, func, ready>>
  BY DEF Abstract!vars
<1>1. ASSUME NEW w \in Workers, Dequeue(w)
      PROVE  Abstract!Next \/ UNCHANGED <<m_queue, func, ready>>
  <2>1. func[w] = NoTask
    BY <1>1 DEF Dequeue, IInv, FuncInv
  <2>2. CASE m_queue # <<>>
    <3>1. Abstract!Start(w)
      BY <1>1, <2>1, <2>2 DEF Dequeue, Abstract!Start
    <3>2. QED
      BY <3>1 DEF Abstract!Next
  <2>3. CASE m_queue = <<>>
    BY <1>1, <2>3 DEF Dequeue
  <2>4. QED
    BY <2>2, <2>3
<1>2. ASSUME NEW w \in Workers, Finish(w)
      PROVE  Abstract!Next
  <2>1. func[w] # NoTask
    BY <1>2 DEF Finish, IInv, FuncInv
  <2>2. Abstract!Finish(w)
    BY <1>2, <2>1 DEF Finish, Abstract!Finish
  <2>3. QED
    BY <2>2 DEF Abstract!Next
<1>3. ASSUME NEW c \in Callers, NEW t \in Tasks, Enqueue(c, t)
      PROVE  Abstract!Next
  <2>1. t \notin Queued /\ t \notin Running /\ t \notin ready
    BY <1>3 DEF Enqueue, IInv, Conservation
  <2>2. t \notin Abstract!Known
    BY <2>1, PoolAssumption DEF Queued, Range, Running, Abstract!Known
  <2>3. Abstract!Submit(t)
    BY <1>3, <2>2 DEF Enqueue, Abstract!Submit
  <2>4. QED
    BY <2>3 DEF Abstract!Next
<1>4. ASSUME NEW w \in Workers,
             \/ TestShutdown(w) \/ LockAndCheck(w) \/ Wait(w)
             \/ SpuriousWakeup(w) \/ Relock(w)
      PROVE  UNCHANGED <<m_queue, func, ready>>
  BY <1>4 DEF TestShutdown, LockAndCheck, Wait, SpuriousWakeup, Relock
<1>5. ASSUME NEW c \in Callers, NotifyOne(c)
      PROVE  UNCHANGED <<m_queue, func, ready>>
  BY <1>5 DEF NotifyOne
<1>6. CASE Shutdown
  BY <1>6 DEF Shutdown, SetShutdown, NotifyAll, Join
<1>7. CASE UNCHANGED poolVars
  BY <1>7 DEF poolVars
<1>8. QED
  BY <1>1, <1>2, <1>3, <1>4, <1>5, <1>6, <1>7 DEF Next, WorkerStep

\* The pool implements TaskPool: tasks start in the order of their submission,
\* once each, and become ready only after a worker has run them.
THEOREM PoolImplementsTaskPool == Spec => ImplementsTaskPool
<1>1. Init => Abstract!Init
  BY DEF Init, Abstract!Init
<1>2. QED
  BY <1>1, StepSimulation, Inductive, PTL
     DEF Spec, ImplementsTaskPool, Abstract!Spec

\* Nothing runs once shutdown() has returned: Join saw every worker gone, and
\* a worker that is gone takes no step.
ClosedInv == closing = "closed" => \A w \in Workers : pc[w] = "exit"

THEOREM QuietAfterShutdown == Spec => NothingRunsAfterShutdown
<1>1. Init => ClosedInv
  BY DEF Init, ClosedInv
<1>2. IInv /\ ClosedInv /\ [Next]_poolVars => ClosedInv'
  <2> SUFFICES ASSUME IInv, ClosedInv, [Next]_poolVars
               PROVE  ClosedInv'
    OBVIOUS
  <2> USE DEF ClosedInv, IInv, TypeOK
  <2>1. ASSUME NEW w \in Workers, WorkerStep(w) \/ SpuriousWakeup(w) \/ Finish(w)
        PROVE  ClosedInv'
    BY <2>1 DEF WorkerStep, TestShutdown, LockAndCheck, Wait, Relock, Dequeue,
                SpuriousWakeup, Finish, Goto
  <2>2. ASSUME NEW c \in Callers,
               NotifyOne(c) \/ \E t \in Tasks : Enqueue(c, t)
        PROVE  ClosedInv'
    BY <2>2 DEF NotifyOne, Enqueue, Goto, Blocked
  <2>3. CASE Shutdown
    BY <2>3 DEF Shutdown, SetShutdown, NotifyAll, Join
  <2>4. CASE UNCHANGED poolVars
    BY <2>4 DEF poolVars
  <2>5. QED
    BY <2>1, <2>2, <2>3, <2>4 DEF Next
<1>3. ClosedInv /\ [Next]_poolVars
        => [closing = "closed" => UNCHANGED <<func, ready>>]_poolVars
  <2> SUFFICES ASSUME ClosedInv, [Next]_poolVars, closing = "closed"
               PROVE  UNCHANGED <<func, ready>> \/ UNCHANGED poolVars
    OBVIOUS
  <2>1. ASSUME NEW w \in Workers
        PROVE  ~(WorkerStep(w) \/ SpuriousWakeup(w) \/ Finish(w))
    BY <2>1 DEF ClosedInv, WorkerStep, TestShutdown, LockAndCheck, Wait,
                Relock, Dequeue, SpuriousWakeup, Finish
  <2>2. QED
    BY <2>1 DEF Next, NotifyOne, Enqueue, Shutdown, SetShutdown, NotifyAll,
                Join, poolVars
<1>4. QED
  BY <1>1, <1>2, <1>3, Inductive, PTL DEF Spec, NothingRunsAfterShutdown
=============================================================================
