----------------------------- MODULE ThreadPool -----------------------------
(***************************************************************************)
(* src/ThreadPool.h with the queue of src/SafeQueue.h.                     *)
(*                                                                         *)
(* Every operation of SafeQueue holds the queue's own mutex from its first *)
(* to its last statement, so it is one atomic step here.  A worker holds   *)
(* m_conditional_mutex from the moment it enters the loop body until it    *)
(* has tried to dequeue, except while it waits on m_conditional_lock.      *)
(* submit() and shutdown() never take m_conditional_mutex.                 *)
(*                                                                         *)
(* A task is one packaged_task, made by one call of submit; ready holds    *)
(* the tasks whose future is ready.  Tasks is the only bound.  A running   *)
(* task may itself submit, as those of Elf_final64_nodelevel_enqueue do.   *)
(***************************************************************************)
EXTENDS Naturals, Sequences, Functions

CONSTANTS Workers,   \* m_threads
          Clients,   \* threads outside the pool that call submit
          Tasks,     \* the packaged_tasks the calls of submit make
          NoTask,    \* no task
          NoThread   \* nobody holds the mutex

ASSUME PoolAssumption == /\ Workers # {}
                         /\ Workers \cap Clients = {}
                         /\ NoTask \notin Tasks
                         /\ NoThread \notin Workers \cup Clients

Callers == Clients \cup Workers

VARIABLES m_queue,      \* SafeQueue<std::function<void()>> m_queue
          m_shutdown,   \* bool m_shutdown
          owner,        \* the worker that holds m_conditional_mutex
          pc,           \* where each worker is in ThreadWorker::operator()
          func,         \* the task each worker executes
          notifying,    \* the task whose submit has enqueued, not notified
          submitted,    \* tasks passed to m_queue.enqueue so far
          ready,        \* tasks whose future is ready
          closing       \* where the call of shutdown() is

poolVars == <<m_queue, m_shutdown, owner, pc, func, notifying, submitted,
              ready, closing>>
-----------------------------------------------------------------------------
Init ==
  /\ m_queue = <<>>
  /\ m_shutdown = FALSE
  /\ owner = NoThread
  /\ pc = [w \in Workers |-> "loop"]
  /\ func = [w \in Workers |-> NoTask]
  /\ notifying = [c \in Callers |-> NoTask]
  /\ submitted = {}
  /\ ready = {}
  /\ closing = "open"

Goto(w, label) == pc' = [pc EXCEPT ![w] = label]

\* while (!m_pool->m_shutdown): m_shutdown is read without a lock.
TestShutdown(w) ==
  /\ pc[w] = "loop"
  /\ Goto(w, IF m_shutdown THEN "exit" ELSE "lock")
  /\ UNCHANGED <<m_queue, m_shutdown, owner, func, notifying, submitted,
                 ready, closing>>

\* Variant: the loop body without its unique_lock.
LockAndCheckUnlocked(w) ==
  /\ pc[w] = "lock"
  /\ owner' = w
  /\ Goto(w, IF m_queue = <<>> THEN "wait" ELSE "dequeue")
  /\ UNCHANGED <<m_queue, m_shutdown, func, notifying, submitted, ready,
                 closing>>

\* Take m_conditional_mutex and look whether the queue is empty.
LockAndCheck(w) ==
  /\ pc[w] = "lock"
  /\ owner = NoThread
  /\ owner' = w
  /\ Goto(w, IF m_queue = <<>> THEN "wait" ELSE "dequeue")
  /\ UNCHANGED <<m_queue, m_shutdown, func, notifying, submitted, ready,
                 closing>>

\* Variant: the worker blocks without releasing the mutex.
WaitLocked(w) ==
  /\ pc[w] = "wait"
  /\ Goto(w, "blocked")
  /\ UNCHANGED <<m_queue, m_shutdown, owner, func, notifying, submitted,
                 ready, closing>>

\* m_conditional_lock.wait(lock): release the mutex and block, atomically.
Wait(w) ==
  /\ pc[w] = "wait"
  /\ owner' = NoThread
  /\ Goto(w, "blocked")
  /\ UNCHANGED <<m_queue, m_shutdown, func, notifying, submitted, ready,
                 closing>>

\* A condition variable may wake a thread that nobody notified.
SpuriousWakeup(w) ==
  /\ pc[w] = "blocked"
  /\ Goto(w, "relock")
  /\ UNCHANGED <<m_queue, m_shutdown, owner, func, notifying, submitted,
                 ready, closing>>

\* Variant: a worker that wakes up takes it that the queue has a task.
RelockTrusting(w) ==
  /\ pc[w] = "relock"
  /\ owner = NoThread
  /\ owner' = w
  /\ Goto(w, "dequeue")
  /\ UNCHANGED <<m_queue, m_shutdown, func, notifying, submitted, ready,
                 closing>>

\* The end of wait(lock): the mutex is taken again.  There is no predicate,
\* so the queue is not looked at again before the dequeue.
Relock(w) ==
  /\ pc[w] = "relock"
  /\ owner = NoThread
  /\ owner' = w
  /\ Goto(w, "woken")
  /\ UNCHANGED <<m_queue, m_shutdown, func, notifying, submitted, ready,
                 closing>>

\* Variants: func() is called whatever dequeue returned; dequeue does not pop;
\* dequeue takes the newest task.
DequeueUntested(w) ==
  /\ pc[w] \in {"dequeue", "woken"}
  /\ owner' = NoThread
  /\ Goto(w, "run")
  /\ IF m_queue = <<>>
     THEN UNCHANGED <<m_queue, func>>
     ELSE /\ func' = [func EXCEPT ![w] = Head(m_queue)]
          /\ m_queue' = Tail(m_queue)
  /\ UNCHANGED <<m_shutdown, notifying, submitted, ready, closing>>

DequeueNoPop(w) ==
  /\ pc[w] \in {"dequeue", "woken"}
  /\ owner' = NoThread
  /\ IF m_queue = <<>>
     THEN Goto(w, "loop") /\ UNCHANGED func
     ELSE Goto(w, "run") /\ func' = [func EXCEPT ![w] = Head(m_queue)]
  /\ UNCHANGED <<m_queue, m_shutdown, notifying, submitted, ready, closing>>

DequeueNewest(w) ==
  /\ pc[w] \in {"dequeue", "woken"}
  /\ owner' = NoThread
  /\ IF m_queue = <<>>
     THEN Goto(w, "loop") /\ UNCHANGED <<m_queue, func>>
     ELSE /\ Goto(w, "run")
          /\ func' = [func EXCEPT ![w] = m_queue[Len(m_queue)]]
          /\ m_queue' = SubSeq(m_queue, 1, Len(m_queue) - 1)
  /\ UNCHANGED <<m_shutdown, notifying, submitted, ready, closing>>

\* dequeued = m_queue.dequeue(func), and the lock's scope ends.
Dequeue(w) ==
  /\ pc[w] \in {"dequeue", "woken"}
  /\ owner' = NoThread
  /\ \/ /\ m_queue = <<>>
        /\ Goto(w, "loop")
        /\ UNCHANGED <<m_queue, func>>
     \/ /\ m_queue # <<>>
        /\ func' = [func EXCEPT ![w] = Head(m_queue)]
        /\ m_queue' = Tail(m_queue)
        /\ Goto(w, "run")
  /\ UNCHANGED <<m_shutdown, notifying, submitted, ready, closing>>

\* func() returns: the packaged_task has made its future ready.
Finish(w) ==
  /\ pc[w] = "run"
  /\ notifying[w] = NoTask
  /\ ready' = ready \cup {func[w]}
  /\ func' = [func EXCEPT ![w] = NoTask]
  /\ Goto(w, "loop")
  /\ UNCHANGED <<m_queue, m_shutdown, owner, notifying, submitted, closing>>
-----------------------------------------------------------------------------
\* submit(): m_queue.enqueue(wrapper_func).  A worker calls it only from
\* inside the task it runs.
Enqueue(c, t) ==
  /\ c \in Workers => pc[c] = "run"
  /\ notifying[c] = NoTask
  /\ t \notin submitted
  /\ m_queue' = Append(m_queue, t)
  /\ submitted' = submitted \cup {t}
  /\ notifying' = [notifying EXCEPT ![c] = t]
  /\ UNCHANGED <<m_shutdown, owner, pc, func, ready, closing>>

Blocked == {w \in Workers : pc[w] = "blocked"}

\* submit(): m_conditional_lock.notify_one(), without m_conditional_mutex.
\* It wakes one blocked worker, or nobody when none is blocked yet.
NotifyOne(c) ==
  /\ notifying[c] # NoTask
  /\ notifying' = [notifying EXCEPT ![c] = NoTask]
  /\ \/ Blocked = {} /\ UNCHANGED pc
     \/ \E w \in Blocked : Goto(w, "relock")
  /\ UNCHANGED <<m_queue, m_shutdown, owner, func, submitted, ready, closing>>

\* shutdown(): m_shutdown = true.
SetShutdown ==
  /\ closing = "open"
  /\ closing' = "notifying"
  /\ m_shutdown' = TRUE
  /\ UNCHANGED <<m_queue, owner, pc, func, notifying, submitted, ready>>

\* shutdown(): m_conditional_lock.notify_all().
NotifyAll ==
  /\ closing = "notifying"
  /\ closing' = "joining"
  /\ pc' = [w \in Workers |-> IF pc[w] = "blocked" THEN "relock" ELSE pc[w]]
  /\ UNCHANGED <<m_queue, m_shutdown, owner, func, notifying, submitted,
                 ready>>

\* Variant: only one of the threads is joined.
JoinOne ==
  /\ closing = "joining"
  /\ \E w \in Workers : pc[w] = "exit"
  /\ closing' = "closed"
  /\ UNCHANGED <<m_queue, m_shutdown, owner, pc, func, notifying, submitted,
                 ready>>

\* shutdown(): the last join returns when every worker has left its loop.
Join ==
  /\ closing = "joining"
  /\ \A w \in Workers : pc[w] = "exit"
  /\ closing' = "closed"
  /\ UNCHANGED <<m_queue, m_shutdown, owner, pc, func, notifying, submitted,
                 ready>>
-----------------------------------------------------------------------------
\* The steps a scheduled worker takes by itself.
WorkerStep(w) == \/ TestShutdown(w)
                 \/ LockAndCheck(w)
                 \/ Wait(w)
                 \/ Relock(w)
                 \/ Dequeue(w)

Shutdown == SetShutdown \/ NotifyAll \/ Join

Next == \/ \E w \in Workers : WorkerStep(w) \/ SpuriousWakeup(w) \/ Finish(w)
        \/ \E c \in Callers : NotifyOne(c) \/ \E t \in Tasks : Enqueue(c, t)
        \/ Shutdown

Spec == Init /\ [][Next]_poolVars

(***************************************************************************)
(* A runnable thread is scheduled, a task that runs returns, a submit or   *)
(* shutdown that has begun goes on.  Nobody has to call submit or shutdown *)
(* and a blocked worker need not wake up by itself.                        *)
(***************************************************************************)
Fairness == /\ \A w \in Workers : /\ WF_poolVars(WorkerStep(w))
                                  /\ WF_poolVars(Finish(w))
            /\ \A c \in Callers : WF_poolVars(NotifyOne(c))
            /\ WF_poolVars(NotifyAll)
            /\ WF_poolVars(Join)

FairSpec == Spec /\ Fairness
-----------------------------------------------------------------------------
Labels == {"loop", "lock", "wait", "blocked", "relock", "woken", "dequeue",
           "run", "exit"}

\* Every variable has its type.
TypeOK ==
  /\ m_queue \in Seq(Tasks)
  /\ m_shutdown \in BOOLEAN
  /\ owner \in Workers \cup {NoThread}
  /\ pc \in [Workers -> Labels]
  /\ func \in [Workers -> Tasks \cup {NoTask}]
  /\ notifying \in [Callers -> Tasks \cup {NoTask}]
  /\ submitted \in SUBSET Tasks
  /\ ready \in SUBSET Tasks
  /\ closing \in {"open", "notifying", "joining", "closed"}

Queued == Range(m_queue)
Running == {func[w] : w \in Workers} \ {NoTask}

\* m_conditional_mutex admits one worker to the part of the loop that it
\* guards: the emptiness test, the decision to wait, and the dequeue.
Guarded == {"wait", "dequeue", "woken"}
MutexInv == \A w \in Workers : (pc[w] \in Guarded) <=> (owner = w)

\* A worker that found the queue non-empty under m_conditional_mutex does not
\* come back from dequeue empty-handed, although the queue has another lock.
CheckedIsThere == \A w \in Workers : pc[w] = "dequeue" => m_queue # <<>>

\* No task is lost, duplicated or run twice between submit and its future:
\* each submitted task is queued once, or run by one worker, or ready.
Conservation ==
  /\ submitted = Queued \cup Running \cup ready
  /\ Queued \cap Running = {}
  /\ Queued \cap ready = {}
  /\ Running \cap ready = {}
  /\ IsInjective(m_queue)
  /\ \A v, w \in Workers : func[v] = func[w] /\ func[v] # NoTask => v = w
-----------------------------------------------------------------------------
\* The pool keeps the promises of TaskPool.
Abstract == INSTANCE TaskPool WITH backlog <- m_queue, running <- func,
                                   done <- ready
ImplementsTaskPool == Abstract!Spec

\* After shutdown() has returned no task starts and no future becomes ready.
NothingRunsAfterShutdown ==
  [][closing = "closed" => UNCHANGED <<func, ready>>]_poolVars

\* No submit still has to notify and every worker sleeps.  When a task is in
\* the queue then its notification fell between a worker's test of the queue
\* and its wait.
AllAsleep == /\ \A c \in Callers : notifying[c] = NoTask
             /\ \A w \in Workers : pc[w] = "blocked"

\* Every submitted task becomes ready, unless the pool is shut down or the
\* wakeup is lost for good: nothing else makes submit's caller spin for ever.
OnlyLostWakeupStalls ==
  \A t \in Tasks :
    <>(t \in submitted) =>
      \/ <>(t \in ready \/ m_shutdown)
      \/ <>[](t \in Queued /\ AllAsleep)

\* "Submit a function to be executed asynchronously by the pool" (line 88) and
\* "Wake up one thread if its waiting" (line 108): what is submitted to a pool
\* that is not shut down is executed.
SubmittedIsExecuted ==
  \A t \in Tasks : t \in submitted ~> (t \in ready \/ m_shutdown)

\* "Waits until threads finish their current task and shutdowns the pool"
\* (line 75): a call of shutdown() comes to its end.
ShutdownCompletes == (closing = "notifying") ~> (closing = "closed")
=============================================================================
