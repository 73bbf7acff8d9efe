------------------------------ MODULE TaskPool ------------------------------
(***************************************************************************)
(* What a pool of worker threads promises to the code that uses it: tasks  *)
(* start in the order in which they were submitted, each starts once, a    *)
(* worker has one task at a time, and a task is done only after a worker   *)
(* has run it.  How workers sleep and are woken is left to ThreadPool,     *)
(* which implements this specification.                                    *)
(***************************************************************************)
EXTENDS Sequences

CONSTANTS Tasks,    \* the tasks that may be submitted
          Workers,  \* the threads of the pool
          NoTask    \* "this worker runs nothing"

VARIABLES backlog,  \* submitted tasks that have not started, oldest first
          running,  \* the task each worker runs
          done      \* the tasks that have been run to their end

vars == <<backlog, running, done>>

Known == {backlog[i] : i \in DOMAIN backlog}
           \cup {running[w] : w \in Workers} \cup done

Init == /\ backlog = <<>>
        /\ running = [w \in Workers |-> NoTask]
        /\ done = {}

Submit(t) == /\ t \notin Known
             /\ backlog' = Append(backlog, t)
             /\ UNCHANGED <<running, done>>

Start(w) == /\ running[w] = NoTask
            /\ backlog # <<>>
            /\ running' = [running EXCEPT ![w] = Head(backlog)]
            /\ backlog' = Tail(backlog)
            /\ UNCHANGED done

Finish(w) == /\ running[w] # NoTask
             /\ done' = done \cup {running[w]}
             /\ running' = [running EXCEPT ![w] = NoTask]
             /\ UNCHANGED backlog

Next == \/ \E t \in Tasks : Submit(t)
        \/ \E w \in Workers : Start(w) \/ Finish(w)

Spec == Init /\ [][Next]_vars
=============================================================================
