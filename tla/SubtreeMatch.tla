---------------------------- MODULE SubtreeMatch ----------------------------
(***************************************************************************)
(* Elf_final64_subtree::partialMatch (src/Elf_final64_subtree.h): one call *)
(* makes a pool, submits one task for each pointer of the first dimension  *)
(* and waits for their futures in order.  A task walks the whole subtree   *)
(* below its pointer by itself and pushes the TIDs that it finds.          *)
(*                                                                         *)
(* As in NodeLevelMatch the index is a graph of dimension lists and mono   *)
(* lists that nobody writes, so what a task finds is a function of its     *)
(* node.  Only Main takes values_mutex1, which is therefore left out.  The *)
(* pool is neither shut down nor used again after the call.                *)
(***************************************************************************)
EXTENDS ThreadPool, SequencesExt

CONSTANTS Main,     \* the thread that calls partialMatch
          Roots,    \* the pointers at the offsets from LOWER to UPPER
          Nodes,    \* all dimension lists and mono lists
          Entries,  \* a sequence of nodes for each dimension list
          Verdict,  \* how the value of an entry compares with the bounds
          Passes,   \* mono lists whose values are all inside the bounds
          Garbage   \* memory of RESULTS that nobody has written

ASSUME SubtreeAssumption ==
  /\ Clients = {Main}
  /\ Roots \in Seq(Tasks) /\ IsInjective(Roots)
  /\ Tasks \subseteq Nodes
  /\ DOMAIN Entries \subseteq Nodes
  /\ \A l \in DOMAIN Entries : Entries[l] \in Seq(Nodes) /\ Entries[l] # <<>>
  /\ Verdict \in [Nodes -> {"below", "in", "above"}]
  /\ Passes \subseteq Nodes \ DOMAIN Entries
  /\ Garbage \notin Nodes

\* The index is a tree, so the recursion ends: each set of lists has one whose
\* entries lead to none of them.
ASSUME DepthAssumption ==
  \A S \in (SUBSET DOMAIN Entries) \ {{}} :
    \E l \in S : Range(Entries[l]) \cap S = {}

VARIABLES stage,    \* what Main does: "submit", "drain" or "returned"
          next,     \* the pointer Main submits next, or the future it looks at
          found,    \* the TIDs that the task of a worker has still to push
          slot,     \* where the push_back that a worker is in will write, or 0
          overlap,  \* history: a push_back began while another one went on
          results   \* vector<uint32_t>* resultTIDs

callVars == <<stage, next, found, slot, overlap, results>>
vars == <<poolVars, callVars>>
-----------------------------------------------------------------------------
\* The entries of list l whose value is inside the bounds; partialMatch1
\* returns at the first value above them.
InRange(l) == {k \in DOMAIN Entries[l] :
                 /\ Verdict[Entries[l][k]] = "in"
                 /\ \A j \in 1..k : Verdict[Entries[l][j]] # "above"}

\* The TIDs that a recursive walk from n pushes, in order.  The last test of
\* partialMatchMonoList passes when all values of the row are inside.
Walk[n \in Nodes] ==
  IF n \in DOMAIN Entries
  THEN FlattenSeq([k \in 1..Len(Entries[n]) |->
                     IF k \in InRange(n) THEN Walk[Entries[n][k]] ELSE <<>>])
  ELSE IF n \in Passes THEN <<n>> ELSE <<>>

SubtreeInit ==
  /\ Init
  /\ stage = "submit"
  /\ next = 1
  /\ found = [w \in Workers |-> <<>>]
  /\ slot = [w \in Workers |-> 0]
  /\ overlap = FALSE
  /\ results = <<>>

\* result_subtree.push_back(pool->submit(...)) for the next offset.
SubmitRoot ==
  /\ stage = "submit"
  /\ next <= Len(Roots)
  /\ Enqueue(Main, Roots[next])
  /\ next' = next + 1
  /\ UNCHANGED <<stage, found, slot, overlap, results>>

Notify == NotifyOne(Main) /\ UNCHANGED callVars

\* Variant: i is not set to 0 before the second loop.
StartDrainAtEnd ==
  /\ stage = "submit"
  /\ next > Len(Roots)
  /\ notifying[Main] = NoTask
  /\ stage' = "drain"
  /\ UNCHANGED <<poolVars, next, found, slot, overlap, results>>

\* The loop over the offsets ends, the one over the futures begins.
StartDrain ==
  /\ stage = "submit"
  /\ next > Len(Roots)
  /\ notifying[Main] = NoTask
  /\ stage' = "drain"
  /\ next' = 1
  /\ UNCHANGED <<poolVars, found, slot, overlap, results>>

\* The spin over result_subtree[i] ends and the loop goes on, or it is over
\* and resultTIDs is returned.
Drain ==
  /\ stage = "drain"
  /\ \/ /\ next <= Len(Roots)
        /\ Roots[next] \in ready
        /\ next' = next + 1
        /\ UNCHANGED stage
     \/ /\ next > Len(Roots)
        /\ stage' = "returned"
        /\ UNCHANGED next
  /\ UNCHANGED <<poolVars, found, slot, overlap, results>>
-----------------------------------------------------------------------------
\* RESULTS->push_back, first half: read where the vector ends.
ReadEnd(w) ==
  /\ pc[w] = "run"
  /\ slot[w] = 0
  /\ found[w] # <<>>
  /\ slot' = [slot EXCEPT ![w] = Len(results) + 1]
  /\ overlap' = (overlap \/ \E v \in Workers : slot[v] # 0)
  /\ UNCHANGED <<poolVars, stage, next, found, results>>

\* The vector after a push_back that wrote tid to place s and left length n.
Stored(r, tid, s, n) == [k \in 1..n |-> IF k = s THEN tid
                                        ELSE IF k <= Len(r) THEN r[k]
                                        ELSE Garbage]

\* Second half: store the TID and advance the end, from the value read before
\* or from the present one.  No lock orders the push_backs of two workers.
\* (A reallocation, which makes it worse, is left out.)
StoreTID(w) ==
  /\ slot[w] # 0
  /\ \E n \in {slot[w], Len(results) + 1} :
       results' = Stored(results, Head(found[w]), slot[w], n)
  /\ found' = [found EXCEPT ![w] = Tail(@)]
  /\ slot' = [slot EXCEPT ![w] = 0]
  /\ UNCHANGED <<poolVars, stage, next, overlap>>

\* A worker's own steps in the pool.
Work(w) ==
  \/ /\ TestShutdown(w) \/ LockAndCheck(w) \/ Wait(w) \/ Relock(w)
     /\ UNCHANGED callVars
  \/ /\ Dequeue(w)
     /\ found' = [found EXCEPT ![w] = IF m_queue = <<>> THEN <<>>
                                      ELSE Walk[Head(m_queue)]]
     /\ UNCHANGED <<stage, next, slot, overlap, results>>
  \/ ReadEnd(w)
  \/ StoreTID(w)
  \/ /\ found[w] = <<>>
     /\ Finish(w)
     /\ UNCHANGED callVars

WakeUp(w) == SpuriousWakeup(w) /\ UNCHANGED callVars

Call == SubmitRoot \/ Notify \/ StartDrain \/ Drain

SubtreeNext == Call \/ \E w \in Workers : Work(w) \/ WakeUp(w)

SubtreeSpec == SubtreeInit /\ [][SubtreeNext]_vars

\* Runnable threads are scheduled; no spurious wakeup is assumed.
FairSubtreeSpec == /\ SubtreeSpec
                   /\ WF_vars(Call)
                   /\ \A w \in Workers : WF_vars(Work(w))
-----------------------------------------------------------------------------
\* Every variable has its type.
SubtreeTypeOK ==
  /\ TypeOK
  /\ stage \in {"submit", "drain", "returned"}
  /\ next \in 1..(Len(Roots) + 1)
  /\ found \in [Workers -> Seq(Passes)]
  /\ slot \in [Workers -> Nat]
  /\ overlap \in BOOLEAN
  /\ results \in Seq(Passes \cup {Garbage})

\* Nobody writes to resultTIDs after partialMatch has returned it and its
\* caller may have deleted it.
ResultIsFinal == [][stage = "returned" => UNCHANGED <<results, slot>>]_vars

\* What the sequential walk over the same pointers would have returned.
Sequential == FlattenSeq([k \in 1..Len(Roots) |-> Walk[Roots[k]]])

\* How often t occurs in s.
Copies(s, t) == Cardinality({k \in DOMAIN s : s[k] = t})

\* partialMatch returns each TID that the sequential walk returns, as often,
\* whichever worker took which pointer, unless two push_backs overlapped: that
\* is the only way in which a TID is lost.
OnlyOverlapLoses ==
  stage = "returned" /\ ~overlap =>
    \A t \in Passes \cup {Garbage} : Copies(results, t) = Copies(Sequential, t)

\* Main returns, or spins for ever because every worker sleeps beside a queue
\* that is not empty; the call cannot hang in another way.
ReturnsOrLosesWakeup ==
  <>(stage = "returned") \/ <>[](m_queue # <<>> /\ AllAsleep)

\* src/main.cpp:516-520 compares each parallel result with the sequential one
\* and exits with "RESULT DIDN'T MATCH FOR" when a TID of it is missing.
ResultMatchesSequential ==
  stage = "returned" => Range(Sequential) \subseteq Range(results)
=============================================================================
