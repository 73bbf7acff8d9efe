------------------------------ MODULE SeqScan ------------------------------
(***************************************************************************)
(* SeqScan (src/seqscan.h), the index without an index, as what every      *)
(* other one promises: a query is asked, and it is answered with the TIDs  *)
(* that a scan of the table accepts, in whatever order.                    *)
(***************************************************************************)
EXTENDS Store

CONSTANT NoAnswer  \* the query has not been answered

VARIABLES STORE,   \* the table
          query,   \* the query that is being answered, or NoQuery
          answer   \* the set of its TIDs, or NoAnswer

vars == <<STORE, query, answer>>

Init == STORE \in Tables /\ query = NoQuery /\ answer = NoAnswer

Ask == /\ query = NoQuery
       /\ query' \in Queries
       /\ UNCHANGED <<STORE, answer>>

Answer == /\ query # NoQuery
          /\ answer = NoAnswer
          /\ answer' = ScanAnswer(STORE, query)
          /\ UNCHANGED <<STORE, query>>

\* The caller has compared the answer and deletes it.
Forget == /\ answer # NoAnswer
          /\ query' = NoQuery
          /\ answer' = NoAnswer
          /\ UNCHANGED STORE

Next == Ask \/ Answer \/ Forget

Spec == Init /\ [][Next]_vars
=============================================================================
