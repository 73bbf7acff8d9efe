-------------------------- MODULE MCNodeLevelMatch --------------------------
(***************************************************************************)
(* Two queries over a small index.  Query 1 collects two pointers: list a, *)
(* with entries below and inside the bounds, and list b, whose first entry *)
(* is a list inside the bounds and whose second entry is above them.       *)
(* Query 2 collects two rows, of which one passes.                         *)
(***************************************************************************)
EXTENDS NodeLevelMatch

CONSTANTS q1, q2, a, a1, a2, a3, b, b1, b2, c1, c2, d1, d2

MCQueries == <<q1, q2>>
MCLists == {q1, q2, a, b, b1}
MCTasks == {a, a1, a2, a3, b, b1, b2, c1, c2, d1, d2}
MCEntries == [l \in MCLists |-> CASE l = q1 -> <<a, b>>
                                  [] l = q2 -> <<d1, d2>>
                                  [] l = a -> <<a1, a2, a3>>
                                  [] l = b -> <<b1, b2>>
                                  [] l = b1 -> <<c1, c2>>]
MCVerdict == [n \in MCTasks |-> CASE n = a1 -> "below"
                                  [] n = b2 -> "above"
                                  [] OTHER -> "in"]
MCPasses == {a1, a2, a3, b2, c1, c2, d2}

\* One query whose two rows both pass: the smallest race on resultTIDs.
SmallQueries == <<q2>>
SmallLists == {q2}
SmallTasks == {d1, d2}
SmallEntries == [l \in SmallLists |-> <<d1, d2>>]
SmallVerdict == [n \in SmallTasks |-> "in"]
SmallPasses == {d1, d2}
=============================================================================
