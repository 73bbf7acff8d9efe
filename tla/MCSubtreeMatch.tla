--------------------------- MODULE MCSubtreeMatch ---------------------------
(***************************************************************************)
(* Three pointers: list a with values below, inside and above the bounds   *)
(* and one more above them, list b with a list inside it, and a row.       *)
(***************************************************************************)
EXTENDS SubtreeMatch

CONSTANTS a, a1, a2, a3, a4, b, b1, b2, c1, c2, d

MCNodes == {a, a1, a2, a3, a4, b, b1, b2, c1, c2, d}
MCEntries == [l \in {a, b, b1} |-> CASE l = a -> <<a1, a2, a3, a4>>
                                     [] l = b -> <<b1, b2>>
                                     [] l = b1 -> <<c1, c2>>]
MCVerdict == [n \in MCNodes |-> CASE n = a1 -> "below"
                                  [] n \in {a3, a4} -> "above"
                                  [] OTHER -> "in"]
MCPasses == MCNodes \ {a, b, b1, b2}

MCRoots == <<a, b, d>>
MCTasks == {a, b, d}
=============================================================================
