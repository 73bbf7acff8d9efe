------------------------------- MODULE KDTree -------------------------------
(***************************************************************************)
(* MyKDTreeSmall (src/MyKDTreeSmall.h): a KD tree whose nodes lie one      *)
(* behind the other in one array, so that the TID of a node is its place.  *)
(*                                                                         *)
(* Every turn of a loop and every call of a recursive function is a step.  *)
(* The recursion of windowQuery and partialMatch is a stack of calls that  *)
(* have not begun.                                                         *)
(***************************************************************************)
EXTENDS Store, Sequences, Functions

CONSTANT NoAnswer  \* stands for the answer until there is one

ASSUME KDAssumption ==
  \A s \in Tables : \A a \in SUBSET (DOMAIN s \cup {NOT_FOUND}) : a # NoAnswer

NODE_SIZE == 3
HAS_NO_CHILD == 0
ROOT_OFFSET == 0

VARIABLES STORE,
          TREE,            \* a node for each offset that has been written
          nextNodeOffset,
          stage,           \* "new", "build", "ready", "exact", "match", "done"
          node,            \* the offset that insert or exactMatch has reached
          dimForCompare,   \* the dimension it compares next
          stack,           \* the calls of a recursive query still to be made
          query,
          result,          \* resultTIDs; what exactMatch returns
          path             \* history: the offsets where a row has been compared

buildVars == <<STORE, TREE, nextNodeOffset, path>>
queryVars == <<query, result, stack>>
vars == <<buildVars, queryVars, stage, node, dimForCompare>>

NUM_POINTS == Cardinality(DOMAIN STORE)
getTID(n) == n \div NODE_SIZE

\* The dimension of the next level.
NextDim(d) == IF d # NUM_DIM - 1 THEN d + 1 ELSE 0

\* The child of n on the side of a point.
Child(n, d, point) == IF point[d] <= TREE[n].value THEN TREE[n].left
                                                   ELSE TREE[n].right

\* What newKDNode writes.  The dimension is a history field: it is a parameter
\* of newKDNode, but the code does not store it.
NewNode(point, d) == [value |-> point[d], left |-> HAS_NO_CHILD,
                      right |-> HAS_NO_CHILD, dim |-> d]
-----------------------------------------------------------------------------
Init ==
  /\ STORE \in Tables
  /\ TREE = <<>>
  /\ nextNodeOffset = ROOT_OFFSET
  /\ stage = "new"
  /\ node = ROOT_OFFSET
  /\ dimForCompare = 0
  /\ stack = <<>>
  /\ query = NoQuery
  /\ result = <<>>
  /\ path = [t \in DOMAIN STORE |-> {}]

\* buildIndex: the root.
CreateRoot ==
  /\ stage = "new"
  /\ TREE' = [n \in {ROOT_OFFSET} |-> NewNode(STORE[0], 0)]
  /\ nextNodeOffset' = ROOT_OFFSET + NODE_SIZE
  /\ path' = [path EXCEPT ![0] = {ROOT_OFFSET}]
  /\ stage' = "build"
  /\ node' = ROOT_OFFSET
  /\ dimForCompare' = 0
  /\ UNCHANGED <<STORE, queryVars>>

\* The row that is being inserted: buildIndex inserts the TIDs in order, each
\* with one new node.
TID == nextNodeOffset \div NODE_SIZE

\* insert goes down to a child.
Descend ==
  /\ stage = "build"
  /\ TID < NUM_POINTS
  /\ Child(node, dimForCompare, STORE[TID]) # HAS_NO_CHILD
  /\ node' = Child(node, dimForCompare, STORE[TID])
  /\ dimForCompare' = NextDim(dimForCompare)
  /\ path' = [path EXCEPT ![TID] = @ \cup {node}]
  /\ UNCHANGED <<STORE, TREE, nextNodeOffset, queryVars, stage>>

\* Variant: a row that equals its parent on the dimension goes to the right.
OnLeftStrict(n, d, point) == point[d] < TREE[n].value

\* The side of the parent to which insert attaches a row.
OnLeft(n, d, point) == point[d] <= TREE[n].value

\* Variant: without the else.
ParentOfBoth(left) ==
  IF left THEN [TREE[node] EXCEPT !.left = nextNodeOffset,
                                  !.right = nextNodeOffset]
          ELSE [TREE[node] EXCEPT !.right = nextNodeOffset]

\* Variant: with the offset behind the new node, which is in nextNodeOffset by
\* then.
ParentOfNext(left) ==
  IF left THEN [TREE[node] EXCEPT !.left = nextNodeOffset + NODE_SIZE]
          ELSE [TREE[node] EXCEPT !.right = nextNodeOffset + NODE_SIZE]

\* The parent with the new node as its child.
ParentOf(left) == IF left THEN [TREE[node] EXCEPT !.left = nextNodeOffset]
                          ELSE [TREE[node] EXCEPT !.right = nextNodeOffset]

\* insert has found the parent, makes the node and attaches it; the loop of
\* buildIndex goes on with the next row.
Attach ==
  /\ stage = "build"
  /\ TID < NUM_POINTS
  /\ Child(node, dimForCompare, STORE[TID]) = HAS_NO_CHILD
  /\ TREE' = [n \in DOMAIN TREE \cup {nextNodeOffset} |->
                CASE n = nextNodeOffset -> NewNode(STORE[TID], NextDim(dimForCompare))
                  [] n = node -> ParentOf(OnLeft(node, dimForCompare, STORE[TID]))
                  [] OTHER -> TREE[n]]
  /\ path' = [path EXCEPT ![TID] = @ \cup {node, nextNodeOffset}]
  /\ nextNodeOffset' = nextNodeOffset + NODE_SIZE
  /\ node' = ROOT_OFFSET
  /\ dimForCompare' = 0
  /\ UNCHANGED <<STORE, queryVars, stage>>

Built ==
  /\ stage = "build"
  /\ TID = NUM_POINTS
  /\ stage' = "ready"
  /\ UNCHANGED <<buildVars, queryVars, node, dimForCompare>>
-----------------------------------------------------------------------------
\* A query begins at the root.
Ask ==
  /\ stage = "ready"
  /\ query' \in Queries
  /\ result' = <<>>
  /\ node' = ROOT_OFFSET
  /\ dimForCompare' = 0
  /\ IF query'.op = "exact"
     THEN stage' = "exact" /\ stack' = <<>>
     ELSE stage' = "match" /\ stack' = <<[node |-> ROOT_OFFSET, dim |-> 0]>>
  /\ UNCHANGED buildVars

\* One turn of the loop of exactMatch: the row of the node is the one asked
\* for, or the search goes down, or ends at a missing child.
Probe ==
  /\ stage = "exact"
  /\ LET found == /\ query.lower[dimForCompare] = TREE[node].value
                  /\ STORE[getTID(node)] = query.lower
         child == Child(node, dimForCompare, query.lower)
     IN \/ /\ found \/ child = HAS_NO_CHILD
           /\ result' = <<IF found THEN getTID(node) ELSE NOT_FOUND>>
           /\ stage' = "done"
           /\ UNCHANGED <<node, dimForCompare>>
        \/ /\ ~found
           /\ child # HAS_NO_CHILD
           /\ node' = child
           /\ dimForCompare' = NextDim(dimForCompare)
           /\ UNCHANGED <<stage, result>>
  /\ UNCHANGED <<buildVars, query, stack>>

\* Variant: the columns are not looked at.
SearchRightAll(q, d, value) == q.upper[d] >= value

\* Whether rows on a side of a node can be inside the bounds.
SearchLeft(q, d, value) == q.lower[d] <= value \/ ~q.columns[d]
SearchRight(q, d, value) == q.upper[d] >= value \/ ~q.columns[d]

\* The call for a child, if it exists and the test for its side succeeds.
CallFor(test, child, d) ==
  IF test /\ child # HAS_NO_CHILD
  THEN <<[node |-> child, dim |-> NextDim(d)]>> ELSE <<>>

\* One call of the recursive windowQuery or partialMatch.
Visit ==
  /\ stage = "match"
  /\ stack # <<>>
  /\ LET n == Head(stack).node
         d == Head(stack).dim
         value == TREE[n].value
     IN /\ result' = IF Accepts(query, STORE[getTID(n)])
                     THEN Append(result, getTID(n)) ELSE result
        /\ stack' = CallFor(SearchLeft(query, d, value), TREE[n].left, d)
                    \o CallFor(SearchRight(query, d, value), TREE[n].right, d)
                    \o Tail(stack)
  /\ UNCHANGED <<buildVars, query, stage, node, dimForCompare>>

Return ==
  /\ stage = "match"
  /\ stack = <<>>
  /\ stage' = "done"
  /\ UNCHANGED <<buildVars, queryVars, node, dimForCompare>>

\* delete resultTIDs, before the next query.
Forget ==
  /\ stage = "done"
  /\ stage' = "ready"
  /\ query' = NoQuery
  /\ result' = <<>>
  /\ UNCHANGED <<buildVars, stack, node, dimForCompare>>

Next == \/ CreateRoot \/ Descend \/ Attach \/ Built
        \/ Ask \/ Probe \/ Visit \/ Return \/ Forget

Spec == Init /\ [][Next]_vars
-----------------------------------------------------------------------------
Offsets == {NODE_SIZE * t : t \in DOMAIN STORE}

Node == [value : Nat, left : Offsets, right : Offsets, dim : Dims]

\* Every variable has its type; the nodes fill the array from the first word
\* on, one for each TID, and stay inside it.
KDTypeOK ==
  /\ STORE \in Tables
  /\ stage \in {"new", "build", "ready", "exact", "match", "done"}
  /\ nextNodeOffset \in {NODE_SIZE * t : t \in 0..NUM_POINTS}
  /\ stage = "new" <=> nextNodeOffset = ROOT_OFFSET
  /\ stage \notin {"new", "build"} => nextNodeOffset = NODE_SIZE * NUM_POINTS
  /\ TREE \in [{n \in Offsets : n < nextNodeOffset} -> Node]
  /\ node \in Offsets
  /\ stage # "new" => node < nextNodeOffset
  /\ dimForCompare \in Dims
  /\ stack \in Seq([node : DOMAIN TREE, dim : Dims])
  /\ query \in Queries \cup {NoQuery}
  /\ query = NoQuery <=> stage \in {"new", "build", "ready"}
  /\ result \in Seq(DOMAIN STORE \cup {NOT_FOUND})
  /\ path \in [DOMAIN STORE -> SUBSET Offsets]

\* The rows that have been inserted.
Inserted == {t \in DOMAIN STORE : NODE_SIZE * t < nextNodeOffset}

\* The search for any point meets each row that is in its way: from the root
\* on, the child on the side of an inserted row is again on the row's path,
\* until the row's own node is reached, although other rows have been attached
\* since.
RowsAreReachable ==
  \A t \in Inserted :
    /\ {ROOT_OFFSET, NODE_SIZE * t} \subseteq path[t]
    /\ \A n \in path[t] \ {NODE_SIZE * t} :
         Child(n, TREE[n].dim, STORE[t]) \in path[t] \ {HAS_NO_CHILD}

\* A recursive query pushes no TID twice: no node hangs below two others or on
\* both sides of one.
NoneTwice == IsInjective(result)

\* The tree answers every query as a scan does: the same TIDs, and for
\* exactMatch the first one; the tests on both sides of a node, with its ties,
\* and the cycling of the dimensions agree with those of insert.
Promise == INSTANCE SeqScan
             WITH answer <- IF stage = "done" THEN Range(result) ELSE NoAnswer

ImplementsSeqScan == Promise!Spec
=============================================================================
