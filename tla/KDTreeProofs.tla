---------------------------- MODULE KDTreeProofs ----------------------------
(***************************************************************************)
(* Proofs about KDTree: for every table, every number of dimensions and    *)
(* every query, the tree answers what a scan of the table answers.         *)
(***************************************************************************)
EXTENDS KDTree, FiniteSetTheorems, SequenceTheorems, TLAPS

Kids(n) == {TREE[n].left, TREE[n].right} \ {HAS_NO_CHILD}
Side(n, point) == Child(n, TREE[n].dim, point)

\* The nodes are a tree: a node has the value of its row on its dimension, its
\* children come behind it, on the next dimension, and have no other parent.
ShapeInv ==
  /\ \A n \in DOMAIN TREE : TREE[n].value = STORE[getTID(n)][TREE[n].dim]
  /\ \A n \in DOMAIN TREE : n = ROOT_OFFSET => TREE[n].dim = 0
  /\ \A n \in DOMAIN TREE : \A c \in Kids(n) :
       c \in DOMAIN TREE /\ n < c /\ TREE[c].dim = NextDim(TREE[n].dim)
  /\ \A n \in DOMAIN TREE : TREE[n].left # HAS_NO_CHILD
                              => TREE[n].left # TREE[n].right
  /\ \A n, m \in DOMAIN TREE : \A c \in Kids(n) : c \in Kids(m) => n = m

\* The path of a row ends at its own node, and whoever is on it got there from
\* a parent that is on it too, on the row's side.
PathInv ==
  /\ \A t \in DOMAIN STORE : \A n \in path[t] :
       n \in DOMAIN TREE /\ n <= NODE_SIZE * t
  /\ \A t \in DOMAIN STORE : \A n \in DOMAIN TREE : \A c \in Kids(n) :
       c \in path[t] => n \in path[t] /\ Side(n, STORE[t]) = c
  /\ \A t \in DOMAIN STORE : NODE_SIZE * t > nextNodeOffset => path[t] = {}

\* The same for the row that is being inserted, whose path ends at the cursor.
CursorInv ==
  \A t \in DOMAIN STORE :
    stage = "build" /\ NODE_SIZE * t = nextNodeOffset =>
      /\ dimForCompare = TREE[node].dim
      /\ \A n \in DOMAIN TREE : node \in Kids(n)
                                  => n \in path[t] /\ Side(n, STORE[t]) = node
      /\ \A n \in path[t] :
           Side(n, STORE[t]) \in (path[t] \cup {node}) \ {HAS_NO_CHILD}
      /\ node = ROOT_OFFSET \/ ROOT_OFFSET \in path[t]

\* What a recursive query has pushed is right, what it has not is on the way of
\* a pending call, and of only one.
MatchInv ==
  stage = "match" =>
    /\ query.op # "exact"
    /\ \A i \in DOMAIN stack : stack[i].dim = TREE[stack[i].node].dim
    /\ Range(result) \subseteq Scan(STORE, query)
    /\ \A t \in Scan(STORE, query) :
         t \in Range(result) \/ \E i \in DOMAIN stack : stack[i].node \in path[t]
    /\ \A i, j \in DOMAIN stack : i # j =>
         \A t \in DOMAIN STORE : ~(stack[i].node \in path[t] /\ stack[j].node \in path[t])
    /\ \A t \in Range(result) : \A i \in DOMAIN stack : stack[i].node \notin path[t]

\* The search of exactMatch is on the path of each row that equals the point.
ExactInv ==
  stage = "exact" =>
    /\ query.op = "exact"
    /\ dimForCompare = TREE[node].dim
    /\ \A t \in DOMAIN STORE : STORE[t] = query.lower => node \in path[t]

DoneInv == stage = "done" => Range(result) = ScanAnswer(STORE, query)

BuildInv == KDTypeOK /\ ShapeInv /\ PathInv /\ RowsAreReachable /\ CursorInv
SearchInv == MatchInv /\ ExactInv /\ DoneInv /\ NoneTwice

\* The inductive invariant.
IInv == BuildInv /\ SearchInv
-----------------------------------------------------------------------------
\* The TIDs, the rows and the offsets of a table.
LEMMA StoreFacts ==
  ASSUME STORE \in Tables
  PROVE  /\ NUM_POINTS \in Nat /\ NUM_POINTS >= 1
         /\ DOMAIN STORE = 0..(NUM_POINTS - 1)
         /\ \A t \in DOMAIN STORE : STORE[t] \in Points
         /\ \A t \in DOMAIN STORE : \A d \in Dims : STORE[t][d] \in Nat
         /\ NOT_FOUND \notin DOMAIN STORE
         /\ 0 \in DOMAIN STORE
<1>1. /\ IsFiniteSet(DOMAIN STORE) /\ DOMAIN STORE # {}
      /\ STORE \in [0..(NUM_POINTS - 1) -> Points]
      /\ NOT_FOUND \notin DOMAIN STORE
  BY StoreAssumption DEF NUM_POINTS
<1>2. NUM_POINTS \in Nat /\ NUM_POINTS # 0
  BY <1>1, FS_CardinalityType, FS_EmptySet DEF NUM_POINTS
<1>3. QED
  BY <1>1, <1>2 DEF Points

\* A node's offset and its TID determine each other.
LEMMA OffsetFacts ==
  /\ \A t \in Nat : getTID(NODE_SIZE * t) = t
  /\ \A t \in Nat : NODE_SIZE * t \in Nat
  /\ \A t, u \in Nat :
       /\ NODE_SIZE * t < NODE_SIZE * u <=> t < u
       /\ NODE_SIZE * t = NODE_SIZE * u <=> t = u
       /\ NODE_SIZE * t <= NODE_SIZE * u <=> t <= u
  /\ \A t \in Nat : NODE_SIZE * (t + 1) = NODE_SIZE * t + NODE_SIZE
BY DEF getTID, NODE_SIZE

\* A sequence with one element.
LEMMA SingletonFacts ==
  ASSUME NEW S, NEW e \in S
  PROVE  /\ <<e>> \in Seq(S) /\ Len(<<e>>) = 1 /\ <<e>>[1] = e
         /\ Range(<<e>>) = {e} /\ IsInjective(<<e>>)
BY DEF Range, IsInjective

LEMMA DimFacts ==
  /\ 0 \in Dims
  /\ \A d \in Dims : NextDim(d) \in Dims
BY StoreAssumption DEF Dims, NextDim

LEMMA RootIsNode ==
  ASSUME KDTypeOK, stage # "new"
  PROVE  ROOT_OFFSET \in DOMAIN TREE
<1>1. 0 \in DOMAIN STORE /\ ROOT_OFFSET = NODE_SIZE * 0
  BY StoreFacts DEF KDTypeOK, ROOT_OFFSET, NODE_SIZE
<1>2. ROOT_OFFSET \in Offsets
  BY <1>1 DEF Offsets
<1>3. /\ nextNodeOffset # ROOT_OFFSET
      /\ \E t \in 0..NUM_POINTS : nextNodeOffset = NODE_SIZE * t
      /\ DOMAIN TREE = {n \in Offsets : n < nextNodeOffset}
  BY DEF KDTypeOK
<1>4. ROOT_OFFSET < nextNodeOffset
  <2>1. PICK t \in 0..NUM_POINTS : nextNodeOffset = NODE_SIZE * t
    BY <1>3
  <2>2. t \in Nat /\ t # 0
    BY <1>1, <1>3, <2>1
  <2>3. QED
    BY <2>1, <2>2 DEF ROOT_OFFSET, NODE_SIZE
<1>5. QED
  BY <1>2, <1>3, <1>4

\* What KDTypeOK says of the nodes.
LEMMA NodeFacts ==
  ASSUME KDTypeOK, NEW n \in DOMAIN TREE
  PROVE  /\ getTID(n) \in DOMAIN STORE
         /\ n = NODE_SIZE * getTID(n)
         /\ n \in Nat /\ n < nextNodeOffset
         /\ TREE[n] \in Node
         /\ TREE[n].dim \in Dims
         /\ TREE[n].value \in Nat /\ TREE[n].left \in Nat /\ TREE[n].right \in Nat
<1>1. /\ n \in Offsets /\ n < nextNodeOffset /\ TREE[n] \in Node
      /\ DOMAIN STORE \subseteq Nat
  BY StoreFacts DEF KDTypeOK
<1>2. PICK t \in DOMAIN STORE : n = NODE_SIZE * t
  BY <1>1 DEF Offsets
<1>3. \A o \in Offsets : o \in Nat
  BY <1>1, OffsetFacts DEF Offsets
<1>4. QED
  BY <1>1, <1>2, <1>3, OffsetFacts DEF Node

\* The row that is being inserted.
LEMMA TIDFacts ==
  ASSUME KDTypeOK, stage = "build", TID < NUM_POINTS
  PROVE  /\ TID \in DOMAIN STORE
         /\ nextNodeOffset = NODE_SIZE * TID
         /\ nextNodeOffset \in Offsets /\ nextNodeOffset \in Nat
         /\ nextNodeOffset # HAS_NO_CHILD
         /\ nextNodeOffset \notin DOMAIN TREE
         /\ node \in DOMAIN TREE
         /\ nextNodeOffset + NODE_SIZE = NODE_SIZE * (TID + 1)
<1>1. PICK t \in 0..NUM_POINTS : nextNodeOffset = NODE_SIZE * t
  BY DEF KDTypeOK
<1>2. NUM_POINTS \in Nat /\ DOMAIN STORE = 0..(NUM_POINTS - 1)
  BY StoreFacts DEF KDTypeOK
<1>3. TID = t
  BY <1>1, <1>2, OffsetFacts DEF TID, getTID
<1>4. /\ DOMAIN TREE = {n \in Offsets : n < nextNodeOffset}
      /\ node \in Offsets /\ node < nextNodeOffset /\ nextNodeOffset # ROOT_OFFSET
  BY DEF KDTypeOK
<1>5. TID \in DOMAIN STORE
  BY <1>2, <1>3
<1>6. nextNodeOffset \in Offsets /\ nextNodeOffset \in Nat
  <2>1. nextNodeOffset = NODE_SIZE * TID /\ TID \in Nat
    BY <1>1, <1>2, <1>3
  <2>2. QED
    BY <2>1, <1>5, OffsetFacts DEF Offsets
<1>7. QED
  BY <1>1, <1>2, <1>3, <1>4, <1>5, <1>6, OffsetFacts DEF ROOT_OFFSET, HAS_NO_CHILD

\* What Attach does to the tree: one more leaf below the cursor, on the side of
\* the row, where there was no child; everybody else keeps his children.
LEMMA AttachFacts ==
  ASSUME KDTypeOK, CursorInv, Attach
  PROVE  /\ DOMAIN TREE' = DOMAIN TREE \cup {nextNodeOffset}
         /\ TREE'[nextNodeOffset] = NewNode(STORE[TID], NextDim(TREE[node].dim))
         /\ \A n \in DOMAIN TREE' : n = nextNodeOffset => Kids(n)' = {}
         /\ \A n \in DOMAIN TREE :
              /\ TREE'[n].dim = TREE[n].dim
              /\ TREE'[n].value = TREE[n].value
         /\ \A n \in DOMAIN TREE : n # node => TREE'[n] = TREE[n]
         /\ \A n \in DOMAIN TREE :
              Kids(n)' = Kids(n) \cup (IF n = node THEN {nextNodeOffset} ELSE {})
         /\ \A n \in DOMAIN TREE : \A t \in DOMAIN STORE :
              Side(n, STORE[t]) # HAS_NO_CHILD
                => Side(n, STORE[t])' = Side(n, STORE[t])
         /\ \A n \in DOMAIN TREE : \A t \in DOMAIN STORE :
              n = node /\ t = TID => Side(n, STORE[t])' = nextNodeOffset
         /\ dimForCompare = TREE[node].dim
         /\ TREE'[node] \in {[TREE[node] EXCEPT !.left = nextNodeOffset],
                             [TREE[node] EXCEPT !.right = nextNodeOffset]}
         /\ TREE[node].left = HAS_NO_CHILD \/ TREE[node].right = HAS_NO_CHILD
<1>1. stage = "build" /\ TID < NUM_POINTS /\ STORE' = STORE
      /\ Child(node, dimForCompare, STORE[TID]) = HAS_NO_CHILD
  BY DEF Attach
<1>2. /\ TID \in DOMAIN STORE /\ nextNodeOffset = NODE_SIZE * TID
      /\ nextNodeOffset # HAS_NO_CHILD /\ nextNodeOffset \notin DOMAIN TREE
      /\ node \in DOMAIN TREE
  BY <1>1, TIDFacts
<1>3. dimForCompare = TREE[node].dim
  BY <1>1, <1>2 DEF CursorInv
<1>4. TREE[node] \in Node
  BY <1>2, NodeFacts
<1> DEFINE goesLeft == OnLeft(node, dimForCompare, STORE[TID])
<1>5. /\ DOMAIN TREE' = DOMAIN TREE \cup {nextNodeOffset}
      /\ TREE'[nextNodeOffset] = NewNode(STORE[TID], NextDim(dimForCompare))
      /\ TREE'[node] = ParentOf(goesLeft)
      /\ \A n \in DOMAIN TREE : n # node => TREE'[n] = TREE[n]
  BY <1>2 DEF Attach
<1>6. CASE goesLeft
  <2>1. TREE[node].left = HAS_NO_CHILD
    BY <1>1, <1>6 DEF Child, OnLeft
  <2>2. TREE'[node] = [TREE[node] EXCEPT !.left = nextNodeOffset]
    BY <1>5, <1>6 DEF ParentOf
  <2>3. /\ TREE'[node].left = nextNodeOffset
        /\ TREE'[node].right = TREE[node].right
        /\ TREE'[node].dim = TREE[node].dim
        /\ TREE'[node].value = TREE[node].value
    BY <2>2, <1>4 DEF Node
  <2>4. \A n \in DOMAIN TREE : \A t \in DOMAIN STORE :
          Side(n, STORE[t]) # HAS_NO_CHILD
            => Side(n, STORE[t])' = Side(n, STORE[t])
    BY <1>1, <1>5, <2>1, <2>3 DEF Side, Child
  <2>5. ASSUME NEW n \in DOMAIN TREE, NEW t \in DOMAIN STORE, n = node, t = TID
        PROVE  Side(n, STORE[t])' = nextNodeOffset
    BY <1>1, <1>3, <1>6, <2>3, <2>5 DEF Side, Child, OnLeft
  <2>6. \A n \in DOMAIN TREE :
          Kids(n)' = Kids(n) \cup (IF n = node THEN {nextNodeOffset} ELSE {})
    BY <1>2, <1>5, <2>1, <2>3 DEF Kids
  <2>7. \A n \in DOMAIN TREE' : n = nextNodeOffset => Kids(n)' = {}
    BY <1>5 DEF Kids, NewNode
  <2>8. QED
    BY <1>3, <1>5, <2>1, <2>2, <2>3, <2>4, <2>5, <2>6, <2>7
<1>7. CASE ~goesLeft
  <2>1. TREE[node].right = HAS_NO_CHILD
    BY <1>1, <1>7 DEF Child, OnLeft
  <2>2. TREE'[node] = [TREE[node] EXCEPT !.right = nextNodeOffset]
    BY <1>5, <1>7 DEF ParentOf
  <2>3. /\ TREE'[node].right = nextNodeOffset
        /\ TREE'[node].left = TREE[node].left
        /\ TREE'[node].dim = TREE[node].dim
        /\ TREE'[node].value = TREE[node].value
    BY <2>2, <1>4 DEF Node
  <2>4. \A n \in DOMAIN TREE : \A t \in DOMAIN STORE :
          Side(n, STORE[t]) # HAS_NO_CHILD
            => Side(n, STORE[t])' = Side(n, STORE[t])
    BY <1>1, <1>5, <2>1, <2>3 DEF Side, Child
  <2>5. ASSUME NEW n \in DOMAIN TREE, NEW t \in DOMAIN STORE, n = node, t = TID
        PROVE  Side(n, STORE[t])' = nextNodeOffset
    BY <1>1, <1>3, <1>7, <2>3, <2>5 DEF Side, Child, OnLeft
  <2>6. \A n \in DOMAIN TREE :
          Kids(n)' = Kids(n) \cup (IF n = node THEN {nextNodeOffset} ELSE {})
    BY <1>2, <1>5, <2>1, <2>3 DEF Kids
  <2>7. \A n \in DOMAIN TREE' : n = nextNodeOffset => Kids(n)' = {}
    BY <1>5 DEF Kids, NewNode
  <2>8. QED
    BY <1>3, <1>5, <2>1, <2>2, <2>3, <2>4, <2>5, <2>6, <2>7
<1>8. QED
  BY <1>6, <1>7
-----------------------------------------------------------------------------
LEMMA InitTypeOK == Init => KDTypeOK
<1> SUFFICES ASSUME Init PROVE KDTypeOK
  OBVIOUS
<1>1. STORE \in Tables /\ NUM_POINTS \in Nat /\ DOMAIN STORE = 0..(NUM_POINTS - 1)
      /\ 0 \in DOMAIN STORE
  BY StoreFacts DEF Init
<1>2. /\ ROOT_OFFSET \in Offsets
      /\ ROOT_OFFSET \in {NODE_SIZE * t : t \in 0..NUM_POINTS}
      /\ {n \in Offsets : n < ROOT_OFFSET} = {}
  <2>1. ROOT_OFFSET = NODE_SIZE * 0
    BY DEF ROOT_OFFSET, NODE_SIZE
  <2>2. \A n \in Offsets : ~(n < ROOT_OFFSET)
    BY <1>1 DEF Offsets, ROOT_OFFSET, NODE_SIZE
  <2>3. QED
    BY <1>1, <2>1, <2>2 DEF Offsets
<1>3. TREE \in [{} -> Node]
  BY DEF Init
<1>4. path \in [DOMAIN STORE -> SUBSET Offsets]
  BY DEF Init
<1>5. /\ stack = <<>> /\ result = <<>> /\ query = NoQuery /\ stage = "new"
      /\ nextNodeOffset = ROOT_OFFSET /\ node = ROOT_OFFSET /\ dimForCompare = 0
  BY DEF Init
<1>6. /\ <<>> \in Seq([node : DOMAIN TREE, dim : Dims])
      /\ <<>> \in Seq(DOMAIN STORE \cup {NOT_FOUND})
  BY EmptySeq
<1>7. QED
  BY <1>1, <1>2, <1>3, <1>4, <1>5, <1>6, DimFacts DEF KDTypeOK

\* Steps that leave the tree alone keep the part of the invariant about it.
LEMMA TreeUnchanged ==
  ASSUME UNCHANGED buildVars
  PROVE  /\ ShapeInv => ShapeInv'
         /\ PathInv => PathInv'
         /\ RowsAreReachable => RowsAreReachable'
BY DEF buildVars, ShapeInv, PathInv, RowsAreReachable, Inserted, Kids, Side, Child

\* The types of a child.
LEMMA ChildFacts ==
  ASSUME KDTypeOK, ShapeInv, NEW n \in DOMAIN TREE, NEW d, NEW p,
         Child(n, d, p) # HAS_NO_CHILD
  PROVE  /\ Child(n, d, p) \in Kids(n)
         /\ Child(n, d, p) \in DOMAIN TREE
         /\ n < Child(n, d, p)
         /\ TREE[Child(n, d, p)].dim = NextDim(TREE[n].dim)
BY DEF Child, Kids, ShapeInv

LEMMA RootTypeOK ==
  ASSUME KDTypeOK, CreateRoot
  PROVE  /\ KDTypeOK'
         /\ TREE' \in [{ROOT_OFFSET} -> Node]
         /\ TREE'[ROOT_OFFSET] = NewNode(STORE[0], 0)
<1>1. /\ STORE \in Tables /\ STORE' = STORE
      /\ NUM_POINTS \in Nat /\ NUM_POINTS >= 1 /\ NUM_POINTS' = NUM_POINTS
      /\ DOMAIN STORE = 0..(NUM_POINTS - 1)
      /\ 0 \in DOMAIN STORE
      /\ \A d \in Dims : STORE[0][d] \in Nat
      /\ DOMAIN STORE \subseteq Nat
  BY StoreFacts DEF KDTypeOK, CreateRoot, NUM_POINTS
<1>2. ROOT_OFFSET \in Offsets
  <2>1. ROOT_OFFSET = NODE_SIZE * 0
    BY DEF ROOT_OFFSET, NODE_SIZE
  <2>2. QED
    BY <1>1, <2>1 DEF Offsets
<1>3. {n \in Offsets : n < NODE_SIZE} = {ROOT_OFFSET}
  <2>1. ASSUME NEW t \in DOMAIN STORE, NODE_SIZE * t < NODE_SIZE
        PROVE  NODE_SIZE * t = ROOT_OFFSET
    BY <1>1, <2>1 DEF ROOT_OFFSET, NODE_SIZE
  <2>2. QED
    BY <1>2, <2>1 DEF Offsets, ROOT_OFFSET, NODE_SIZE
<1>4. NewNode(STORE[0], 0) \in Node
  BY <1>1, <1>2, DimFacts DEF NewNode, Node, HAS_NO_CHILD, ROOT_OFFSET
<1>5. TREE' \in [{ROOT_OFFSET} -> Node] /\ TREE'[ROOT_OFFSET] = NewNode(STORE[0], 0)
  BY <1>4 DEF CreateRoot
<1>6. nextNodeOffset' = NODE_SIZE * 1 /\ nextNodeOffset' = NODE_SIZE
  BY DEF CreateRoot, ROOT_OFFSET, NODE_SIZE
<1>7. /\ stage = "new" /\ stage' = "build" /\ node' = ROOT_OFFSET /\ dimForCompare' = 0
      /\ UNCHANGED <<query, result, stack>>
  BY DEF CreateRoot, queryVars
<1>8. path' \in [DOMAIN STORE -> SUBSET Offsets]
  BY <1>1, <1>2 DEF CreateRoot, KDTypeOK
<1>9. stack' \in Seq([node : DOMAIN TREE', dim : Dims])
  <2>1. DOMAIN TREE = {}
    <3>1. \A n \in Offsets : n < ROOT_OFFSET => FALSE
      BY <1>1 DEF Offsets, ROOT_OFFSET, NODE_SIZE
    <3>2. QED
      BY <3>1, <1>7 DEF KDTypeOK
  <2>2. stack \in Seq([node : DOMAIN TREE, dim : Dims])
    BY DEF KDTypeOK
  <2>3. QED
    BY <1>5, <1>7, <2>1, <2>2, SeqMonotonic
<1>10. Offsets' = Offsets /\ Node' = Node
  BY <1>1 DEF Offsets, Node
<1>11. /\ nextNodeOffset' \in {NODE_SIZE * t : t \in 0..NUM_POINTS'}
       /\ nextNodeOffset' # ROOT_OFFSET /\ ROOT_OFFSET < nextNodeOffset'
  BY <1>1, <1>6 DEF ROOT_OFFSET, NODE_SIZE
<1>12. TREE' \in [{n \in Offsets' : n < nextNodeOffset'} -> Node']
  BY <1>3, <1>5, <1>6, <1>10
<1>13. /\ query' \in Queries \cup {NoQuery}
       /\ query' = NoQuery
       /\ result' \in Seq(DOMAIN STORE' \cup {NOT_FOUND})
  BY <1>1, <1>7 DEF KDTypeOK
<1>14. KDTypeOK'
  BY <1>1, <1>2, <1>7, <1>8, <1>9, <1>10, <1>11, <1>12, <1>13, DimFacts DEF KDTypeOK
<1>15. QED
  BY <1>5, <1>14

LEMMA AttachTypeOK ==
  ASSUME KDTypeOK, CursorInv, Attach
  PROVE  KDTypeOK'
<1>1. /\ STORE \in Tables /\ STORE' = STORE /\ NUM_POINTS' = NUM_POINTS
      /\ NUM_POINTS \in Nat
      /\ DOMAIN STORE = 0..(NUM_POINTS - 1)
      /\ \A t \in DOMAIN STORE : \A d \in Dims : STORE[t][d] \in Nat
      /\ stage = "build" /\ stage' = "build" /\ TID < NUM_POINTS
      /\ UNCHANGED <<query, result, stack>>
      /\ nextNodeOffset' = nextNodeOffset + NODE_SIZE
      /\ node' = ROOT_OFFSET /\ dimForCompare' = 0
  BY StoreFacts DEF KDTypeOK, Attach, NUM_POINTS, queryVars
<1>2. /\ TID \in DOMAIN STORE
      /\ nextNodeOffset = NODE_SIZE * TID
      /\ nextNodeOffset \in Offsets /\ nextNodeOffset \in Nat
      /\ nextNodeOffset # HAS_NO_CHILD
      /\ nextNodeOffset \notin DOMAIN TREE
      /\ node \in DOMAIN TREE
      /\ nextNodeOffset' = NODE_SIZE * (TID + 1)
  BY <1>1, TIDFacts
<1>3. nextNodeOffset' \in {NODE_SIZE * t : t \in 0..NUM_POINTS}
  <2>1. TID + 1 \in 0..NUM_POINTS
    BY <1>1, <1>2
  <2>2. QED
    BY <1>2, <2>1
<1>4. /\ DOMAIN TREE = {n \in Offsets : n < nextNodeOffset}
      /\ TREE \in [DOMAIN TREE -> Node] /\ ROOT_OFFSET < nextNodeOffset
      /\ ROOT_OFFSET \in Offsets
  <2>1. ROOT_OFFSET = NODE_SIZE * 0 /\ 0 \in DOMAIN STORE
    BY <1>1, <1>2 DEF ROOT_OFFSET, NODE_SIZE
  <2>2. ROOT_OFFSET \in Offsets
    BY <2>1 DEF Offsets
  <2>3. ROOT_OFFSET < nextNodeOffset
    BY <1>2 DEF ROOT_OFFSET, HAS_NO_CHILD
  <2>4. QED
    BY <2>2, <2>3 DEF KDTypeOK
<1>5. DOMAIN TREE' = {n \in Offsets : n < nextNodeOffset'}
  <2>1. ASSUME NEW t \in DOMAIN STORE
        PROVE  NODE_SIZE * t < nextNodeOffset' <=>
                 NODE_SIZE * t < nextNodeOffset \/ NODE_SIZE * t = nextNodeOffset
    <3>1. t \in Nat /\ TID \in Nat /\ TID + 1 \in Nat
      BY <1>1, <1>2
    <3>2. t < TID + 1 <=> t < TID \/ t = TID
      BY <3>1
    <3>3. QED
      BY <1>2, <3>1, <3>2, OffsetFacts
  <2>2. \A n \in Offsets : n < nextNodeOffset' <=>
                             n < nextNodeOffset \/ n = nextNodeOffset
    BY <2>1 DEF Offsets
  <2>3. DOMAIN TREE' = DOMAIN TREE \cup {nextNodeOffset}
    BY AttachFacts
  <2>4. QED
    BY <1>2, <1>4, <2>2, <2>3
<1>6. \A n \in DOMAIN TREE' : TREE'[n] \in Node
  <2>1. TREE'[nextNodeOffset] \in Node
    <3>1. NextDim(TREE[node].dim) \in Dims
      BY <1>2, NodeFacts, DimFacts
    <3>2. TREE'[nextNodeOffset] = NewNode(STORE[TID], NextDim(TREE[node].dim))
      BY AttachFacts
    <3>3. QED
      BY <1>1, <1>2, <1>4, <3>1, <3>2 DEF NewNode, Node, HAS_NO_CHILD, ROOT_OFFSET
  <2>2. TREE'[node] \in Node
    <3>1. TREE[node] \in Node
      BY <1>2, <1>4
    <3>2. TREE'[node] \in {[TREE[node] EXCEPT !.left = nextNodeOffset],
                           [TREE[node] EXCEPT !.right = nextNodeOffset]}
      BY AttachFacts
    <3>3. QED
      BY <1>2, <3>1, <3>2 DEF Node
  <2>3. \A n \in DOMAIN TREE : n # node => TREE'[n] = TREE[n]
    BY AttachFacts
  <2>4. DOMAIN TREE' = DOMAIN TREE \cup {nextNodeOffset}
    BY AttachFacts
  <2>5. QED
    BY <1>4, <2>1, <2>2, <2>3, <2>4
<1>7. TREE' \in [{n \in Offsets : n < nextNodeOffset'} -> Node]
  <2>1. TREE' = [n \in DOMAIN TREE' |-> TREE'[n]]
    BY DEF Attach
  <2>2. QED
    BY <1>5, <1>6, <2>1
<1>8. path' \in [DOMAIN STORE -> SUBSET Offsets]
  <2>1. node \in Offsets
    BY DEF KDTypeOK
  <2>2. QED
    BY <1>2, <2>1 DEF Attach, KDTypeOK
<1>9. stack' \in Seq([node : DOMAIN TREE', dim : Dims])
  <2>1. stack \in Seq([node : DOMAIN TREE, dim : Dims])
    BY DEF KDTypeOK
  <2>2. [node : DOMAIN TREE, dim : Dims] \subseteq [node : DOMAIN TREE', dim : Dims]
    BY AttachFacts
  <2>3. QED
    BY <1>1, <2>1, <2>2, SeqMonotonic
<1>10. ROOT_OFFSET < nextNodeOffset' /\ nextNodeOffset' # ROOT_OFFSET
  BY <1>1, <1>2, <1>4 DEF ROOT_OFFSET, NODE_SIZE
<1>11. Offsets' = Offsets /\ Node' = Node
  BY <1>1 DEF Offsets, Node
<1>12. /\ query \in Queries \cup {NoQuery}
       /\ query = NoQuery
       /\ result \in Seq(DOMAIN STORE \cup {NOT_FOUND})
  BY <1>1 DEF KDTypeOK
<1>13. QED
  BY <1>1, <1>3, <1>4, <1>7, <1>8, <1>9, <1>10, <1>11, <1>12, DimFacts DEF KDTypeOK

\* The steps of the build that make no node.
LEMMA BuildTypeOK ==
  ASSUME KDTypeOK, ShapeInv, Descend \/ Built
  PROVE  KDTypeOK'
<1>1. NUM_POINTS' = NUM_POINTS /\ Offsets' = Offsets /\ Node' = Node /\ STORE' = STORE
  BY DEF Descend, Built, buildVars, NUM_POINTS, Offsets, Node
<1>2. CASE Descend
  <2>1. stage = "build" /\ TID < NUM_POINTS
    BY <1>2 DEF Descend
  <2>2. /\ TID \in DOMAIN STORE /\ node \in DOMAIN TREE
        /\ node \in Offsets /\ dimForCompare \in Dims
    BY <2>1, TIDFacts DEF KDTypeOK
  <2>3. node' \in DOMAIN TREE
    BY <1>2, <2>2, ChildFacts DEF Descend
  <2>4. node' \in Offsets /\ node' < nextNodeOffset
    BY <2>3 DEF KDTypeOK
  <2>5. dimForCompare' \in Dims
    BY <1>2, <2>2, DimFacts DEF Descend
  <2>6. path' \in [DOMAIN STORE -> SUBSET Offsets]
    BY <1>2, <2>2 DEF Descend, KDTypeOK
  <2>7. UNCHANGED <<STORE, TREE, nextNodeOffset, query, result, stack, stage>>
    BY <1>2 DEF Descend, queryVars
  <2>8. QED
    BY <1>1, <2>4, <2>5, <2>6, <2>7 DEF KDTypeOK
<1>3. CASE Built
  <2>1. nextNodeOffset = NODE_SIZE * NUM_POINTS /\ nextNodeOffset # ROOT_OFFSET
    <3>1. PICK t \in 0..NUM_POINTS : nextNodeOffset = NODE_SIZE * t
      BY DEF KDTypeOK
    <3>2. TID = t
      BY <3>1, OffsetFacts, StoreFacts DEF TID, getTID, KDTypeOK
    <3>3. QED
      BY <1>3, <3>1, <3>2 DEF Built, KDTypeOK
  <2>2. QED
    BY <1>1, <1>3, <2>1 DEF Built, buildVars, queryVars, KDTypeOK
<1>4. QED
  BY <1>2, <1>3
-----------------------------------------------------------------------------
LEMMA InitBuild == Init => BuildInv
<1> SUFFICES ASSUME Init PROVE BuildInv
  OBVIOUS
<1>1. KDTypeOK
  BY InitTypeOK
<1>2. /\ DOMAIN TREE = {} /\ stage = "new" /\ nextNodeOffset = 0
      /\ \A t \in DOMAIN STORE : path[t] = {}
      /\ DOMAIN STORE \subseteq Nat
  BY StoreFacts DEF Init, ROOT_OFFSET
<1>3. Inserted = {}
  BY <1>2 DEF Inserted, NODE_SIZE
<1>4. QED
  BY <1>1, <1>2, <1>3 DEF BuildInv, ShapeInv, PathInv, RowsAreReachable, CursorInv

LEMMA RootBuild ==
  ASSUME BuildInv, CreateRoot
  PROVE  BuildInv'
<1>1. KDTypeOK /\ KDTypeOK' /\ TREE' \in [{ROOT_OFFSET} -> Node]
      /\ TREE'[ROOT_OFFSET] = NewNode(STORE[0], 0)
  BY RootTypeOK DEF BuildInv
<1>2. /\ STORE' = STORE /\ stage' = "build" /\ stage = "new"
      /\ nextNodeOffset = ROOT_OFFSET
      /\ nextNodeOffset' = NODE_SIZE /\ node' = ROOT_OFFSET /\ dimForCompare' = 0
      /\ path' = [path EXCEPT ![0] = {ROOT_OFFSET}]
      /\ path \in [DOMAIN STORE -> SUBSET Offsets]
      /\ DOMAIN STORE \subseteq Nat /\ 0 \in DOMAIN STORE
  BY <1>1, StoreFacts DEF CreateRoot, KDTypeOK, ROOT_OFFSET, NODE_SIZE
<1>3. /\ TREE'[ROOT_OFFSET].value = STORE[0][0]
      /\ TREE'[ROOT_OFFSET].left = HAS_NO_CHILD
      /\ TREE'[ROOT_OFFSET].right = HAS_NO_CHILD
      /\ TREE'[ROOT_OFFSET].dim = 0
      /\ DOMAIN TREE' = {ROOT_OFFSET}
  BY <1>1 DEF NewNode
<1>4. \A n \in DOMAIN TREE' : Kids(n)' = {}
  BY <1>3 DEF Kids
<1>5. getTID(ROOT_OFFSET) = 0
  BY DEF getTID, ROOT_OFFSET, NODE_SIZE
<1>6. ShapeInv'
  <2>1. \A n \in DOMAIN TREE' : TREE'[n].value = STORE'[getTID(n)][TREE'[n].dim]
    BY <1>2, <1>3, <1>5
  <2>2. QED
    BY <2>1, <1>2, <1>3, <1>4, <1>5 DEF ShapeInv
<1>7. \A t \in DOMAIN STORE : path'[t] = IF t = 0 THEN {ROOT_OFFSET} ELSE {}
  <2>1. \A t \in DOMAIN STORE : t # 0 => NODE_SIZE * t > nextNodeOffset
    BY <1>2 DEF NODE_SIZE, ROOT_OFFSET
  <2>2. QED
    BY <1>2, <2>1 DEF BuildInv, PathInv
<1>8. PathInv'
  BY <1>2, <1>3, <1>4, <1>7 DEF PathInv, NODE_SIZE, ROOT_OFFSET
<1>9. RowsAreReachable'
  <2>1. \A t \in Inserted' : t = 0
    BY <1>2 DEF Inserted, NODE_SIZE
  <2>2. QED
    BY <2>1, <1>2, <1>7 DEF RowsAreReachable, NODE_SIZE, ROOT_OFFSET
<1>10. CursorInv'
  <2>1. \A t \in DOMAIN STORE : NODE_SIZE * t = nextNodeOffset' => path'[t] = {}
    BY <1>2, <1>7 DEF NODE_SIZE
  <2>2. QED
    BY <2>1, <1>2, <1>3, <1>4 DEF CursorInv
<1>11. QED
  BY <1>1, <1>6, <1>8, <1>9, <1>10 DEF BuildInv

LEMMA DescendBuild ==
  ASSUME BuildInv, Descend
  PROVE  BuildInv'
<1> USE DEF BuildInv
<1>1. KDTypeOK'
  BY BuildTypeOK
<1>2. /\ UNCHANGED <<STORE, TREE, nextNodeOffset, stage>>
      /\ stage = "build" /\ TID < NUM_POINTS
      /\ node' = Child(node, dimForCompare, STORE[TID]) /\ node' # HAS_NO_CHILD
      /\ dimForCompare' = NextDim(dimForCompare)
      /\ DOMAIN STORE \subseteq Nat
  <2>1. UNCHANGED <<STORE, TREE, nextNodeOffset, stage>>
    BY DEF Descend
  <2>2. DOMAIN STORE \subseteq Nat
    BY StoreFacts DEF KDTypeOK
  <2>3. QED
    BY <2>1, <2>2 DEF Descend
<1>3. /\ TID \in DOMAIN STORE /\ nextNodeOffset = NODE_SIZE * TID
      /\ node \in DOMAIN TREE
  BY <1>2, TIDFacts
<1>4. dimForCompare = TREE[node].dim /\ node' = Side(node, STORE[TID])
  BY <1>2, <1>3 DEF CursorInv, Side
<1>5. /\ node' \in Kids(node) /\ node' \in DOMAIN TREE
      /\ TREE[node'].dim = NextDim(TREE[node].dim)
  BY <1>2, <1>3, ChildFacts
<1>6. \A t \in DOMAIN STORE : path'[t] = path[t] \cup (IF t = TID THEN {node} ELSE {})
  BY <1>3 DEF Descend, KDTypeOK
<1>7. \A n \in DOMAIN TREE : Kids(n)' = Kids(n)
  BY <1>2 DEF Kids
<1>8. \A n \in DOMAIN TREE : \A t \in DOMAIN STORE : Side(n, STORE[t])' = Side(n, STORE[t])
  BY <1>2 DEF Side, Child
<1>9. ShapeInv'
  BY <1>2 DEF ShapeInv, Kids
<1>10. PathInv'
  <2>1. ASSUME NEW t \in DOMAIN STORE, NEW n \in path'[t]
        PROVE  n \in DOMAIN TREE /\ n <= NODE_SIZE * t
    <3>1. CASE n \in path[t]
      BY <3>1 DEF PathInv
    <3>2. CASE n = node /\ t = TID
      BY <1>3, <3>2, NodeFacts, OffsetFacts
    <3>3. QED
      BY <1>6, <2>1, <3>1, <3>2
  <2>2. ASSUME NEW t \in DOMAIN STORE, NEW n \in DOMAIN TREE, NEW c \in Kids(n),
               c \in path'[t]
        PROVE  n \in path'[t] /\ Side(n, STORE[t]) = c
    <3>1. CASE c \in path[t]
      BY <1>6, <3>1 DEF PathInv
    <3>2. CASE c = node /\ t = TID
      BY <1>2, <1>3, <1>6, <3>2 DEF CursorInv
    <3>3. QED
      BY <1>6, <2>2, <3>1, <3>2
  <2>3. ASSUME NEW t \in DOMAIN STORE, NODE_SIZE * t > nextNodeOffset
        PROVE  path'[t] = {}
    <3>1. t # TID
      BY <1>2, <1>3, <2>3, OffsetFacts
    <3>2. QED
      BY <1>6, <2>3, <3>1 DEF PathInv
  <2>4. QED
    BY <1>2, <1>7, <1>8, <2>1, <2>2, <2>3 DEF PathInv
<1>11. RowsAreReachable'
  <2>1. ASSUME NEW t \in Inserted
        PROVE  t # TID /\ t \in DOMAIN STORE
    BY <1>2, <1>3, OffsetFacts DEF Inserted
  <2>2. ASSUME NEW t \in Inserted
        PROVE  path'[t] = path[t]
    BY <1>6, <2>1
  <2>3. Inserted' = Inserted
    BY <1>2 DEF Inserted
  <2>4. QED
    BY <1>2, <2>2, <2>3 DEF RowsAreReachable, Child
<1>12. CursorInv'
  <2>1. ASSUME NEW t \in DOMAIN STORE, NODE_SIZE * t = nextNodeOffset
        PROVE  t = TID
    BY <1>2, <1>3, <2>1, OffsetFacts
  <2>2. dimForCompare' = TREE[node'].dim
    BY <1>2, <1>4, <1>5
  <2>3. ASSUME NEW n \in DOMAIN TREE, node' \in Kids(n)
        PROVE  n \in path'[TID] /\ Side(n, STORE[TID]) = node'
    <3>1. n = node
      BY <1>3, <1>5, <2>3 DEF ShapeInv
    <3>2. QED
      BY <1>3, <1>4, <1>6, <3>1
  <2>4. ASSUME NEW n \in path'[TID]
        PROVE  Side(n, STORE[TID]) \in (path'[TID] \cup {node'}) \ {HAS_NO_CHILD}
    <3>1. CASE n \in path[TID]
      <4>1. Side(n, STORE[TID]) \in (path[TID] \cup {node}) \ {HAS_NO_CHILD}
        BY <1>2, <1>3, <3>1 DEF CursorInv
      <4>2. QED
        BY <1>3, <1>6, <4>1
    <3>2. CASE n = node
      BY <1>2, <1>4, <3>2
    <3>3. QED
      BY <1>3, <1>6, <2>4, <3>1, <3>2
  <2>5. ROOT_OFFSET \in path'[TID]
    BY <1>2, <1>3, <1>6 DEF CursorInv
  <2>6. QED
    <3> SUFFICES ASSUME NEW t \in DOMAIN STORE', (stage = "build")',
                        (NODE_SIZE * t = nextNodeOffset)'
                 PROVE  /\ (dimForCompare = TREE[node].dim)'
                        /\ (\A n \in DOMAIN TREE : node \in Kids(n)
                             => n \in path[t] /\ Side(n, STORE[t]) = node)'
                        /\ (\A n \in path[t] :
                              Side(n, STORE[t]) \in
                                (path[t] \cup {node}) \ {HAS_NO_CHILD})'
                        /\ (node = ROOT_OFFSET \/ ROOT_OFFSET \in path[t])'
      BY DEF CursorInv
    <3>1. t = TID /\ t \in DOMAIN STORE
      BY <1>2, <2>1
    <3>2. \A n \in path'[TID] : n \in DOMAIN TREE
      BY <1>3, <1>10, <1>2 DEF PathInv
    <3>3. QED
      BY <1>2, <1>7, <1>8, <2>2, <2>3, <2>4, <2>5, <3>1, <3>2
<1>13. QED
  BY <1>1, <1>9, <1>10, <1>11, <1>12

LEMMA AttachBuild ==
  ASSUME BuildInv, Attach
  PROVE  BuildInv'
<1> USE DEF BuildInv
<1> DEFINE new == nextNodeOffset
<1>1. KDTypeOK'
  BY AttachTypeOK
<1>2. /\ STORE' = STORE /\ stage = "build" /\ TID < NUM_POINTS
      /\ nextNodeOffset' = nextNodeOffset + NODE_SIZE
      /\ node' = ROOT_OFFSET /\ dimForCompare' = 0
  BY DEF Attach
<1>3. /\ TID \in DOMAIN STORE /\ new = NODE_SIZE * TID
      /\ new \in Nat /\ new # HAS_NO_CHILD /\ new \notin DOMAIN TREE
      /\ node \in DOMAIN TREE
      /\ nextNodeOffset' = NODE_SIZE * (TID + 1)
      /\ DOMAIN STORE \subseteq Nat
  BY <1>2, TIDFacts, StoreFacts DEF KDTypeOK
<1>4. \A t \in DOMAIN STORE :
        path'[t] = path[t] \cup (IF t = TID THEN {node, new} ELSE {})
  BY <1>3 DEF Attach, KDTypeOK
<1>5. /\ DOMAIN TREE' = DOMAIN TREE \cup {new}
      /\ TREE'[new] = NewNode(STORE[TID], NextDim(TREE[node].dim))
      /\ \A n \in DOMAIN TREE' : n = new => Kids(n)' = {}
      /\ dimForCompare = TREE[node].dim
  BY AttachFacts
<1>6. \A n \in DOMAIN TREE : TREE'[n].dim = TREE[n].dim /\ TREE'[n].value = TREE[n].value
  BY AttachFacts
<1>7. \A n \in DOMAIN TREE : Kids(n)' = Kids(n) \cup (IF n = node THEN {new} ELSE {})
  BY AttachFacts
<1>8. /\ \A n \in DOMAIN TREE : \A t \in DOMAIN STORE :
            Side(n, STORE[t]) # HAS_NO_CHILD => Side(n, STORE[t])' = Side(n, STORE[t])
      /\ \A n \in DOMAIN TREE : \A t \in DOMAIN STORE :
            n = node /\ t = TID => Side(n, STORE[t])' = new
  BY AttachFacts
<1>9. \A n \in DOMAIN TREE : Kids(n) \subseteq DOMAIN TREE
  BY DEF ShapeInv
<1>10. \A n \in DOMAIN TREE : n \in Nat /\ n < new
  BY NodeFacts
<1>11. TREE'[new].value = STORE[TID][TREE'[new].dim]
       /\ TREE'[new].dim = NextDim(TREE[node].dim)
  BY <1>5 DEF NewNode
<1>12. ShapeInv'
  <2>1. ASSUME NEW n \in DOMAIN TREE'
        PROVE  TREE'[n].value = STORE'[getTID(n)][TREE'[n].dim]
    <3>1. getTID(new) = TID
      BY <1>3, OffsetFacts
    <3>2. CASE n = new
      BY <1>2, <1>11, <3>1, <3>2
    <3>3. CASE n \in DOMAIN TREE
      BY <1>2, <1>6, <3>3 DEF ShapeInv
    <3>4. QED
      BY <1>5, <3>2, <3>3
  <2>2. \A n \in DOMAIN TREE' : n = ROOT_OFFSET => TREE'[n].dim = 0
    BY <1>3, <1>5, <1>6 DEF ShapeInv, ROOT_OFFSET, HAS_NO_CHILD
  <2>3. ASSUME NEW n \in DOMAIN TREE', NEW c \in Kids(n)'
        PROVE  c \in DOMAIN TREE' /\ n < c /\ TREE'[c].dim = NextDim(TREE'[n].dim)
    <3>1. n \in DOMAIN TREE
      BY <1>5, <2>3
    <3>2. CASE c \in Kids(n)
      BY <1>5, <1>6, <3>1, <3>2 DEF ShapeInv
    <3>3. CASE n = node /\ c = new
      BY <1>3, <1>5, <1>6, <1>10, <1>11, <3>3
    <3>4. QED
      BY <1>7, <2>3, <3>1, <3>2, <3>3
  <2>4. ASSUME NEW n \in DOMAIN TREE', TREE'[n].left # HAS_NO_CHILD
        PROVE  TREE'[n].left # TREE'[n].right
    <3>1. CASE n = new
      BY <1>5, <2>4, <3>1 DEF Kids
    <3>2. CASE n \in DOMAIN TREE /\ n # node
      <4>1. TREE'[n] = TREE[n]
        BY <3>2, AttachFacts
      <4>2. QED
        BY <2>4, <3>2, <4>1 DEF ShapeInv
    <3>3. CASE n = node
      <4>1. /\ TREE'[node] \in {[TREE[node] EXCEPT !.left = new],
                                [TREE[node] EXCEPT !.right = new]}
            /\ TREE[node] \in Node
        BY <1>3, AttachFacts, NodeFacts
      <4>2. new # TREE[node].left /\ new # TREE[node].right
        BY <1>3, <1>9 DEF Kids
      <4>3. QED
        BY <3>3, <4>1, <4>2 DEF Node
    <3>4. QED
      BY <1>5, <3>1, <3>2, <3>3
  <2>5. ASSUME NEW n \in DOMAIN TREE', NEW m \in DOMAIN TREE', NEW c \in Kids(n)',
               c \in Kids(m)'
        PROVE  n = m
    <3>1. n \in DOMAIN TREE /\ m \in DOMAIN TREE
      BY <1>5, <2>5
    <3>2. CASE c = new
      BY <1>3, <1>7, <1>9, <2>5, <3>1, <3>2
    <3>3. CASE c # new
      BY <1>7, <2>5, <3>1, <3>3 DEF ShapeInv
    <3>4. QED
      BY <3>2, <3>3
  <2>6. QED
    BY <2>1, <2>2, <2>3, <2>4, <2>5 DEF ShapeInv
<1>13. PathInv'
  <2>1. ASSUME NEW t \in DOMAIN STORE, NEW n \in path'[t]
        PROVE  n \in DOMAIN TREE' /\ n <= NODE_SIZE * t
    <3>1. CASE n \in path[t]
      BY <1>5, <3>1 DEF PathInv
    <3>2. CASE n \in {node, new} /\ t = TID
      BY <1>3, <1>5, <1>10, <3>2
    <3>3. QED
      BY <1>4, <2>1, <3>1, <3>2
  <2>2. ASSUME NEW t \in DOMAIN STORE, NEW n \in DOMAIN TREE', NEW c \in Kids(n)',
               c \in path'[t]
        PROVE  n \in path'[t] /\ Side(n, STORE[t])' = c
    <3>1. n \in DOMAIN TREE
      BY <1>5, <2>2
    <3>2. CASE c = new
      <4>1. new \notin path[t]
        BY <1>3 DEF PathInv
      <4>2. t = TID
        BY <1>4, <2>2, <3>2, <4>1
      <4>3. n = node
        BY <1>3, <1>7, <1>9, <2>2, <3>1, <3>2
      <4>4. QED
        BY <1>3, <1>4, <1>8, <3>2, <4>2, <4>3
    <3>3. CASE c \in path[t] /\ c # new
      <4>1. c \in Kids(n) /\ c # HAS_NO_CHILD
        BY <1>7, <2>2, <3>1, <3>3 DEF Kids
      <4>2. n \in path[t] /\ Side(n, STORE[t]) = c
        BY <3>1, <3>3, <4>1 DEF PathInv
      <4>3. QED
        BY <1>4, <1>8, <3>1, <4>1, <4>2
    <3>4. CASE c = node /\ t = TID /\ c # new
      <4>1. c \in Kids(n) /\ c # HAS_NO_CHILD
        BY <1>7, <2>2, <3>1, <3>4 DEF Kids
      <4>2. n \in path[t] /\ Side(n, STORE[t]) = c
        BY <1>2, <1>3, <3>1, <3>4, <4>1 DEF CursorInv
      <4>3. QED
        BY <1>4, <1>8, <3>1, <4>1, <4>2
    <3>5. QED
      BY <1>4, <2>2, <3>2, <3>3, <3>4
  <2>3. ASSUME NEW t \in DOMAIN STORE, NODE_SIZE * t > nextNodeOffset'
        PROVE  path'[t] = {}
    <3>1. NODE_SIZE * t > new
      BY <1>2, <1>3, <2>3, OffsetFacts DEF NODE_SIZE
    <3>2. t # TID
      BY <1>3, <3>1
    <3>3. QED
      BY <1>4, <3>1, <3>2 DEF PathInv
  <2>4. QED
    BY <1>2, <2>1, <2>2, <2>3 DEF PathInv
<1>14. RowsAreReachable'
  <2>1. ASSUME NEW t \in Inserted'
        PROVE  t \in DOMAIN STORE /\ (t = TID \/ t \in Inserted)
    <3>1. t \in DOMAIN STORE /\ NODE_SIZE * t < NODE_SIZE * (TID + 1)
      BY <1>2, <1>3 DEF Inserted
    <3>2. t \in Nat /\ TID \in Nat /\ TID + 1 \in Nat
      BY <1>3, <3>1
    <3>3. t = TID \/ t < TID
      BY <3>1, <3>2, OffsetFacts
    <3>4. QED
      BY <1>3, <3>1, <3>2, <3>3, OffsetFacts DEF Inserted
  <2>2. ASSUME NEW t \in Inserted
        PROVE  /\ {ROOT_OFFSET, NODE_SIZE * t} \subseteq path'[t]
               /\ \A n \in path'[t] \ {NODE_SIZE * t} :
                    Side(n, STORE[t])' \in path'[t] \ {HAS_NO_CHILD}
    <3>1. t \in DOMAIN STORE /\ t # TID
      BY <1>3 DEF Inserted
    <3>2. path'[t] = path[t]
      BY <1>4, <3>1
    <3>3. \A n \in path[t] : n \in DOMAIN TREE
      BY <3>1 DEF PathInv
    <3>4. QED
      BY <1>8, <3>1, <3>2, <3>3 DEF RowsAreReachable, Side
  <2>3. /\ {ROOT_OFFSET, new} \subseteq path'[TID]
        /\ \A n \in path'[TID] \ {new} :
             \A t \in DOMAIN STORE : t = TID =>
               Side(n, STORE[t])' \in path'[TID] \ {HAS_NO_CHILD}
    <3>1. ASSUME NEW n \in path[TID], NEW t \in DOMAIN STORE, t = TID
          PROVE  Side(n, STORE[t])' \in path'[TID] \ {HAS_NO_CHILD}
      <4>1. Side(n, STORE[TID]) \in (path[TID] \cup {node}) \ {HAS_NO_CHILD}
        BY <1>2, <1>3 DEF CursorInv
      <4>2. n \in DOMAIN TREE
        BY <1>3 DEF PathInv
      <4>3. QED
        BY <1>3, <1>4, <1>8, <3>1, <4>1, <4>2
    <3>2. node = ROOT_OFFSET \/ ROOT_OFFSET \in path[TID]
      BY <1>2, <1>3 DEF CursorInv
    <3>3. path'[TID] = path[TID] \cup {node, new}
      BY <1>3, <1>4
    <3>4. QED
      BY <1>3, <1>8, <3>1, <3>2, <3>3
  <2>4. ASSUME NEW t \in Inserted'
        PROVE  /\ {ROOT_OFFSET, NODE_SIZE * t} \subseteq path'[t]
               /\ \A n \in path'[t] \ {NODE_SIZE * t} :
                    Child(n, TREE[n].dim, STORE[t])' \in path'[t] \ {HAS_NO_CHILD}
    BY <1>3, <2>1, <2>2, <2>3 DEF Side
  <2>5. QED
    BY <1>2, <2>4 DEF RowsAreReachable
<1>15. CursorInv'
  <2>1. ASSUME NEW t \in DOMAIN STORE, NODE_SIZE * t = nextNodeOffset'
        PROVE  path'[t] = {}
    <3>1. NODE_SIZE * t > new
      BY <1>2, <1>3, <2>1 DEF NODE_SIZE
    <3>2. t # TID
      BY <1>3, <3>1
    <3>3. QED
      BY <1>4, <3>1, <3>2 DEF PathInv
  <2>2. ROOT_OFFSET \in DOMAIN TREE
    BY <1>2, RootIsNode
  <2>3. TREE'[ROOT_OFFSET].dim = 0
    BY <1>6, <2>2 DEF ShapeInv
  <2>4. \A n \in DOMAIN TREE' : ROOT_OFFSET \notin Kids(n)'
    BY DEF Kids, ROOT_OFFSET, HAS_NO_CHILD
  <2>5. QED
    BY <1>2, <2>1, <2>3, <2>4 DEF CursorInv
<1>16. QED
  BY <1>1, <1>12, <1>13, <1>14, <1>15
-----------------------------------------------------------------------------
\* Once the tree is built it has every row.
LEMMA SearchFacts ==
  ASSUME BuildInv, stage \notin {"new", "build"}
  PROVE  /\ \A t \in DOMAIN STORE :
              /\ ROOT_OFFSET \in path[t] /\ NODE_SIZE * t \in path[t]
              /\ \A n \in path[t] \ {NODE_SIZE * t} :
                   Side(n, STORE[t]) \in path[t] \ {HAS_NO_CHILD}
         /\ \A t \in DOMAIN STORE : \A n \in path[t] :
              n \in DOMAIN TREE /\ n <= NODE_SIZE * t
         /\ ROOT_OFFSET \in DOMAIN TREE
         /\ TREE[ROOT_OFFSET].dim = 0
<1>1. KDTypeOK /\ nextNodeOffset = NODE_SIZE * NUM_POINTS
  BY DEF BuildInv, KDTypeOK
<1>2. /\ NUM_POINTS \in Nat /\ DOMAIN STORE = 0..(NUM_POINTS - 1)
  BY <1>1, StoreFacts DEF KDTypeOK
<1>3. \A t \in DOMAIN STORE : t \in Nat /\ t < NUM_POINTS
  BY <1>2
<1>4. \A t \in DOMAIN STORE : t \in Inserted
  BY <1>1, <1>2, <1>3, OffsetFacts DEF Inserted
<1>5. ROOT_OFFSET \in DOMAIN TREE
  BY <1>1, RootIsNode
<1>6. QED
  BY <1>4, <1>5 DEF BuildInv, RowsAreReachable, Side, PathInv, ShapeInv

\* A step that leaves the tree alone and is not one of insert keeps BuildInv.
LEMMA SearchBuild ==
  ASSUME BuildInv, UNCHANGED buildVars, KDTypeOK', stage' # "build"
  PROVE  BuildInv'
BY TreeUnchanged DEF BuildInv, CursorInv

LEMMA AskTypeOK ==
  ASSUME KDTypeOK, Ask \/ Return \/ Forget
  PROVE  KDTypeOK'
<1>1. UNCHANGED <<STORE, TREE, nextNodeOffset, path>>
  BY DEF Ask, Return, Forget, buildVars
<1>2. NUM_POINTS' = NUM_POINTS /\ Offsets' = Offsets /\ Node' = Node
  BY <1>1 DEF NUM_POINTS, Offsets, Node
<1>3. stage \notin {"new", "build"} /\ stage' \in {"ready", "exact", "match", "done"}
  BY DEF Ask, Return, Forget
<1>4. ROOT_OFFSET \in DOMAIN TREE
  BY <1>3, RootIsNode
<1>5. ROOT_OFFSET \in Offsets /\ ROOT_OFFSET < nextNodeOffset
  BY <1>4 DEF KDTypeOK
<1>6. CASE Ask
  <2>1. /\ query' \in Queries /\ query' # NoQuery
        /\ stage' \in {"exact", "match"} /\ result' = <<>>
        /\ node' = ROOT_OFFSET /\ dimForCompare' = 0
    BY <1>6, StoreAssumption DEF Ask
  <2>2. stack' \in Seq([node : DOMAIN TREE, dim : Dims])
    <3> DEFINE frame == [node |-> ROOT_OFFSET, dim |-> 0]
               Frames == [node : DOMAIN TREE, dim : Dims]
    <3>1. stack' = <<>> \/ stack' = <<frame>>
      BY <1>6 DEF Ask
    <3>2. frame \in Frames
      BY <1>4, DimFacts
    <3> HIDE DEF frame, Frames
    <3>3. stack' \in Seq(Frames)
      <4>1. <<frame>> \in Seq(Frames)
        BY <3>2, SingletonFacts
      <4>2. <<>> \in Seq(Frames)
        BY EmptySeq
      <4>3. QED
        BY <3>1, <4>1, <4>2
    <3>4. QED
      BY <3>3 DEF Frames
  <2>3. result' \in Seq(DOMAIN STORE \cup {NOT_FOUND})
    BY <2>1
  <2>4. QED
    BY <1>1, <1>2, <1>3, <1>5, <2>1, <2>2, <2>3, DimFacts DEF KDTypeOK
<1>7. CASE Return
  BY <1>1, <1>2, <1>3, <1>7 DEF Return, KDTypeOK, queryVars
<1>8. CASE Forget
  <2>1. <<>> \in Seq(DOMAIN STORE \cup {NOT_FOUND})
    BY EmptySeq
  <2>2. QED
    BY <1>1, <1>2, <1>3, <1>8, <2>1 DEF Forget, KDTypeOK
<1>9. QED
  BY <1>6, <1>7, <1>8

\* What is known of the query that is being answered.
LEMMA QueryFacts ==
  ASSUME KDTypeOK, stage \in {"exact", "match", "done"}
  PROVE  /\ query \in Queries
         /\ query.op \in {"exact", "window", "partial"}
         /\ query.lower \in Points
         /\ \A d \in Dims :
              /\ query.lower[d] \in Nat /\ query.upper[d] \in Nat
              /\ query.columns[d] \in BOOLEAN
<1>1. query \in Queries
  BY DEF KDTypeOK
<1>2. query \in [op : {"exact", "window", "partial"}, lower : Points,
                upper : Points, columns : [Dims -> BOOLEAN]]
  BY <1>1, StoreAssumption
<1>3. QED
  BY <1>1, <1>2 DEF Points

\* exactMatch accepts the rows that equal its point.
LEMMA ExactScan ==
  ASSUME KDTypeOK, stage \in {"exact", "match", "done"}, query.op = "exact"
  PROVE  Scan(STORE, query) = {t \in DOMAIN STORE : STORE[t] = query.lower}
<1>1. query \in Queries
  BY QueryFacts
<1>2. /\ query.lower \in Points /\ query.upper = query.lower
      /\ \A d \in Dims : query.columns[d]
  BY <1>1, StoreAssumption
<1>3. \A t \in DOMAIN STORE : STORE[t] \in Points
  BY StoreFacts DEF KDTypeOK
<1>4. ASSUME NEW p \in Points
      PROVE  Accepts(query, p) <=> p = query.lower
  <2>1. Accepts(query, p) <=> \A d \in Dims : p[d] = query.lower[d]
    BY <1>2, <1>4 DEF Accepts, isIn, Points
  <2>2. QED
    BY <1>2, <1>4, <2>1 DEF Points
<1>5. QED
  BY <1>3, <1>4 DEF Scan

LEMMA ProbeSearch ==
  ASSUME BuildInv, ExactInv, NoneTwice, Probe
  PROVE  KDTypeOK' /\ ExactInv' /\ DoneInv' /\ NoneTwice'
<1> USE DEF BuildInv
<1> DEFINE tid == getTID(node)
           child == Child(node, dimForCompare, query.lower)
           found == /\ query.lower[dimForCompare] = TREE[node].value
                    /\ STORE[tid] = query.lower
<1>1. /\ stage = "exact" /\ UNCHANGED <<STORE, TREE, nextNodeOffset, path, query, stack>>
      /\ \/ /\ found \/ child = HAS_NO_CHILD
            /\ result' = <<IF found THEN tid ELSE NOT_FOUND>>
            /\ stage' = "done"
            /\ UNCHANGED <<node, dimForCompare>>
         \/ /\ ~found
            /\ child # HAS_NO_CHILD
            /\ node' = child
            /\ dimForCompare' = NextDim(dimForCompare)
            /\ UNCHANGED <<stage, result>>
  BY DEF Probe, buildVars
<1>2. /\ query.op = "exact" /\ dimForCompare = TREE[node].dim /\ dimForCompare \in Dims
      /\ node \in DOMAIN TREE
  BY <1>1 DEF ExactInv, KDTypeOK
<1>3. NUM_POINTS' = NUM_POINTS /\ Offsets' = Offsets /\ Node' = Node
  BY <1>1 DEF NUM_POINTS, Offsets, Node
<1>4. /\ tid \in DOMAIN STORE /\ node = NODE_SIZE * tid /\ DOMAIN STORE \subseteq Nat
      /\ TREE[node].value = STORE[tid][dimForCompare]
  BY <1>2, NodeFacts, StoreFacts DEF KDTypeOK, ShapeInv
<1>5. Scan(STORE, query) = {t \in DOMAIN STORE : STORE[t] = query.lower}
  BY <1>1, <1>2, ExactScan
<1>6. \A t \in Scan(STORE, query) :
        /\ node \in path[t]
        /\ node <= NODE_SIZE * t
        /\ node # NODE_SIZE * t => child \in path[t] \ {HAS_NO_CHILD}
  BY <1>1, <1>2, <1>5, SearchFacts DEF ExactInv, Side
<1>7. ScanAnswer(STORE, query) =
        IF Scan(STORE, query) = {} THEN {NOT_FOUND}
        ELSE {t \in Scan(STORE, query) : \A u \in Scan(STORE, query) : t <= u}
  BY <1>2 DEF ScanAnswer
<1>8. CASE stage' = "done"
  <2>1. /\ result' = <<IF found THEN tid ELSE NOT_FOUND>>
        /\ found \/ child = HAS_NO_CHILD
        /\ UNCHANGED <<node, dimForCompare>>
    BY <1>1, <1>8
  <2>2. (IF found THEN tid ELSE NOT_FOUND) \in DOMAIN STORE \cup {NOT_FOUND}
    BY <1>4
  <2>3. /\ result' \in Seq(DOMAIN STORE \cup {NOT_FOUND})
        /\ Range(result') = {IF found THEN tid ELSE NOT_FOUND}
        /\ IsInjective(result')
    BY <2>1, <2>2, SingletonFacts
  <2>4. ASSUME found
        PROVE  DoneInv'
    <3>1. tid \in Scan(STORE, query)
      BY <1>4, <1>5, <2>4
    <3>2. \A u \in Scan(STORE, query) : u \in Nat /\ tid <= u
      BY <1>4, <1>5, <1>6, OffsetFacts
    <3>3. \A t \in Scan(STORE, query) :
            (\A u \in Scan(STORE, query) : t <= u) => t = tid
      BY <1>4, <1>5, <3>1, <3>2
    <3>4. QED
      BY <1>1, <1>7, <2>3, <2>4, <3>1, <3>2, <3>3 DEF DoneInv
  <2>5. ASSUME ~found
        PROVE  DoneInv'
    <3>1. ASSUME NEW t \in Scan(STORE, query)
          PROVE  FALSE
      <4>1. node = NODE_SIZE * t
        BY <1>6, <2>1, <2>5
      <4>2. t = tid
        BY <1>4, <1>5, <4>1, OffsetFacts
      <4>3. QED
        BY <1>4, <1>5, <2>5, <4>2
    <3>2. QED
      BY <1>1, <1>7, <2>3, <2>5, <3>1 DEF DoneInv
  <2>6. KDTypeOK'
    BY <1>1, <1>3, <1>8, <2>1, <2>3 DEF KDTypeOK
  <2>7. QED
    BY <1>8, <2>3, <2>4, <2>5, <2>6 DEF ExactInv, NoneTwice
<1>9. CASE stage' # "done"
  <2>1. /\ ~found /\ child # HAS_NO_CHILD
        /\ node' = child
        /\ dimForCompare' = NextDim(dimForCompare)
        /\ UNCHANGED <<stage, result>>
    BY <1>1, <1>9
  <2>2. child \in DOMAIN TREE /\ TREE[child].dim = NextDim(TREE[node].dim)
    BY <1>2, <2>1, ChildFacts
  <2>3. ASSUME NEW t \in DOMAIN STORE, STORE[t] = query.lower
        PROVE  child \in path[t]
    <3>1. node # NODE_SIZE * t
      <4>1. t = tid => found
        BY <1>4, <2>3
      <4>2. QED
        BY <1>4, <2>1, <2>3, <4>1, OffsetFacts
    <3>2. QED
      BY <1>5, <1>6, <2>3, <3>1
  <2>4. KDTypeOK'
    <3>1. child \in Offsets /\ child < nextNodeOffset
      BY <2>2 DEF KDTypeOK
    <3>2. QED
      BY <1>1, <1>2, <1>3, <2>1, <3>1, DimFacts DEF KDTypeOK
  <2>5. QED
    BY <1>1, <1>2, <2>1, <2>2, <2>3, <2>4 DEF ExactInv, DoneInv, NoneTwice
<1>10. QED
  BY <1>8, <1>9

\* u has at most one element from each of l and r, then those of s but its first.
AtMostOne(l) == Len(l) \in {0, 1}
Pushed(u, l, r, s) ==
  /\ DOMAIN u = 1..(Len(l) + Len(r) + Len(s) - 1)
  /\ \A i \in DOMAIN u :
       /\ i <= Len(l) => i = 1 /\ u[i] = l[1]
       /\ i > Len(l) /\ i <= Len(l) + Len(r) => i = Len(l) + Len(r) /\ u[i] = r[1]
       /\ i > Len(l) + Len(r) => u[i] = s[i - (Len(l) + Len(r)) + 1]

\* The stack after a call: at most one call for each side, then the rest.
LEMMA PushedCalls ==
  ASSUME NEW S, NEW l \in Seq(S), NEW r \in Seq(S), NEW s \in Seq(S), s # <<>>,
         AtMostOne(l), AtMostOne(r)
  PROVE  /\ l \o r \o Tail(s) \in Seq(S)
         /\ Pushed(l \o r \o Tail(s), l, r, s)
<1> PICK a \in {0, 1}, b \in {0, 1} : Len(l) = a /\ Len(r) = b
  BY DEF AtMostOne
<1> DEFINE m == l \o r
           u == m \o Tail(s)
           k == a + b
<1>1. /\ Len(s) \in Nat
      /\ Tail(s) \in Seq(S) /\ Len(Tail(s)) = Len(s) - 1
      /\ \A i \in 1..Len(Tail(s)) : Tail(s)[i] = s[i + 1]
  BY LenProperties, HeadTailProperties
<1>2. /\ m \in Seq(S) /\ Len(m) = k
      /\ \A i \in 1..k : m[i] = IF i <= a THEN l[i] ELSE r[i - a]
  BY ConcatProperties
<1> HIDE DEF m
<1>3. /\ u \in Seq(S) /\ Len(u) = k + (Len(s) - 1)
      /\ \A i \in 1..(k + (Len(s) - 1)) :
           u[i] = IF i <= k THEN m[i] ELSE Tail(s)[i - k]
  <2>1. /\ u \in Seq(S) /\ Len(u) = Len(m) + Len(Tail(s))
        /\ \A i \in 1..(Len(m) + Len(Tail(s))) :
             u[i] = IF i <= Len(m) THEN m[i] ELSE Tail(s)[i - Len(m)]
    BY <1>1, <1>2, ConcatProperties
  <2>2. Len(m) = k /\ Len(Tail(s)) = Len(s) - 1
    BY <1>1, <1>2
  <2>3. QED
    BY <2>1, <2>2
<1>4. Len(u) = k + Len(s) - 1 /\ DOMAIN u = 1..Len(u) /\ k \in Nat
  BY <1>1, <1>2, <1>3, LenProperties
<1>5. ASSUME NEW i \in DOMAIN u
      PROVE  /\ i <= a => i = 1 /\ u[i] = l[1]
             /\ i > a /\ i <= k => i = k /\ u[i] = r[1]
             /\ i > k => u[i] = s[i - k + 1]
  <2>1. i \in 1..(k + Len(s) - 1)
    BY <1>4
  <2>2. i <= a => i = 1 /\ u[i] = l[1]
    <3>1. ASSUME i <= a PROVE i = 1 /\ i <= k
      BY <1>1, <2>1, <3>1
    <3>2. QED
      BY <1>1, <1>2, <1>3, <2>1, <3>1
  <2>3. i > a /\ i <= k => i = k /\ u[i] = r[1]
    <3>1. ASSUME i > a, i <= k PROVE i = k /\ i - a = 1
      BY <1>1, <2>1, <3>1
    <3>2. QED
      BY <1>1, <1>2, <1>3, <2>1, <3>1
  <2>4. i > k => u[i] = s[i - k + 1]
    <3> SUFFICES ASSUME i > k PROVE u[i] = s[i - k + 1]
      OBVIOUS
    <3>1. i - k \in 1..Len(Tail(s)) /\ i - k + 1 = (i - k) + 1
      BY <1>1, <1>4, <2>1
    <3>2. u[i] = Tail(s)[i - k]
      BY <1>3, <1>4, <2>1, SMTT(30)
    <3>3. QED
      BY <1>1, <3>1, <3>2
  <2>5. QED
    BY <2>2, <2>3, <2>4
<1>6. Len(l) = a /\ Len(r) = b
  OBVIOUS
<1> HIDE DEF u
<1>7. /\ u \in Seq(S)
      /\ DOMAIN u = 1..(Len(l) + Len(r) + Len(s) - 1)
      /\ \A i \in DOMAIN u :
           /\ i <= Len(l) => i = 1 /\ u[i] = l[1]
           /\ i > Len(l) /\ i <= Len(l) + Len(r) => i = Len(l) + Len(r) /\ u[i] = r[1]
           /\ i > Len(l) + Len(r) => u[i] = s[i - (Len(l) + Len(r)) + 1]
  BY <1>3, <1>4, <1>5, <1>6
<1>8. QED
  BY <1>7, SMTT(30) DEF Pushed, u

LEMMA AppendFacts ==
  ASSUME NEW S, NEW s \in Seq(S), NEW e \in S
  PROVE  /\ Append(s, e) \in Seq(S)
         /\ Range(Append(s, e)) = Range(s) \cup {e}
         /\ IsInjective(s) /\ e \notin Range(s) => IsInjective(Append(s, e))
<1> DEFINE a == Append(s, e)
<1>1. /\ a \in Seq(S) /\ Len(s) \in Nat
      /\ DOMAIN s = 1..Len(s) /\ DOMAIN a = 1..(Len(s) + 1)
      /\ \A i \in 1..Len(s) : a[i] = s[i]
      /\ a[Len(s) + 1] = e
  BY AppendProperties, LenProperties
<1>2. ASSUME NEW i \in DOMAIN a
      PROVE  i \in DOMAIN s \/ i = Len(s) + 1
  BY <1>1
<1>3. DOMAIN s \subseteq DOMAIN a /\ Len(s) + 1 \in DOMAIN a
  BY <1>1
<1>4. Range(a) = Range(s) \cup {e}
  BY <1>1, <1>2, <1>3 DEF Range
<1>5. ASSUME IsInjective(s), e \notin Range(s),
             NEW i \in DOMAIN a, NEW j \in DOMAIN a, a[i] = a[j]
      PROVE  i = j
  <2>1. \A k \in DOMAIN s : s[k] \in Range(s) /\ a[k] = s[k]
    BY <1>1 DEF Range
  <2>2. QED
    BY <1>1, <1>2, <1>5, <2>1 DEF IsInjective
<1>6. QED
  BY <1>1, <1>4, <1>5 DEF IsInjective

LEMMA VisitSearch ==
  ASSUME BuildInv, MatchInv, NoneTwice, Visit
  PROVE  KDTypeOK' /\ MatchInv' /\ NoneTwice'
<1> USE DEF BuildInv
<1> DEFINE n == stack[1].node
           d == stack[1].dim
           tid == getTID(n)
           l == CallFor(SearchLeft(query, d, TREE[n].value), TREE[n].left, d)
           r == CallFor(SearchRight(query, d, TREE[n].value), TREE[n].right, d)
           Frames == [node : DOMAIN TREE, dim : Dims]
<1>1. /\ stage = "match" /\ stack # <<>>
      /\ UNCHANGED <<STORE, TREE, nextNodeOffset, path, query, stage, node, dimForCompare>>
  BY DEF Visit, buildVars
<1>2. /\ stack \in Seq(Frames) /\ DOMAIN stack = 1..Len(stack)
      /\ Len(stack) \in Nat \ {0}
      /\ 1 \in DOMAIN stack /\ Head(stack) = stack[1] /\ stack[1] \in Frames
  <2>1. stack \in Seq(Frames)
    BY DEF KDTypeOK
  <2>2. DOMAIN stack = 1..Len(stack) /\ Len(stack) \in Nat \ {0}
    BY <1>1, <2>1, LenProperties, EmptySeq
  <2>3. 1 \in DOMAIN stack /\ 1 \in 1..Len(stack)
    BY <2>2
  <2>4. stack[1] \in Frames
    BY <2>1, <2>3, ElementOfSeq
  <2>5. Head(stack) = stack[1]
    BY <1>1, <2>1
  <2>6. QED
    BY <2>1, <2>2, <2>3, <2>4, <2>5
<1>3. /\ n \in DOMAIN TREE /\ d \in Dims /\ d = TREE[n].dim
  BY <1>1, <1>2 DEF MatchInv
<1>4. /\ tid \in DOMAIN STORE /\ n = NODE_SIZE * tid /\ n \in Nat
      /\ TREE[n].value = STORE[tid][d] /\ TREE[n].value \in Nat
      /\ DOMAIN STORE \subseteq Nat
  BY <1>3, NodeFacts, StoreFacts, SMTT(30) DEF ShapeInv, KDTypeOK
<1>5. /\ result' = IF Accepts(query, STORE[tid]) THEN Append(result, tid) ELSE result
      /\ stack' = l \o r \o Tail(stack)
  BY <1>2 DEF Visit
<1>6. /\ l = IF SearchLeft(query, d, TREE[n].value) /\ TREE[n].left # HAS_NO_CHILD
             THEN <<[node |-> TREE[n].left, dim |-> NextDim(d)]>> ELSE <<>>
      /\ r = IF SearchRight(query, d, TREE[n].value) /\ TREE[n].right # HAS_NO_CHILD
             THEN <<[node |-> TREE[n].right, dim |-> NextDim(d)]>> ELSE <<>>
  BY DEF CallFor
<1>7. \A c \in Kids(n) :
        /\ c \in DOMAIN TREE /\ n < c /\ c \in Nat
        /\ TREE[c].dim = NextDim(d)
        /\ [node |-> c, dim |-> NextDim(d)] \in Frames
  BY <1>3, NodeFacts, DimFacts DEF ShapeInv
<1>8. /\ l \in Seq(Frames) /\ Len(l) \in {0, 1}
      /\ Len(l) = 1 <=> SearchLeft(query, d, TREE[n].value) /\ TREE[n].left # HAS_NO_CHILD
      /\ Len(l) = 1 => /\ TREE[n].left \in Kids(n)
                       /\ l[1] = [node |-> TREE[n].left, dim |-> NextDim(d)]
  <2>1. CASE SearchLeft(query, d, TREE[n].value) /\ TREE[n].left # HAS_NO_CHILD
    <3> DEFINE f == [node |-> TREE[n].left, dim |-> NextDim(d)]
    <3>1. TREE[n].left \in Kids(n) /\ f \in Frames /\ l = <<f>>
      BY <1>6, <1>7, <2>1 DEF Kids
    <3> HIDE DEF f, l, Frames
    <3>2. <<f>> \in Seq(Frames) /\ Len(<<f>>) = 1 /\ <<f>>[1] = f
      BY <3>1, SingletonFacts
    <3>3. QED
      BY <2>1, <3>1, <3>2 DEF f
  <2>2. CASE ~(SearchLeft(query, d, TREE[n].value) /\ TREE[n].left # HAS_NO_CHILD)
    <3>1. l = <<>>
      BY <1>6, <2>2
    <3>2. QED
      BY <2>2, <3>1, EmptySeq
  <2>3. QED
    BY <2>1, <2>2
<1>9. /\ r \in Seq(Frames) /\ Len(r) \in {0, 1}
      /\ Len(r) = 1 <=> SearchRight(query, d, TREE[n].value) /\ TREE[n].right # HAS_NO_CHILD
      /\ Len(r) = 1 => /\ TREE[n].right \in Kids(n)
                       /\ r[1] = [node |-> TREE[n].right, dim |-> NextDim(d)]
  <2>1. CASE SearchRight(query, d, TREE[n].value) /\ TREE[n].right # HAS_NO_CHILD
    <3> DEFINE f == [node |-> TREE[n].right, dim |-> NextDim(d)]
    <3>1. TREE[n].right \in Kids(n) /\ f \in Frames /\ r = <<f>>
      BY <1>6, <1>7, <2>1 DEF Kids
    <3> HIDE DEF f, r, Frames
    <3>2. <<f>> \in Seq(Frames) /\ Len(<<f>>) = 1 /\ <<f>>[1] = f
      BY <3>1, SingletonFacts
    <3>3. QED
      BY <2>1, <3>1, <3>2 DEF f
  <2>2. CASE ~(SearchRight(query, d, TREE[n].value) /\ TREE[n].right # HAS_NO_CHILD)
    <3>1. r = <<>>
      BY <1>6, <2>2
    <3>2. QED
      BY <2>2, <3>1, EmptySeq
  <2>3. QED
    BY <2>1, <2>2
<1> HIDE DEF l, r, n, d, Frames
\* How many calls there are for each side.
<1> PICK a \in {0, 1}, b \in {0, 1} : Len(l) = a /\ Len(r) = b
  BY <1>8, <1>9
<1>len. /\ a = 1 <=> SearchLeft(query, d, TREE[n].value) /\ TREE[n].left # HAS_NO_CHILD
        /\ a = 1 => /\ TREE[n].left \in Kids(n)
                    /\ l[1] = [node |-> TREE[n].left, dim |-> NextDim(d)]
        /\ b = 1 <=> SearchRight(query, d, TREE[n].value) /\ TREE[n].right # HAS_NO_CHILD
        /\ b = 1 => /\ TREE[n].right \in Kids(n)
                    /\ r[1] = [node |-> TREE[n].right, dim |-> NextDim(d)]
  BY <1>8, <1>9
<1> DEFINE k == a + b
\* The calls on the new stack, and where the old ones and the new ones are.
<1> PICK h \in Nat \ {0} : Len(stack) = h
  BY <1>2
<1>10. /\ stack' \in Seq(Frames) /\ k \in Nat
       /\ \A i \in DOMAIN stack' :
            \/ i = 1 /\ a = 1 /\ stack'[i] = l[1]
            \/ i = k /\ i > a /\ b = 1 /\ stack'[i] = r[1]
            \/ i > k /\ i - k + 1 \in DOMAIN stack \ {1} /\ stack'[i] = stack[i - k + 1]
       /\ a = 1 => 1 \in DOMAIN stack' /\ stack'[1] = l[1]
       /\ b = 1 => k \in DOMAIN stack' /\ stack'[k] = r[1]
       /\ \A j \in DOMAIN stack \ {1} :
            j + k - 1 \in DOMAIN stack' /\ stack'[j + k - 1] = stack[j]
       /\ DOMAIN stack' \subseteq Nat
  <2>1. /\ stack' \in Seq(Frames)
        /\ k \in Nat
        /\ DOMAIN stack' = 1..(k + h - 1) /\ DOMAIN stack = 1..h
        /\ \A i \in DOMAIN stack' :
             /\ i <= a => i = 1 /\ stack'[i] = l[1]
             /\ i > a /\ i <= k => i = k /\ stack'[i] = r[1]
             /\ i > k => stack'[i] = stack[i - k + 1]
    <3>1. stack \in Seq(Frames) /\ stack # <<>> /\ l \in Seq(Frames) /\ r \in Seq(Frames)
      BY <1>1, <1>2, <1>8, <1>9
    <3>2. AtMostOne(l) /\ AtMostOne(r)
      BY <1>8, <1>9 DEF AtMostOne
    <3>3. stack' = l \o r \o Tail(stack)
      BY <1>5
    <3> DEFINE u == l \o r \o Tail(stack)
    <3>4. u \in Seq(Frames) /\ Pushed(u, l, r, stack)
      BY <3>1, <3>2, PushedCalls
    <3> HIDE DEF u
    <3>5. Len(l) = a /\ Len(r) = b /\ Len(stack) = h /\ DOMAIN stack = 1..h
      BY <3>1
    <3>6. /\ DOMAIN u = 1..(k + h - 1)
          /\ \A i \in DOMAIN u :
               /\ i <= a => i = 1 /\ u[i] = l[1]
               /\ i > a /\ i <= k => i = k /\ u[i] = r[1]
               /\ i > k => u[i] = stack[i - k + 1]
      BY <3>4, <3>5 DEF Pushed
    <3>7. stack' = u
      BY <3>3 DEF u
    <3>8. QED
      BY <3>4, <3>5, <3>6, <3>7
  <2>2. ASSUME NEW i \in DOMAIN stack'
        PROVE  \/ i = 1 /\ a = 1 /\ stack'[i] = l[1]
               \/ i = k /\ i > a /\ b = 1 /\ stack'[i] = r[1]
               \/ i > k /\ i - k + 1 \in DOMAIN stack \ {1} /\ stack'[i] = stack[i - k + 1]
    BY <2>1
  <2>3. a = 1 => 1 \in DOMAIN stack' /\ stack'[1] = l[1]
    BY <2>1
  <2>4. b = 1 => k \in DOMAIN stack' /\ stack'[k] = r[1]
    BY <2>1
  <2>5. ASSUME NEW j \in DOMAIN stack \ {1}
        PROVE  j + k - 1 \in DOMAIN stack' /\ stack'[j + k - 1] = stack[j]
    <3>1. j \in 2..h
      BY <2>1
    <3>2. j + k - 1 \in DOMAIN stack' /\ j + k - 1 > k /\ (j + k - 1) - k + 1 = j
      BY <2>1, <3>1
    <3>3. QED
      BY <2>1, <3>2
  <2>6. DOMAIN stack' \subseteq Nat
    BY <2>1
  <2>7. QED
    BY <2>1, <2>2, <2>3, <2>4, <2>5, <2>6
\* A row whose path leads to a child of n is not n's own row, and is on one side.
<1>11. ASSUME NEW t \in DOMAIN STORE, NEW c \in Kids(n), c \in path[t]
       PROVE  n \in path[t] /\ Side(n, STORE[t]) = c /\ t # tid
  <2>1. n \in DOMAIN TREE
    BY <1>3
  <2>2. c <= NODE_SIZE * t
    BY <1>11 DEF PathInv
  <2>3. n \in path[t] /\ Side(n, STORE[t]) = c
    BY <1>11, <2>1 DEF PathInv
  <2>4. t # tid
    <3>1. n < c /\ n \in Nat /\ c \in Nat /\ n = NODE_SIZE * tid
      BY <1>4, <1>7, <1>11
    <3>2. QED
      BY <2>2, <3>1
  <2>5. QED
    BY <2>3, <2>4
<1>12. TREE[n].left # HAS_NO_CHILD => TREE[n].left # TREE[n].right
  BY <1>3 DEF ShapeInv
<1>13. /\ \A t \in Range(result) : \A i \in DOMAIN stack : stack[i].node \notin path[t]
       /\ Range(result) \subseteq Scan(STORE, query) /\ query.op # "exact"
       /\ \A i, j \in DOMAIN stack : i # j =>
            \A t \in DOMAIN STORE : ~(stack[i].node \in path[t] /\ stack[j].node \in path[t])
       /\ \A t \in Scan(STORE, query) :
            t \in Range(result) \/ \E i \in DOMAIN stack : stack[i].node \in path[t]
       /\ \A i \in DOMAIN stack : stack[i].dim = TREE[stack[i].node].dim
       /\ Scan(STORE, query) \subseteq DOMAIN STORE
  BY <1>1 DEF MatchInv, Scan
<1>14. n = stack[1].node /\ n \in path[tid] /\ tid \notin Range(result)
  <2>1. NODE_SIZE * tid \in path[tid]
    BY <1>1, <1>4, SearchFacts
  <2>2. n = stack[1].node
    BY DEF n
  <2>3. QED
    BY <1>2, <1>4, <1>13, <2>1, <2>2
\* Each call on the new stack is for a child of n or was on the old stack.
<1>15. ASSUME NEW i \in DOMAIN stack'
       PROVE  \/ i <= k /\ stack'[i].node \in Kids(n) /\ stack'[i].dim = NextDim(d)
              \/ i > k /\ i - k + 1 \in DOMAIN stack \ {1} /\ stack'[i] = stack[i - k + 1]
  BY <1>10, <1>len
<1>16. Range(result') = Range(result) \cup
                          (IF Accepts(query, STORE[tid]) THEN {tid} ELSE {})
       /\ result' \in Seq(DOMAIN STORE \cup {NOT_FOUND})
       /\ IsInjective(result')
  <2> DEFINE Results == DOMAIN STORE \cup {NOT_FOUND}
  <2>1. result \in Seq(Results) /\ tid \in Results /\ IsInjective(result)
    BY <1>4 DEF KDTypeOK, NoneTwice
  <2>2. /\ Append(result, tid) \in Seq(Results)
        /\ Range(Append(result, tid)) = Range(result) \cup {tid}
        /\ IsInjective(Append(result, tid))
    <3> HIDE DEF Results
    <3>1. QED
      BY <1>14, <2>1, AppendFacts
  <2>3. QED
    BY <1>5, <2>1, <2>2
<1>17. KDTypeOK'
  <2>1. NUM_POINTS' = NUM_POINTS /\ Offsets' = Offsets /\ Node' = Node
    BY <1>1 DEF NUM_POINTS, Offsets, Node
  <2>2. QED
    BY <1>1, <1>10, <1>16, <2>1 DEF KDTypeOK, Frames
<1>18. NoneTwice'
  BY <1>16 DEF NoneTwice
<1>19. ASSUME NEW i \in DOMAIN stack'
       PROVE  stack'[i].dim = TREE'[stack'[i].node].dim
  <2>1. CASE stack'[i].node \in Kids(n) /\ stack'[i].dim = NextDim(d)
    BY <1>1, <1>7, <2>1
  <2>2. ASSUME NEW j \in DOMAIN stack, stack'[i] = stack[j]
        PROVE  stack'[i].dim = TREE'[stack'[i].node].dim
    BY <1>1, <1>13, <2>2
  <2>3. QED
    BY <1>15, <2>1, <2>2
<1>20. Range(result') \subseteq Scan(STORE, query)
  BY <1>4, <1>13, <1>16 DEF Scan
<1>21. ASSUME NEW t \in Scan(STORE, query)
       PROVE  t \in Range(result') \/ \E i \in DOMAIN stack' : stack'[i].node \in path[t]
  <2>1. t \in DOMAIN STORE /\ Accepts(query, STORE[t])
    BY DEF Scan
  <2>2. CASE t \in Range(result)
    BY <1>16, <2>2
  <2>3. ASSUME NEW j \in DOMAIN stack \ {1}, stack[j].node \in path[t]
        PROVE  \E i \in DOMAIN stack' : stack'[i].node \in path[t]
    BY <1>10, <2>3
  <2>4. CASE n \in path[t] /\ t = tid
    BY <1>16, <2>1, <2>4
  <2>5. CASE n \in path[t] /\ t # tid
    <3>1. n # NODE_SIZE * t
      BY <1>4, <2>1, <2>5, OffsetFacts
    <3>2. Side(n, STORE[t]) \in path[t] \ {HAS_NO_CHILD}
      BY <1>1, <2>1, <2>5, <3>1, SearchFacts
    <3>3. /\ query.columns[d] => isIn(query, d, STORE[t][d])
          /\ STORE[t][d] \in Nat /\ query.lower[d] \in Nat /\ query.upper[d] \in Nat
      BY <1>1, <1>3, <2>1, QueryFacts, StoreFacts DEF Accepts, KDTypeOK
    <3>4. Side(n, STORE[t]) = IF STORE[t][d] <= TREE[n].value THEN TREE[n].left
                                                              ELSE TREE[n].right
      BY <1>3 DEF Side, Child
    <3>5. CASE STORE[t][d] <= TREE[n].value
      <4>1. SearchLeft(query, d, TREE[n].value)
        BY <1>4, <3>3, <3>5 DEF SearchLeft, isIn
      <4>2. a = 1 /\ l[1].node = TREE[n].left
        BY <1>len, <3>2, <3>4, <3>5, <4>1
      <4>3. QED
        BY <1>10, <3>2, <3>4, <3>5, <4>2
    <3>6. CASE ~(STORE[t][d] <= TREE[n].value)
      <4>1. SearchRight(query, d, TREE[n].value)
        BY <1>4, <3>3, <3>6 DEF SearchRight, isIn
      <4>2. b = 1 /\ r[1].node = TREE[n].right
        BY <1>len, <3>2, <3>4, <3>6, <4>1
      <4>3. QED
        BY <1>10, <3>2, <3>4, <3>6, <4>2
    <3>7. QED
      BY <3>5, <3>6
  <2>6. QED
    BY <1>13, <1>14, <2>2, <2>3, <2>4, <2>5
<1>22. ASSUME NEW i \in DOMAIN stack', NEW j \in DOMAIN stack', i # j,
              NEW t \in DOMAIN STORE,
              stack'[i].node \in path[t], stack'[j].node \in path[t]
       PROVE  FALSE
  <2>1. CASE i <= k /\ j <= k
    <3>1. \/ stack'[i].node = TREE[n].left /\ stack'[j].node = TREE[n].right
          \/ stack'[i].node = TREE[n].right /\ stack'[j].node = TREE[n].left
      BY <1>10, <1>22, <1>len, <2>1
    <3>2. stack'[i].node \in Kids(n) /\ stack'[j].node \in Kids(n)
      BY <1>10, <1>15, <2>1
    <3>3. stack'[i].node = stack'[j].node
      BY <1>11, <1>22, <3>2
    <3>4. QED
      BY <1>12, <3>1, <3>2, <3>3 DEF Kids
  <2>2. ASSUME NEW u \in DOMAIN stack', NEW v \in DOMAIN stack', u <= k, v > k,
               stack'[u].node \in path[t], stack'[v].node \in path[t]
        PROVE  FALSE
    <3>1. stack'[u].node \in Kids(n)
      BY <1>10, <1>15, <2>2
    <3>2. n \in path[t]
      BY <1>11, <2>2, <3>1
    <3>3. v - k + 1 \in DOMAIN stack \ {1} /\ stack'[v] = stack[v - k + 1]
      BY <1>10, <1>15, <2>2
    <3>4. QED
      BY <1>2, <1>13, <1>14, <2>2, <3>2, <3>3
  <2>3. CASE i > k /\ j > k
    <3>1. /\ i - k + 1 \in DOMAIN stack /\ stack'[i] = stack[i - k + 1]
          /\ j - k + 1 \in DOMAIN stack /\ stack'[j] = stack[j - k + 1]
      BY <1>10, <1>15, <2>3
    <3>2. i - k + 1 # j - k + 1
      BY <1>10, <1>22
    <3>3. QED
      BY <1>13, <1>22, <3>1, <3>2
  <2>4. (i <= k \/ i > k) /\ (j <= k \/ j > k)
    BY <1>10
  <2>5. QED
    BY <1>22, <2>1, <2>2, <2>3, <2>4
<1>23. ASSUME NEW t \in Range(result'), NEW i \in DOMAIN stack'
       PROVE  stack'[i].node \notin path[t]
  <2>1. t \in DOMAIN STORE
    BY <1>13, <1>20
  <2>2. CASE stack'[i].node \in Kids(n)
    <3>1. t = tid \/ n \notin path[t]
      BY <1>2, <1>13, <1>14, <1>16
    <3>2. QED
      BY <1>11, <2>1, <2>2, <3>1
  <2>3. ASSUME NEW j \in DOMAIN stack \ {1}, stack'[i] = stack[j]
        PROVE  stack'[i].node \notin path[t]
    <3>1. CASE t \in Range(result)
      BY <1>13, <2>3, <3>1
    <3>2. CASE t = tid
      BY <1>2, <1>13, <1>14, <2>1, <2>3, <3>2
    <3>3. QED
      BY <1>16, <3>1, <3>2
  <2>4. QED
    BY <1>15, <2>2, <2>3
<1>24. MatchInv'
  BY <1>1, <1>13, <1>19, <1>20, <1>21, <1>22, <1>23 DEF MatchInv
<1>25. QED
  BY <1>17, <1>18, <1>24
-----------------------------------------------------------------------------
\* The queries, apart from their steps in the tree.
LEMMA AskSearch ==
  ASSUME BuildInv, Ask
  PROVE  SearchInv'
<1>1. /\ stage = "ready" /\ UNCHANGED <<STORE, TREE, nextNodeOffset, path>>
      /\ query' \in Queries /\ result' = <<>> /\ node' = ROOT_OFFSET /\ dimForCompare' = 0
      /\ IF query'.op = "exact"
         THEN stage' = "exact" /\ stack' = <<>>
         ELSE stage' = "match" /\ stack' = <<[node |-> ROOT_OFFSET, dim |-> 0]>>
  BY DEF Ask, buildVars
<1>2. /\ \A t \in DOMAIN STORE : ROOT_OFFSET \in path[t]
      /\ TREE[ROOT_OFFSET].dim = 0
  BY <1>1, SearchFacts
<1>3. /\ Range(result') = {} /\ IsInjective(result')
  BY <1>1 DEF Range, IsInjective
<1>4. CASE query'.op = "exact"
  BY <1>1, <1>2, <1>3, <1>4 DEF SearchInv, MatchInv, ExactInv, DoneInv, NoneTwice
<1>5. CASE query'.op # "exact"
  <2>1. stage' = "match" /\ stack' = <<[node |-> ROOT_OFFSET, dim |-> 0]>>
    BY <1>1, <1>5
  <2>2. /\ DOMAIN stack' = {1} /\ stack'[1].node = ROOT_OFFSET /\ stack'[1].dim = 0
    BY <2>1
  <2>3. Scan(STORE', query') \subseteq DOMAIN STORE
    BY <1>1 DEF Scan
  <2>4. MatchInv'
    BY <1>1, <1>2, <1>3, <1>5, <2>2, <2>3 DEF MatchInv
  <2>5. QED
    BY <1>3, <2>1, <2>4 DEF SearchInv, ExactInv, DoneInv, NoneTwice
<1>6. QED
  BY <1>4, <1>5

LEMMA ReturnSearch ==
  ASSUME SearchInv, Return
  PROVE  SearchInv'
<1>1. /\ stage = "match" /\ stack = <<>> /\ stage' = "done"
      /\ UNCHANGED <<STORE, TREE, path, query, result, stack>>
  BY DEF Return, buildVars, queryVars
<1>2. /\ query.op # "exact" /\ DOMAIN stack = {}
      /\ Range(result) = Scan(STORE, query)
  BY <1>1 DEF SearchInv, MatchInv
<1>3. DoneInv'
  BY <1>1, <1>2 DEF DoneInv, ScanAnswer
<1>4. QED
  BY <1>1, <1>3 DEF SearchInv, MatchInv, ExactInv, NoneTwice

\* Steps of the build and of the driver, during which no query is answered.
LEMMA IdleSearch ==
  ASSUME SearchInv, CreateRoot \/ Descend \/ Attach \/ Built \/ Forget
  PROVE  SearchInv'
<1>1. stage' \in {"build", "ready"}
  BY DEF CreateRoot, Descend, Attach, Built, Forget
<1>2. IsInjective(result')
  <2>1. result' = result \/ result' = <<>>
    BY DEF CreateRoot, Descend, Attach, Built, Forget, queryVars
  <2>2. IsInjective(<<>>)
    BY DEF IsInjective
  <2>3. QED
    BY <2>1, <2>2 DEF SearchInv, NoneTwice
<1>3. QED
  BY <1>1, <1>2 DEF SearchInv, MatchInv, ExactInv, DoneInv, NoneTwice

LEMMA Stuttering ==
  ASSUME IInv, UNCHANGED vars
  PROVE  IInv'
<1>1. /\ UNCHANGED <<STORE, TREE, nextNodeOffset, path, query, result, stack, stage,
                     node, dimForCompare>>
      /\ UNCHANGED buildVars
  BY DEF vars, buildVars, queryVars
<1>2. KDTypeOK'
  <2>1. NUM_POINTS' = NUM_POINTS /\ Offsets' = Offsets /\ Node' = Node
    BY <1>1 DEF NUM_POINTS, Offsets, Node
  <2>2. QED
    BY <1>1, <2>1 DEF IInv, BuildInv, KDTypeOK
<1>3. ShapeInv' /\ PathInv' /\ RowsAreReachable'
  BY <1>1, TreeUnchanged DEF IInv, BuildInv
<1>4. CursorInv'
  BY <1>1 DEF IInv, BuildInv, CursorInv, Kids, Side, Child
<1>5. SearchInv'
  BY <1>1 DEF IInv, SearchInv, MatchInv, ExactInv, DoneInv, NoneTwice
<1>6. QED
  BY <1>2, <1>3, <1>4, <1>5 DEF IInv, BuildInv

LEMMA Invariance == IInv /\ [Next]_vars => IInv'
<1> SUFFICES ASSUME IInv, [Next]_vars PROVE IInv'
  OBVIOUS
<1> USE DEF IInv
<1>1. CASE CreateRoot
  BY <1>1, RootBuild, IdleSearch
<1>2. CASE Descend
  BY <1>2, DescendBuild, IdleSearch
<1>3. CASE Attach
  BY <1>3, AttachBuild, IdleSearch
<1>4. CASE Built
  <2>1. KDTypeOK' /\ UNCHANGED buildVars /\ stage' # "build"
    BY <1>4, BuildTypeOK DEF BuildInv, Built
  <2>2. QED
    BY <1>4, <2>1, SearchBuild, IdleSearch
<1>5. CASE Ask
  <2>1. KDTypeOK' /\ UNCHANGED buildVars /\ stage' # "build"
    BY <1>5, AskTypeOK DEF BuildInv, Ask
  <2>2. QED
    BY <1>5, <2>1, SearchBuild, AskSearch
<1>6. CASE Probe
  <2>1. ExactInv /\ NoneTwice
    BY DEF SearchInv
  <2>2. KDTypeOK' /\ ExactInv' /\ DoneInv' /\ NoneTwice'
    BY <1>6, <2>1, ProbeSearch
  <2>3. UNCHANGED buildVars /\ stage' \in {"exact", "done"}
    BY <1>6 DEF Probe
  <2>4. QED
    BY <2>2, <2>3, SearchBuild DEF SearchInv, MatchInv
<1>7. CASE Visit
  <2>1. MatchInv /\ NoneTwice
    BY DEF SearchInv
  <2>2. KDTypeOK' /\ MatchInv' /\ NoneTwice'
    BY <1>7, <2>1, VisitSearch
  <2>3. UNCHANGED buildVars /\ stage' = "match"
    BY <1>7 DEF Visit
  <2>4. QED
    BY <2>2, <2>3, SearchBuild DEF SearchInv, ExactInv, DoneInv
<1>8. CASE Return
  <2>1. KDTypeOK' /\ UNCHANGED buildVars /\ stage' # "build"
    BY <1>8, AskTypeOK DEF BuildInv, Return
  <2>2. QED
    BY <1>8, <2>1, SearchBuild, ReturnSearch
<1>9. CASE Forget
  <2>1. KDTypeOK' /\ UNCHANGED buildVars /\ stage' # "build"
    BY <1>9, AskTypeOK DEF BuildInv, Forget
  <2>2. QED
    BY <1>9, <2>1, SearchBuild, IdleSearch
<1>10. CASE UNCHANGED vars
  BY <1>10, Stuttering
<1>11. QED
  BY <1>1, <1>2, <1>3, <1>4, <1>5, <1>6, <1>7, <1>8, <1>9, <1>10 DEF Next

LEMMA Inductive == Spec => []IInv
<1>1. Init => IInv
  <2> SUFFICES ASSUME Init PROVE IInv
    OBVIOUS
  <2>1. stage = "new" /\ result = <<>>
    BY DEF Init
  <2>2. SearchInv
    BY <2>1 DEF SearchInv, MatchInv, ExactInv, DoneInv, NoneTwice, IsInjective
  <2>3. QED
    BY <2>2, InitBuild DEF IInv
<1>2. QED
  BY <1>1, Invariance, PTL DEF Spec

\* KDTypeOK: the nodes fill the array that was allocated, and every offset and
\* dimension that a step uses is one of a node.
THEOREM TypeCorrect == Spec => []KDTypeOK
BY Inductive, PTL DEF IInv, BuildInv

\* Every row that has been inserted stays reachable for its own values.
THEOREM InsertedStaysReachable == Spec => []RowsAreReachable
BY Inductive, PTL DEF IInv, BuildInv

\* No query returns a TID twice.
THEOREM ReturnedOnce == Spec => []NoneTwice
BY Inductive, PTL DEF IInv, SearchInv
-----------------------------------------------------------------------------
\* A step of the KD tree is a step of SeqScan or changes nothing there.
LEMMA StepSimulation == IInv /\ [Next]_vars => [Promise!Next]_Promise!vars
<1> SUFFICES ASSUME IInv, [Next]_vars PROVE [Promise!Next]_Promise!vars
  OBVIOUS
<1> DEFINE bar == IF stage = "done" THEN Range(result) ELSE NoAnswer
<1> USE DEF Promise!vars
<1>1. ASSUME stage = "done"
      PROVE  Range(result) # NoAnswer
  <2>1. STORE \in Tables /\ result \in Seq(DOMAIN STORE \cup {NOT_FOUND})
    BY DEF IInv, BuildInv, KDTypeOK
  <2>2. Range(result) \in SUBSET (DOMAIN STORE \cup {NOT_FOUND})
    BY <2>1, LenProperties DEF Range
  <2>3. QED
    BY <2>1, <2>2, KDAssumption
<1>2. CASE Ask
  BY <1>2 DEF Ask, buildVars, Promise!Next, Promise!Ask, IInv, BuildInv, KDTypeOK
<1>3. ASSUME Probe \/ Return, stage' = "done"
      PROVE  Promise!Answer
  <2>1. /\ stage \in {"exact", "match"} /\ UNCHANGED <<STORE, query>>
    BY <1>3 DEF Probe, Return, buildVars, queryVars
  <2>2. query # NoQuery
    BY <2>1, QueryFacts, StoreAssumption DEF IInv, BuildInv
  <2>3. DoneInv'
    BY Invariance DEF IInv, SearchInv
  <2>4. bar = NoAnswer /\ bar' = ScanAnswer(STORE, query)
    BY <1>3, <2>1, <2>3 DEF DoneInv
  <2>5. Promise!ScanAnswer(STORE, query) = ScanAnswer(STORE, query)
    BY DEF Promise!ScanAnswer, ScanAnswer, Promise!Scan, Scan, Promise!Accepts,
           Accepts, Promise!isIn, isIn, Promise!Dims, Dims
  <2>6. QED
    BY <2>1, <2>2, <2>4, <2>5 DEF Promise!Answer
<1>4. CASE Forget
  <2>1. stage = "done" /\ stage' = "ready" /\ query' = NoQuery /\ STORE' = STORE
    BY <1>4 DEF Forget, buildVars
  <2>2. QED
    BY <1>1, <2>1 DEF Promise!Next, Promise!Forget
<1>5. ASSUME UNCHANGED <<STORE, query>>, stage # "done", stage' # "done"
      PROVE  UNCHANGED Promise!vars
  BY <1>5
<1>6. CASE CreateRoot \/ Descend \/ Attach \/ Built
  <2>1. UNCHANGED <<STORE, query>> /\ stage # "done" /\ stage' # "done"
    BY <1>6 DEF CreateRoot, Descend, Attach, Built, buildVars, queryVars
  <2>2. QED
    BY <1>5, <2>1
<1>7. CASE (Probe \/ Return \/ Visit) /\ stage' # "done"
  <2>1. UNCHANGED <<STORE, query>> /\ stage # "done"
    BY <1>7 DEF Probe, Return, Visit, buildVars, queryVars
  <2>2. QED
    BY <1>5, <1>7, <2>1
<1>8. ASSUME Visit PROVE stage' # "done"
  BY <1>8 DEF Visit
<1>9. CASE UNCHANGED vars
  BY <1>9 DEF vars, buildVars, queryVars
<1>10. QED
  BY <1>2, <1>3, <1>4, <1>6, <1>7, <1>8, <1>9 DEF Next, Promise!Next

\* The KD tree answers every query of every table as a scan of the table does.
THEOREM KDTreeImplementsSeqScan == Spec => ImplementsSeqScan
<1>1. Init => Promise!Init
  BY DEF Init, Promise!Init
<1>2. QED
  BY <1>1, StepSimulation, Inductive, PTL DEF Spec, ImplementsSeqScan, Promise!Spec
=============================================================================
