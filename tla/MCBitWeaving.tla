---------------------------- MODULE MCBitWeaving ----------------------------
EXTENDS BitWeaving

\* Words of 8 bits: a BitWeaving/H word has two codes of 2 bits and 2 empty
\* bits, a segment 6 codes, so that segments and words of the vector do not
\* end together; a BitWeaving/V code of 3 bits has a full group and a last one.
V == [type |-> "kBitWeavingV", size |-> 3]
H == [type |-> "kBitWeavingH", size |-> 2]
N == [type |-> "kNaive", size |-> 3]
MCSchemas == {<<V, V>>, <<H, H>>, <<N, V>>}

\* 11 codes of 3 bits are one block, with 5 before them exactly one; 18 codes
\* of 2 bits, which fit every format, are two.
MCBatches == {<<1, 0, 7, 2, 5, 1, 0, 6, 3, 4, 0>>,
              [i \in 1..18 |-> (i * i + 1) % 4]}

\* A file that ends in its first block, and one that ends in its second.
MCCuts == {[whole |-> 0, kept |-> 3], [whole |-> 1, kept |-> 1]}

Literals(cmps, literals) ==
  [kind : {"literal"}, cmp : cmps, literal : literals]
MCPredicates ==
  Literals({"kEqual", "kLess", "kGreaterEqual"}, {2})
    \cup Literals({"kInequal", "kGreater"}, {1})
    \cup Literals({"kLessEqual"}, {4})
    \cup {[kind |-> "between", literal |-> x[1], literal2 |-> x[2]] :
            x \in {<<1, 2>>, <<1, 8>>}}

Rows(n) == [t \in 0..(n - 1) |-> [d \in 0..1 |-> IF d = 0 THEN t % 4
                                                 ELSE (t * t + 1) % 3]]
MCStores ==
  [rows : {Rows(5), Rows(16), Rows(19)}, dims : {2},
   ctype : {"kNaive", "kBitWeavingV", "kBitWeavingH"},
   code_sizes : {[d \in 0..1 |-> 2]}]
Point(x, y) == [d \in 0..1 |-> IF d = 0 THEN x ELSE y]
MCQueries ==
  [op : {"exact"}, lower : {Point(3, 2), Point(2, 1), Point(5, 1)},
   upper : {Point(0, 0)}, columns : {Point(TRUE, TRUE)}]
    \cup [op : {"window"}, lower : {Point(1, 1), Point(2, 0)},
          upper : {Point(3, 1), Point(2, 2), Point(4, 2), Point(3, 5)},
          columns : {Point(TRUE, TRUE)}]
    \cup [op : {"partial"}, lower : {Point(1, 1), Point(2, 0)},
          upper : {Point(3, 1), Point(2, 2), Point(4, 2), Point(3, 5)},
          columns : {Point(TRUE, TRUE), Point(TRUE, FALSE), Point(FALSE, TRUE)}]
=============================================================================
