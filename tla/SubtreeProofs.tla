---------------------------- MODULE SubtreeProofs ---------------------------
(***************************************************************************)
(* Proofs about SubtreeMatch, for any index, any number of pointers and of *)
(* workers.  The pool's own invariant, IInv, is proved in ThreadPoolProofs *)
(* and holds here because a step of the call is a step of the pool or none *)
(* at all.                                                                 *)
(***************************************************************************)
EXTENDS SubtreeMatch, ThreadPoolProofs, FiniteSetTheorems,
        WellFoundedInduction

-----------------------------------------------------------------------------
(***************************************************************************)
(* What the recursive operators of SubtreeMatch compute: Walk has a value  *)
(* for every node, and Sequential is an arrangement of what the walks from *)
(* the pointers find.  Neither is proved by an induction theorem: a set of *)
(* counterexamples would have a least member, by the order of the numbers  *)
(* or by DepthAssumption, and there can be none.                           *)
(***************************************************************************)

\* The members of the first n sequences of s, each with its place.
Places(s, n) == {p \in (1..n) \X Nat : p[2] \in DOMAIN s[p[1]]}

\* b takes the places in P one to one to those of t, with what they hold.
Arranges(b, t, s, P) == /\ b \in Bijection(P, DOMAIN t)
                        /\ \A p \in P : t[b[p]] = s[p[1]][p[2]]

\* f[i] is the concatenation of the first i sequences of s.
IsFlatten(f, s, n) ==
  f = [i \in 1..n |-> IF i = 1 THEN s[i] ELSE f[i-1] \o s[i]]

-----------------------------------------------------------------------------
\* Every set of numbers has a least member.
LEMMA LeastNumber ==
  ASSUME NEW S \in SUBSET Nat, S # {}
  PROVE  \E m \in S : \A k \in S : m <= k
<1>1. PICK m \in S : \A k \in S : ~(<<k, m>> \in OpToRel(<, Nat))
  BY NatLessThanWellFounded, WFMin, Zenon
<1>2. ASSUME NEW k \in S
      PROVE  m <= k
  <2>1. ~(k < m)
    BY <1>1, Zenon DEF OpToRel
  <2>2. k \in Nat /\ m \in Nat
    OBVIOUS
  <2>3. QED
    BY <2>1, <2>2
<1>3. QED
  BY <1>2

\* A function with the places of a sequence is one.
LEMMA IsSequence ==
  ASSUME NEW P, NEW n \in Nat, NEW f \in [1..n -> P]
  PROVE  f \in Seq(P) /\ Len(f) = n
<1>1. f \in Seq(P)
  BY SeqDef
<1>2. QED
  BY <1>1, LenProperties

\* Two arrangements of different places make one of both.
LEMMA ArrangeBoth ==
  ASSUME NEW S, NEW t \in Seq(S), NEW u \in Seq(S), NEW s, NEW P, NEW Q,
         P \cap Q = {},
         NEW b, Arranges(b, t, s, P),
         NEW c, Arranges(c, u, s, Q)
  PROVE  \E e : Arranges(e, t \o u, s, P \cup Q)
<1> DEFINE e == [p \in P \cup Q |-> IF p \in P THEN b[p] ELSE Len(t) + c[p]]
           v == t \o u
<1>1. /\ Len(t) \in Nat /\ Len(u) \in Nat
      /\ DOMAIN t = 1..Len(t) /\ DOMAIN u = 1..Len(u)
      /\ v \in Seq(S)
      /\ Len(v) = Len(t) + Len(u)
      /\ DOMAIN v = 1..Len(v)
      /\ \A i \in 1..Len(v) : v[i] = IF i <= Len(t) THEN t[i]
                                     ELSE u[i - Len(t)]
  BY ConcatProperties, LenProperties
<1> HIDE DEF v
<1>2. /\ \A p \in P : b[p] \in 1..Len(t)
      /\ \A p, q \in P : b[p] = b[q] => p = q
      /\ \A i \in 1..Len(t) : \E p \in P : b[p] = i
  BY <1>1 DEF Arranges, Bijection, Injection, Surjection, IsInjective
<1>3. /\ \A p \in Q : c[p] \in 1..Len(u)
      /\ \A p, q \in Q : c[p] = c[q] => p = q
      /\ \A i \in 1..Len(u) : \E p \in Q : c[p] = i
  BY <1>1 DEF Arranges, Bijection, Injection, Surjection, IsInjective
<1>4. /\ \A p \in P : e[p] = b[p]
      /\ \A p \in Q : e[p] = Len(t) + c[p]
  OBVIOUS
<1>5. DOMAIN e = P \cup Q
  OBVIOUS
<1> HIDE DEF e
<1>6. /\ \A p \in P : e[p] \in 1..Len(v) /\ e[p] <= Len(t)
      /\ \A p \in Q : e[p] \in 1..Len(v) /\ e[p] > Len(t)
  <2>1. ASSUME NEW p \in P
        PROVE  e[p] \in 1..Len(v) /\ e[p] <= Len(t)
    BY <1>1, <1>2, <1>4
  <2>2. ASSUME NEW p \in Q
        PROVE  e[p] \in 1..Len(v) /\ e[p] > Len(t)
    <3>1. c[p] \in 1..Len(u) /\ e[p] = Len(t) + c[p]
      BY <1>3, <1>4
    <3>2. QED
      BY <1>1, <3>1
  <2>3. QED
    BY <2>1, <2>2
<1>7. ASSUME NEW p \in P \cup Q, NEW q \in P \cup Q, e[p] = e[q]
      PROVE  p = q
  <2>1. CASE p \in P /\ q \in P
    BY <1>2, <1>4, <1>7, <2>1
  <2>2. CASE p \in Q /\ q \in Q
    <3>1. /\ e[p] = Len(t) + c[p] /\ e[q] = Len(t) + c[q]
          /\ c[p] \in 1..Len(u) /\ c[q] \in 1..Len(u)
      BY <1>3, <1>4, <2>2
    <3>2. c[p] = c[q]
      <4>1. Len(t) + c[p] = Len(t) + c[q]
        BY <1>7, <3>1, Zenon
      <4>2. Len(t) \in Nat /\ c[p] \in Nat /\ c[q] \in Nat
        <5> HIDE <1>7
        <5>1. QED
          BY <1>1, <3>1
      <4>3. QED
        BY <4>1, <4>2
    <3>3. QED
      BY <1>3, <2>2, <3>2
  <2>3. ~(p \in P /\ q \in Q) /\ ~(p \in Q /\ q \in P)
    BY <1>1, <1>6, <1>7
  <2>4. QED
    BY <2>1, <2>2, <2>3
<1>8. ASSUME NEW i \in 1..Len(v)
      PROVE  \E p \in P \cup Q : e[p] = i
  <2>1. CASE i <= Len(t)
    BY <1>1, <1>2, <1>4, <2>1, SMTT(30)
  <2>2. CASE i > Len(t)
    <3>1. i - Len(t) \in 1..Len(u)
      BY <1>1, <2>2
    <3>2. PICK p \in Q : c[p] = i - Len(t)
      BY <1>3, <3>1
    <3>3. QED
      BY <1>1, <1>4, <3>2
  <2>3. QED
    BY <1>1, <2>1, <2>2
<1>9. ASSUME NEW p \in P \cup Q
      PROVE  v[e[p]] = s[p[1]][p[2]]
  <2>1. CASE p \in P
    BY <1>1, <1>2, <1>4, <2>1 DEF Arranges
  <2>2. CASE p \in Q
    <3>1. e[p] \in 1..Len(v) /\ e[p] > Len(t) /\ e[p] - Len(t) = c[p]
      BY <1>1, <1>3, <1>4, <2>2
    <3>2. v[e[p]] = u[c[p]]
      BY <1>1, <3>1
    <3>3. QED
      BY <2>2, <3>2 DEF Arranges
  <2>3. QED
    BY <2>1, <2>2
<1>10. e \in Bijection(P \cup Q, DOMAIN v)
  <2>1. e \in [P \cup Q -> DOMAIN v]
    BY <1>1, <1>6 DEF e
  <2>2. QED
    BY <1>1, <1>5, <1>7, <1>8, <2>1
    DEF Bijection, Injection, Surjection, IsInjective
<1>11. QED
  BY <1>9, <1>10 DEF Arranges, v

\* One more member is arranged by its place.
LEMMA ArrangeSingle ==
  ASSUME NEW S, NEW t \in S, NEW s, NEW q, s[q[1]][q[2]] = t
  PROVE  \E c : Arranges(c, <<t>>, s, {q})
<1> DEFINE c == [p \in {q} |-> 1]
<1>1. DOMAIN <<t>> = {1} /\ <<t>>[1] = t
  OBVIOUS
<1>2. c \in Bijection({q}, {1}) /\ c[q] = 1
  BY DEF Bijection, Injection, Surjection, IsInjective
<1>3. QED
  BY <1>1, <1>2 DEF Arranges

\* Two arrangements of the same places hold everything equally often.
LEMMA SameCopies ==
  ASSUME NEW S, NEW t \in Seq(S), NEW u \in Seq(S), NEW s, NEW P, NEW x,
         NEW b, Arranges(b, t, s, P),
         NEW c, Arranges(c, u, s, P)
  PROVE  Copies(t, x) = Copies(u, x)
<1> DEFINE D == {k \in DOMAIN t : t[k] = x}
           E == {k \in DOMAIN u : u[k] = x}
           Of(k) == CHOOSE p \in P : b[p] = k
           g == [k \in D |-> c[Of(k)]]
<1>1. /\ \A p \in P : b[p] \in DOMAIN t /\ t[b[p]] = s[p[1]][p[2]]
      /\ \A p, q \in P : b[p] = b[q] => p = q
      /\ \A k \in DOMAIN t : \E p \in P : b[p] = k
  BY DEF Arranges, Bijection, Injection, Surjection, IsInjective
<1>2. /\ \A p \in P : c[p] \in DOMAIN u /\ u[c[p]] = s[p[1]][p[2]]
      /\ \A p, q \in P : c[p] = c[q] => p = q
      /\ \A k \in DOMAIN u : \E p \in P : c[p] = k
  BY DEF Arranges, Bijection, Injection, Surjection, IsInjective
<1>3. \A k \in D : Of(k) \in P /\ b[Of(k)] = k
  BY <1>1
<1>4. \A p \in P : b[p] \in D => Of(b[p]) = p
  BY <1>1, <1>3
<1> HIDE DEF Of
<1>5. \A k \in D : g[k] = c[Of(k)] /\ g[k] \in E
  <2> SUFFICES ASSUME NEW k \in D PROVE g[k] = c[Of(k)] /\ g[k] \in E
    OBVIOUS
  <2>1. g[k] = c[Of(k)]
    OBVIOUS
  <2>2. Of(k) \in P /\ b[Of(k)] = k
    BY <1>3
  <2>3. u[c[Of(k)]] = t[k] /\ c[Of(k)] \in DOMAIN u
    BY <1>1, <1>2, <2>2, ZenonT(30)
  <2>4. QED
    BY <2>1, <2>3
<1>6. \A j, k \in D : g[j] = g[k] => j = k
  BY <1>2, <1>3, <1>5
<1>7. ASSUME NEW e \in E
      PROVE  \E k \in D : g[k] = e
  <2>1. PICK p \in P : c[p] = e
    BY <1>2
  <2>2. b[p] \in D
    <3>1. b[p] \in DOMAIN t /\ t[b[p]] = s[p[1]][p[2]]
      BY <1>1, Zenon
    <3>2. u[c[p]] = s[p[1]][p[2]]
      BY <1>2, Zenon
    <3>3. t[b[p]] = x
      BY <2>1, <3>1, <3>2
    <3>4. QED
      BY <3>1, <3>3
  <2>3. g[b[p]] = e
    BY <1>4, <1>5, <2>1, <2>2
  <2>4. QED
    BY <2>2, <2>3
<1>8. g \in [D -> E]
  BY <1>5
<1>9. ExistsBijection(D, E)
  <2> HIDE DEF D, E, g
  <2>1. DOMAIN g = D
    BY <1>8
  <2>2. g \in Bijection(D, E)
    BY <1>6, <1>7, <1>8, <2>1
    DEF Bijection, Injection, Surjection, IsInjective
  <2>3. QED
    BY <2>2 DEF ExistsBijection
<1>10. IsFiniteSet(D)
  <2>1. DOMAIN t = 1..Len(t) /\ Len(t) \in Nat
    BY LenProperties
  <2>2. IsFiniteSet(1..Len(t))
    BY <2>1, FS_Interval
  <2>3. QED
    BY <2>1, <2>2, FS_Subset
<1>11. QED
  BY <1>9, <1>10, FS_Bijection DEF Copies

-----------------------------------------------------------------------------
\* The recursive function inside FlattenSeq has a value.
LEMMA FlattenExists ==
  ASSUME NEW s, NEW n \in Nat
  PROVE  \E f : IsFlatten(f, s, n)
<1> DEFINE Bad == {m \in Nat : ~ \E f : IsFlatten(f, s, m)}
<1>1. SUFFICES ASSUME Bad # {} PROVE FALSE
  OBVIOUS
<1>2. PICK m \in Bad : \A k \in Bad : m <= k
  BY <1>1, LeastNumber
<1>3. m # 0
  <2> DEFINE f == [i \in 1..0 |-> s]
  <2>1. f = [i \in 1..0 |-> IF i = 1 THEN s[i] ELSE f[i-1] \o s[i]]
    OBVIOUS
  <2>2. IsFlatten(f, s, 0)
    BY <2>1 DEF IsFlatten
  <2>3. QED
    BY <1>2, <2>2
<1>4. m - 1 \in Nat /\ m - 1 \notin Bad
  BY <1>2, <1>3
<1>5. PICK f : IsFlatten(f, s, m - 1)
  BY <1>4
<1> DEFINE g == [i \in 1..m |-> IF i < m THEN f[i]
                               ELSE IF m = 1 THEN s[i] ELSE f[i-1] \o s[i]]
<1>6. g = [i \in 1..m |-> IF i = 1 THEN s[i] ELSE g[i-1] \o s[i]]
  <2>1. ASSUME NEW i \in 1..m
        PROVE  g[i] = IF i = 1 THEN s[i] ELSE g[i-1] \o s[i]
    <3>1. CASE i = m
      <4>1. CASE m = 1
        BY <3>1, <4>1
      <4>2. CASE m # 1
        <5>1. m - 1 \in 1..m /\ m - 1 < m /\ m \in 1..m /\ ~(m < m)
          BY <1>2, <1>3, <4>2
        <5>2. g[m - 1] = f[m - 1] /\ g[m] = f[m - 1] \o s[m]
          BY <4>2, <5>1
        <5>3. QED
          BY <3>1, <4>2, <5>2
      <4>3. QED
        BY <4>1, <4>2
    <3>2. CASE i # m
      <4>1. i \in 1..(m - 1) /\ i < m
        BY <1>2, <3>2
      <4>2. g[i] = f[i] /\ f[i] = IF i = 1 THEN s[i] ELSE f[i-1] \o s[i]
        BY <1>5, <4>1 DEF IsFlatten
      <4>3. CASE i = 1
        BY <4>2, <4>3
      <4>4. CASE i # 1
        <5>1. i - 1 \in 1..m /\ i - 1 < m
          BY <1>2, <4>1, <4>4
        <5>2. g[i - 1] = f[i - 1]
          BY <5>1
        <5>3. QED
          BY <4>2, <4>4, <5>2
      <4>5. QED
        BY <4>3, <4>4
    <3>3. QED
      BY <3>1, <3>2
  <2> DEFINE h == [i \in 1..m |-> IF i = 1 THEN s[i] ELSE g[i-1] \o s[i]]
  <2>2. DOMAIN g = 1..m /\ DOMAIN h = 1..m /\ \A i \in 1..m : g[i] = h[i]
    BY <2>1
  <2>3. g = [i \in 1..m |-> g[i]] /\ h = [i \in 1..m |-> h[i]]
    OBVIOUS
  <2> HIDE DEF g, h
  <2>4. g = h
    BY <2>2, <2>3
  <2>5. QED
    BY <2>4 DEF h
<1>7. IsFlatten(g, s, m)
  BY <1>6, Zenon DEF IsFlatten
<1>8. QED
  BY <1>2, <1>7

\* One sequence is arranged by its own places.
LEMMA ArrangeOne ==
  ASSUME NEW s, NEW k \in Nat, NEW S, s[k] \in Seq(S)
  PROVE  \E b : Arranges(b, s[k], s, {k} \X DOMAIN s[k])
<1> DEFINE Q == {k} \X DOMAIN s[k]
           b == [p \in Q |-> p[2]]
<1>1. /\ \A p \in Q : p = <<k, p[2]>> /\ p[1] = k /\ p[2] \in DOMAIN s[k]
      /\ \A i \in DOMAIN s[k] : <<k, i>> \in Q /\ <<k, i>>[2] = i
  OBVIOUS
<1>2. DOMAIN b = Q /\ b \in [Q -> DOMAIN s[k]] /\ \A p \in Q : b[p] = p[2]
  BY <1>1
<1> HIDE DEF Q, b
<1>3. \A p, q \in Q : b[p] = b[q] => p = q
  <2> SUFFICES ASSUME NEW p \in Q, NEW q \in Q, b[p] = b[q] PROVE p = q
    OBVIOUS
  <2>1. p = <<k, p[2]>> /\ q = <<k, q[2]>> /\ p[2] = q[2]
    BY <1>1, <1>2
  <2>2. QED
    BY <2>1, Zenon
<1>4. \A i \in DOMAIN s[k] : \E p \in Q : b[p] = i
  BY <1>1, <1>2
<1>5. b \in Bijection(Q, DOMAIN s[k])
  BY <1>2, <1>3, <1>4 DEF Bijection, Injection, Surjection, IsInjective
<1>6. \A p \in Q : s[k][b[p]] = s[p[1]][p[2]]
  BY <1>1, <1>2
<1>7. QED
  BY <1>5, <1>6 DEF Arranges, Q

LEMMA NextPlaces ==
  ASSUME NEW P, NEW n \in Nat, NEW s \in [1..n -> Seq(P)], NEW i \in 1..n
  PROVE  /\ Places(s, i) = Places(s, i - 1) \cup ({i} \X DOMAIN s[i])
         /\ Places(s, i - 1) \cap ({i} \X DOMAIN s[i]) = {}
         /\ Places(s, 0) = {}
<1>1. DOMAIN s[i] \subseteq Nat
  BY LenProperties
<1>2. 1..i = (1..(i-1)) \cup {i} /\ i \notin 1..(i-1) /\ 1..0 = {}
  OBVIOUS
<1>3. QED
  BY <1>1, <1>2 DEF Places

LEMMA FlattenPrefix ==
  ASSUME NEW P, NEW n \in Nat, NEW s \in [1..n -> Seq(P)], NEW f,
         IsFlatten(f, s, n), NEW i \in 1..n
  PROVE  f[i] \in Seq(P) /\ \E b : Arranges(b, f[i], s, Places(s, i))
<1> DEFINE Good(j) == /\ f[j] \in Seq(P)
                      /\ \E b : Arranges(b, f[j], s, Places(s, j))
           Bad == {j \in 1..n : ~Good(j)}
<1>1. SUFFICES ASSUME Bad # {} PROVE FALSE
  OBVIOUS
<1>2. PICK m \in Bad : \A k \in Bad : m <= k
  <2>1. Bad \in SUBSET Nat
    OBVIOUS
  <2>2. QED
    BY <1>1, <2>1, LeastNumber
<1>3. m \in 1..n /\ s[m] \in Seq(P) /\ m \in Nat
  BY <1>2
<1>4. f[m] = IF m = 1 THEN s[m] ELSE f[m-1] \o s[m]
  BY <1>3 DEF IsFlatten
<1>5. PICK c : Arranges(c, s[m], s, {m} \X DOMAIN s[m])
  BY <1>3, ArrangeOne
<1>6. /\ Places(s, m) = Places(s, m - 1) \cup ({m} \X DOMAIN s[m])
      /\ Places(s, m - 1) \cap ({m} \X DOMAIN s[m]) = {}
      /\ Places(s, 0) = {}
  BY <1>3, NextPlaces
<1>7. CASE m = 1
  <2>1. f[m] = s[m] /\ Places(s, m) = {m} \X DOMAIN s[m]
    BY <1>4, <1>6, <1>7
  <2>2. QED
    BY <1>2, <1>3, <1>5, <2>1, Zenon
<1>8. CASE m # 1
  <2>1. m - 1 \in 1..n /\ ~(m <= m - 1)
    BY <1>3, <1>8
  <2>2. Good(m - 1)
    BY <1>2, <2>1
  <2>3. PICK b : Arranges(b, f[m-1], s, Places(s, m - 1))
    BY <2>2
  <2>4. \E e : Arranges(e, f[m-1] \o s[m], s,
                        Places(s, m - 1) \cup ({m} \X DOMAIN s[m]))
    BY <1>3, <1>5, <1>6, <2>2, <2>3, ArrangeBoth, Zenon
  <2>5. f[m] = f[m-1] \o s[m] /\ f[m] \in Seq(P)
    BY <1>3, <1>4, <1>8, <2>2, ConcatProperties
  <2>6. Good(m)
    BY <1>6, <2>4, <2>5, Zenon
  <2>7. QED
    BY <1>2, <2>6
<1>9. QED
  BY <1>7, <1>8

\* FlattenSeq arranges the members of the sequences one after another.
LEMMA FlattenArranges ==
  ASSUME NEW P, NEW n \in Nat, NEW s \in [1..n -> Seq(P)]
  PROVE  /\ FlattenSeq(s) \in Seq(P)
         /\ \E b : Arranges(b, FlattenSeq(s), s, Places(s, n))
<1>1. s \in Seq(Seq(P)) /\ Len(s) = n
  BY IsSequence
<1>2. CASE n = 0
  <2>1. FlattenSeq(s) = s
    BY <1>1, <1>2 DEF FlattenSeq
  <2>2. s = <<>>
    BY <1>1, <1>2, EmptySeq
  <2>3. DOMAIN s = {} /\ Places(s, n) = {}
    BY <1>2 DEF Places
  <2> DEFINE b == [p \in {} |-> p]
  <2>4. b \in Bijection({}, {})
    BY DEF Bijection, Injection, Surjection, IsInjective
  <2>5. Arranges(b, s, s, {})
    BY <2>3, <2>4 DEF Arranges
  <2>6. s \in Seq(P)
    BY <2>2, EmptySeq
  <2>7. QED
    BY <2>1, <2>3, <2>5, <2>6
<1>3. CASE n # 0
  <2> DEFINE g == CHOOSE f : IsFlatten(f, s, n)
  <2>1. IsFlatten(g, s, n)
    BY FlattenExists
  <2>2. FlattenSeq(s) = g[n]
    BY <1>1, <1>3, Zenon DEF FlattenSeq, IsFlatten
  <2>3. n \in 1..n
    BY <1>3
  <2> HIDE DEF g
  <2>4. QED
    BY <2>1, <2>2, <2>3, FlattenPrefix
<1>4. QED
  BY <1>2, <1>3

-----------------------------------------------------------------------------
\* What Walk says of node n when f says what is found below it.
Body(f, n) ==
  IF n \in DOMAIN Entries
  THEN FlattenSeq([k \in 1..Len(Entries[n]) |->
                     IF k \in InRange(n) THEN f[Entries[n][k]] ELSE <<>>])
  ELSE IF n \in Passes THEN <<n>> ELSE <<>>

Children(n) == IF n \in DOMAIN Entries THEN Range(Entries[n]) ELSE {}

\* f is Walk on the nodes in C, and C has what their entries lead to.
IsWalk(f, C) == /\ C \in SUBSET Nodes
                /\ \A n \in C : Children(n) \subseteq C
                /\ f = [n \in C |-> Body(f, n)]

LEMMA EntryIsChild ==
  ASSUME NEW n \in DOMAIN Entries
  PROVE  /\ Len(Entries[n]) \in Nat
         /\ DOMAIN Entries[n] = 1..Len(Entries[n])
         /\ \A k \in 1..Len(Entries[n]) : Entries[n][k] \in Children(n)
         /\ InRange(n) \subseteq 1..Len(Entries[n])
         /\ Children(n) \subseteq Nodes
<1>1. Entries[n] \in Seq(Nodes)
  BY SubtreeAssumption
<1>2. /\ Len(Entries[n]) \in Nat
      /\ DOMAIN Entries[n] = 1..Len(Entries[n])
      /\ \A k \in 1..Len(Entries[n]) : Entries[n][k] \in Nodes
  BY <1>1, LenProperties, ElementOfSeq
<1>3. QED
  BY <1>2 DEF Children, Range, InRange

\* Walk looks only at the nodes that the entries lead to.
LEMMA BodyLooksBelow ==
  ASSUME NEW f, NEW g, NEW n, \A c \in Children(n) : f[c] = g[c]
  PROVE  Body(f, n) = Body(g, n)
<1>1. CASE n \in DOMAIN Entries
  <2> DEFINE F == [k \in 1..Len(Entries[n]) |->
                     IF k \in InRange(n) THEN f[Entries[n][k]] ELSE <<>>]
             G == [k \in 1..Len(Entries[n]) |->
                     IF k \in InRange(n) THEN g[Entries[n][k]] ELSE <<>>]
  <2>1. \A k \in 1..Len(Entries[n]) : f[Entries[n][k]] = g[Entries[n][k]]
    BY <1>1, EntryIsChild
  <2>2. F = G
    BY <2>1
  <2>3. QED
    BY <1>1, <2>2, Zenon DEF Body
<1>2. CASE n \notin DOMAIN Entries
  BY <1>2, Zenon DEF Body
<1>3. QED
  BY <1>1, <1>2

\* Every set of nodes has one whose entries lead to none of them.
LEMMA DeepestNode ==
  ASSUME NEW S \in SUBSET Nodes, S # {}
  PROVE  \E n \in S : Children(n) \cap S = {}
<1> DEFINE L == S \cap DOMAIN Entries
<1>1. CASE L = {}
  BY <1>1 DEF Children
<1>2. CASE L # {}
  <2>1. PICK l \in L : Range(Entries[l]) \cap L = {}
    <3>1. L \in (SUBSET DOMAIN Entries) \ {{}}
      BY <1>2
    <3>2. QED
      BY <3>1, DepthAssumption
  <2>2. CASE Children(l) \cap S = {}
    BY <2>2
  <2>3. CASE Children(l) \cap S # {}
    <3>1. PICK n \in Children(l) \cap S : TRUE
      BY <2>3
    <3>2. n \notin DOMAIN Entries
      BY <2>1, <3>1 DEF Children
    <3>3. QED
      BY <3>1, <3>2 DEF Children
  <2>4. QED
    BY <2>2, <2>3
<1>3. QED
  BY <1>1, <1>2

LEMMA WalksAgree ==
  ASSUME NEW f, NEW C, IsWalk(f, C), NEW g, NEW E, IsWalk(g, E),
         NEW n \in C \cap E
  PROVE  f[n] = g[n]
<1> DEFINE S == {m \in C \cap E : f[m] # g[m]}
<1>1. SUFFICES ASSUME S # {} PROVE FALSE
  OBVIOUS
<1>2. PICK m \in S : Children(m) \cap S = {}
  <2>1. S \in SUBSET Nodes
    BY DEF IsWalk
  <2>2. QED
    BY <1>1, <2>1, DeepestNode
<1>3. \A c \in Children(m) : f[c] = g[c]
  BY <1>2 DEF IsWalk
<1>4. Body(f, m) = Body(g, m)
  BY <1>3, BodyLooksBelow
<1>5. f[m] = Body(f, m) /\ g[m] = Body(g, m)
  <2>1. f = [k \in C |-> Body(f, k)] /\ g = [k \in E |-> Body(g, k)]
    BY Zenon DEF IsWalk
  <2>2. m \in C /\ m \in E
    BY <1>2
  <2>3. QED
    BY <2>1, <2>2, Zenon
<1>6. QED
  BY <1>2, <1>4, <1>5

\* The recursion ends at every node.
LEMMA WalkExists == \E f : IsWalk(f, Nodes)
<1> DEFINE U == {n \in Nodes : \E C : n \in C /\ \E f : IsWalk(f, C)}
           On(n) == CHOOSE C : n \in C /\ \E f : IsWalk(f, C)
           Of(n) == CHOOSE f : IsWalk(f, On(n))
           F == [n \in U |-> Of(n)[n]]
<1>1. ASSUME NEW n \in U
      PROVE  n \in On(n) /\ IsWalk(Of(n), On(n))
  <2>1. n \in On(n) /\ \E f : IsWalk(f, On(n))
    BY Zenon
  <2>2. QED
    BY <2>1, Zenon
<1>2. ASSUME NEW C, NEW f, IsWalk(f, C)
      PROVE  C \subseteq U /\ \A n \in C : F[n] = f[n]
  <2>1. C \subseteq U
    <3>1. C \subseteq Nodes
      BY <1>2 DEF IsWalk
    <3>2. QED
      BY <1>2, <3>1, Zenon
  <2>2. ASSUME NEW n \in C
        PROVE  F[n] = f[n]
    <3>1. n \in U
      BY <2>1
    <3>2. n \in On(n) /\ IsWalk(Of(n), On(n))
      BY <1>1, <3>1
    <3> HIDE DEF On, Of
    <3>3. Of(n)[n] = f[n]
      BY <1>2, <3>2, WalksAgree
    <3>4. F[n] = Of(n)[n]
      BY <3>1, Zenon
    <3>5. QED
      BY <3>3, <3>4
  <2>3. QED
    BY <2>1, <2>2
<1>3. ASSUME NEW n \in U
      PROVE  Children(n) \subseteq U /\ F[n] = Body(F, n)
  <2>1. PICK C, f : n \in C /\ IsWalk(f, C)
    BY <1>1
  <2>2. C \subseteq U /\ \A m \in C : F[m] = f[m]
    BY <1>2, <2>1
  <2>3. Children(n) \subseteq C /\ f[n] = Body(f, n)
    <3>1. f = [m \in C |-> Body(f, m)]
      BY <2>1, Zenon DEF IsWalk
    <3>2. f[n] = Body(f, n)
      BY <2>1, <3>1, Zenon
    <3>3. QED
      BY <2>1, <3>2 DEF IsWalk
  <2> HIDE DEF U, F
  <2>4. Body(F, n) = Body(f, n)
    <3>1. \A c \in Children(n) : F[c] = f[c]
      BY <2>2, <2>3
    <3>2. QED
      BY <3>1, BodyLooksBelow
  <2>5. QED
    BY <2>1, <2>2, <2>3, <2>4
<1>4. U \subseteq Nodes
  OBVIOUS
<1>5. IsWalk(F, U)
  <2>1. F = [n \in U |-> Body(F, n)]
    <3>1. DOMAIN F = U /\ F = [n \in U |-> F[n]]
      OBVIOUS
    <3> HIDE DEF F, U
    <3>2. QED
      BY <1>3, <3>1
  <2>2. QED
    BY <1>3, <1>4, <2>1, Zenon DEF IsWalk
<1>6. U = Nodes
  <2>1. SUFFICES ASSUME Nodes \ U # {} PROVE FALSE
    BY <1>4
  <2>2. PICK n \in Nodes \ U : Children(n) \cap (Nodes \ U) = {}
    BY <2>1, DeepestNode
  <2>3. Children(n) \subseteq U
    <3>1. Children(n) \subseteq Nodes
      BY EntryIsChild DEF Children
    <3>2. QED
      BY <2>2, <3>1
  <2> DEFINE C == U \cup {n}
             G == [m \in C |-> IF m = n THEN Body(F, n) ELSE F[m]]
  <2> HIDE DEF U, F
  <2>4. \A m \in C : Body(G, m) = Body(F, m)
    <3>1. ASSUME NEW m \in C
          PROVE  \A c \in Children(m) : G[c] = F[c]
      <4>1. Children(m) \subseteq U
        BY <1>3, <2>3
      <4>2. QED
        BY <2>2, <4>1
    <3>2. QED
      BY <3>1, BodyLooksBelow
  <2>5. \A m \in C : G[m] = Body(F, m)
    BY <1>3
  <2>6. G = [m \in C |-> Body(G, m)]
    <3>1. G = [m \in C |-> G[m]]
      OBVIOUS
    <3> HIDE DEF G, C
    <3>2. QED
      BY <2>4, <2>5, <3>1
  <2>7. IsWalk(G, C)
    <3>1. C \in SUBSET Nodes /\ \A m \in C : Children(m) \subseteq C
      BY <1>3, <1>4, <2>2, <2>3
    <3>2. QED
      BY <2>6, <3>1, Zenon DEF IsWalk
  <2>8. C \subseteq U
    BY <1>2, <2>7
  <2>9. QED
    BY <2>2, <2>8
<1>7. QED
  BY <1>5, <1>6

LEMMA WalkIsBody == IsWalk(Walk, Nodes)
<1>1. PICK f : IsWalk(f, Nodes)
  BY WalkExists
<1>2. f = [n \in Nodes |-> Body(f, n)]
  BY <1>1, Zenon DEF IsWalk
<1>3. Walk = [n \in Nodes |-> Body(Walk, n)]
  BY <1>2, Zenon DEF Walk, Body
<1>4. QED
  BY <1>1, <1>3, Zenon DEF IsWalk

\* A walk finds mono lists that pass, from every node.
LEMMA WalkType == Walk \in [Nodes -> Seq(Passes)]
<1>1. /\ DOMAIN Walk = Nodes
      /\ Walk = [n \in Nodes |-> Walk[n]]
      /\ \A n \in Nodes : Walk[n] = Body(Walk, n)
  <2>1. Walk = [n \in Nodes |-> Body(Walk, n)]
    BY WalkIsBody, Zenon DEF IsWalk
  <2>2. QED
    BY <2>1, Zenon
<1> DEFINE S == {n \in Nodes : Walk[n] \notin Seq(Passes)}
<1>2. SUFFICES ASSUME S # {} PROVE FALSE
  BY <1>1
<1>3. PICK n \in S : Children(n) \cap S = {}
  BY <1>2, DeepestNode
<1>4. CASE n \in DOMAIN Entries
  <2> DEFINE s == [k \in 1..Len(Entries[n]) |->
                     IF k \in InRange(n) THEN Walk[Entries[n][k]] ELSE <<>>]
  <2>1. s \in [1..Len(Entries[n]) -> Seq(Passes)]
    BY <1>3, <1>4, EntryIsChild, EmptySeq
  <2>2. FlattenSeq(s) \in Seq(Passes)
    BY <1>4, <2>1, EntryIsChild, FlattenArranges
  <2>3. Walk[n] = FlattenSeq(s)
    BY <1>1, <1>3, <1>4, Zenon DEF Body
  <2>4. QED
    BY <1>3, <2>2, <2>3
<1>5. CASE n \notin DOMAIN Entries
  <2>1. Walk[n] = IF n \in Passes THEN <<n>> ELSE <<>>
    BY <1>1, <1>3, <1>5, Zenon DEF Body
  <2>2. <<>> \in Seq(Passes) /\ (n \in Passes => <<n>> \in Seq(Passes))
    BY EmptySeq
  <2>3. QED
    BY <1>3, <2>1, <2>2
<1>6. QED
  BY <1>4, <1>5

\* What the tasks find, pointer by pointer.
Finds == [k \in 1..Len(Roots) |-> Walk[Roots[k]]]

\* The sequential walk returns what the tasks find.
LEMMA SequentialArranges ==
  /\ Len(Roots) \in Nat
  /\ Finds \in [1..Len(Roots) -> Seq(Passes)]
  /\ Sequential \in Seq(Passes)
  /\ \E b : Arranges(b, Sequential, Finds, Places(Finds, Len(Roots)))
<1>1. Len(Roots) \in Nat /\ \A k \in 1..Len(Roots) : Roots[k] \in Nodes
  BY SubtreeAssumption, LenProperties, ElementOfSeq
<1>2. Finds \in [1..Len(Roots) -> Seq(Passes)]
  BY <1>1, WalkType DEF Finds
<1>3. Sequential = FlattenSeq(Finds)
  BY Zenon DEF Sequential, Finds
<1>4. QED
  BY <1>1, <1>2, <1>3, FlattenArranges

-----------------------------------------------------------------------------
(* The tasks of the call. *)

\* Main submits the pointers only, and waits for one after the other.
MainInv ==
  /\ submitted \subseteq Range(Roots)
  /\ stage = "drain" => \A k \in 1..(next - 1) : Roots[k] \in ready
  /\ stage = "returned" => Range(Roots) \subseteq ready

IsEndOf(s, t) ==
  /\ Len(s) <= Len(t)
  /\ \A k \in 1..Len(s) : s[k] = t[Len(t) - Len(s) + k]

\* A worker in func() has the rest of its task's walk to push, the others
\* have nothing.
RunInv ==
  \A w \in Workers : /\ pc[w] = "run" => IsEndOf(found[w], Walk[func[w]])
                     /\ pc[w] # "run" => found[w] = <<>>
                     /\ slot[w] # 0 => found[w] # <<>>

\* Without an overlap one push_back goes on at a time, at the vector's end.
PushInv ==
  ~overlap => \A v, w \in Workers :
                slot[w] # 0 => /\ slot[w] = Len(results) + 1
                               /\ slot[v] # 0 => v = w

\* The places of what has been pushed: all of a task that is ready, the first
\* part of one that runs.
Done == {p \in Places(Finds, Len(Roots)) :
           \/ Roots[p[1]] \in ready
           \/ \E w \in Workers : /\ pc[w] = "run"
                                 /\ func[w] = Roots[p[1]]
                                 /\ p[2] + Len(found[w]) <= Len(Walk[func[w]])}

\* Without an overlap the vector holds that and nothing else.
ResultInv == ~overlap => \E b : Arranges(b, results, Finds, Done)

\* The invariant that is inductive.
SubtreeInv == IInv /\ SubtreeTypeOK /\ MainInv /\ RunInv /\ PushInv /\ ResultInv
-----------------------------------------------------------------------------
LEMMA Callers1 == Main \in Callers /\ Main \notin Workers
BY SubtreeAssumption, PoolAssumption DEF Callers

LEMMA RootsType ==
  /\ Len(Roots) \in Nat
  /\ DOMAIN Roots = 1..Len(Roots)
  /\ \A k \in 1..Len(Roots) : Roots[k] \in Tasks /\ Roots[k] \in Nodes
  /\ \A j, k \in 1..Len(Roots) : Roots[j] = Roots[k] => j = k
  /\ \A t \in Range(Roots) : \E k \in 1..Len(Roots) : Roots[k] = t
<1>1. Roots \in Seq(Tasks) /\ IsInjective(Roots) /\ Tasks \subseteq Nodes
  BY SubtreeAssumption
<1>2. /\ Len(Roots) \in Nat
      /\ DOMAIN Roots = 1..Len(Roots)
      /\ \A k \in 1..Len(Roots) : Roots[k] \in Tasks
  BY <1>1, LenProperties, ElementOfSeq
<1>3. QED
  BY <1>1, <1>2 DEF IsInjective, Range

\* What the task of node n finds is the sequence of its pointer.
LEMMA FindsOf ==
  ASSUME NEW k \in 1..Len(Roots)
  PROVE  /\ Finds[k] = Walk[Roots[k]]
         /\ Walk[Roots[k]] \in Seq(Passes)
         /\ Len(Walk[Roots[k]]) \in Nat
         /\ DOMAIN Walk[Roots[k]] = 1..Len(Walk[Roots[k]])
<1>1. Roots[k] \in Nodes
  BY RootsType
<1>2. Walk[Roots[k]] \in Seq(Passes)
  BY <1>1, WalkType
<1>3. Finds[k] = Walk[Roots[k]]
  BY Zenon DEF Finds
<1>4. QED
  BY <1>2, <1>3, LenProperties

LEMMA PlaceType ==
  ASSUME NEW p \in Places(Finds, Len(Roots))
  PROVE  /\ p[1] \in 1..Len(Roots)
         /\ p[2] \in 1..Len(Walk[Roots[p[1]]])
         /\ p[2] \in Nat
         /\ p = <<p[1], p[2]>>
<1>1. p \in (1..Len(Roots)) \X Nat /\ p[2] \in DOMAIN Finds[p[1]]
  BY Zenon DEF Places
<1>2. p[1] \in 1..Len(Roots) /\ p[2] \in Nat /\ p = <<p[1], p[2]>>
  BY <1>1
<1>3. QED
  BY <1>1, <1>2, FindsOf

LEMMA StoredType ==
  ASSUME NEW S, NEW r \in Seq(S), NEW tid \in S, Garbage \in S,
         NEW s \in Nat, NEW n \in Nat
  PROVE  Stored(r, tid, s, n) \in Seq(S) /\ Len(Stored(r, tid, s, n)) = n
<1> DEFINE e(k) == IF k = s THEN tid ELSE IF k <= Len(r) THEN r[k] ELSE Garbage
<1>1. Len(r) \in Nat /\ \A k \in 1..Len(r) : r[k] \in S
  BY LenProperties, ElementOfSeq
<1>2. \A k \in 1..n : e(k) \in S
  BY <1>1
<1>3. Stored(r, tid, s, n) \in [1..n -> S]
  BY <1>2 DEF Stored
<1>4. QED
  BY <1>3, IsSequence

\* A push_back that nobody disturbs appends.
LEMMA StoredAppends ==
  ASSUME NEW S, NEW r \in Seq(S), NEW tid \in S, Garbage \in S
  PROVE  Stored(r, tid, Len(r) + 1, Len(r) + 1) = r \o <<tid>>
<1> DEFINE m == Len(r) + 1
           v == Stored(r, tid, m, m)
<1>1. Len(r) \in Nat /\ m \in Nat /\ <<tid>> \in Seq(S) /\ Len(<<tid>>) = 1
  BY LenProperties
<1>2. v \in Seq(S) /\ Len(v) = m
  <2>1. \A k \in 1..Len(r) : r[k] \in S
    BY ElementOfSeq
  <2>2. v \in [1..m -> S]
    BY <1>1, <2>1 DEF Stored
  <2>3. QED
    BY <1>1, <2>2, IsSequence
<1>3. /\ r \o <<tid>> \in Seq(S)
      /\ Len(r \o <<tid>>) = m
      /\ \A k \in 1..m : (r \o <<tid>>)[k] = IF k <= Len(r) THEN r[k] ELSE tid
  BY <1>1, ConcatProperties
<1>4. \A k \in 1..m : v[k] = IF k <= Len(r) THEN r[k] ELSE tid
  BY <1>1 DEF Stored
<1>5. QED
  BY <1>1, <1>2, <1>3, <1>4, SeqEqual, ZenonT(30)

-----------------------------------------------------------------------------
\* To the pool, a step of the call is one of its own steps or no step.
LEMMA PoolStep == SubtreeTypeOK /\ [SubtreeNext]_vars => [Next]_poolVars
<1> SUFFICES ASSUME SubtreeTypeOK, [SubtreeNext]_vars
             PROVE  Next \/ UNCHANGED poolVars
  OBVIOUS
<1>1. CASE SubmitRoot
  <2>1. Roots[next] \in Tasks
    BY <1>1, RootsType DEF SubmitRoot, SubtreeTypeOK
  <2>2. QED
    BY <1>1, <2>1, Callers1 DEF SubmitRoot, Next
<1>2. CASE Notify
  BY <1>2, Callers1 DEF Notify, Next
<1>3. CASE StartDrain \/ Drain
  BY <1>3 DEF StartDrain, Drain
<1>4. ASSUME NEW w \in Workers, Work(w) \/ WakeUp(w)
      PROVE  Next \/ UNCHANGED poolVars
  BY <1>4 DEF Work, WakeUp, Next, WorkerStep, ReadEnd, StoreTID
<1>5. CASE UNCHANGED vars
  BY <1>5 DEF vars
<1>6. QED
  BY <1>1, <1>2, <1>3, <1>4, <1>5 DEF SubtreeNext, Call

LEMMA PoolInv == SubtreeInv /\ [SubtreeNext]_vars => IInv' /\ ready \subseteq ready'
<1> SUFFICES ASSUME SubtreeInv, [SubtreeNext]_vars
             PROVE  IInv' /\ ready \subseteq ready'
  OBVIOUS
<1>1. [Next]_poolVars
  BY PoolStep DEF SubtreeInv
<1>2. ready \subseteq ready'
  BY <1>1 DEF Next, WorkerStep, TestShutdown, LockAndCheck, Wait, Relock,
     Dequeue, SpuriousWakeup, Finish, NotifyOne, Enqueue, Shutdown,
     SetShutdown, NotifyAll, Join, poolVars
<1>3. QED
  BY <1>1, <1>2, NextIInv DEF SubtreeInv

-----------------------------------------------------------------------------
\* What leaves the running tasks and what they push alone.
LEMMA FrameInv ==
  ASSUME SubtreeInv,
         \A w \in Workers : (pc'[w] = "run") <=> (pc[w] = "run"),
         UNCHANGED <<func, ready, found, slot, overlap, results>>
  PROVE  RunInv' /\ PushInv' /\ ResultInv'
<1>1. RunInv' /\ PushInv'
  BY DEF SubtreeInv, RunInv, PushInv, IsEndOf
<1>2. Done' = Done
  BY DEF Done
<1>3. ResultInv'
  BY <1>2 DEF SubtreeInv, ResultInv
<1>4. QED
  BY <1>1, <1>3

LEMMA SubmitRootInv ==
  ASSUME SubtreeInv, IInv', SubmitRoot
  PROVE  SubtreeInv'
<1> USE DEF SubmitRoot, Enqueue
<1>1. RunInv' /\ PushInv' /\ ResultInv'
  BY FrameInv
<1>2. next \in 1..Len(Roots) /\ Roots[next] \in Range(Roots)
  BY RootsType DEF SubtreeInv, SubtreeTypeOK, Range
<1>3. SubtreeTypeOK'
  BY <1>2, RootsType DEF SubtreeInv, SubtreeTypeOK, IInv
<1>4. MainInv'
  BY <1>2 DEF SubtreeInv, MainInv
<1>5. QED
  BY <1>1, <1>3, <1>4 DEF SubtreeInv

LEMMA StartDrainInv ==
  ASSUME SubtreeInv, IInv', StartDrain
  PROVE  SubtreeInv'
<1> USE DEF StartDrain, poolVars
<1>1. RunInv' /\ PushInv' /\ ResultInv'
  BY FrameInv
<1>2. SubtreeTypeOK'
  BY RootsType DEF SubtreeInv, SubtreeTypeOK, IInv
<1>3. MainInv'
  BY DEF SubtreeInv, MainInv
<1>4. QED
  BY <1>1, <1>2, <1>3 DEF SubtreeInv

LEMMA DrainInv ==
  ASSUME SubtreeInv, IInv', Drain
  PROVE  SubtreeInv'
<1> USE DEF Drain, poolVars
<1>1. RunInv' /\ PushInv' /\ ResultInv'
  BY FrameInv
<1>2. SubtreeTypeOK'
  BY RootsType DEF SubtreeInv, SubtreeTypeOK, IInv
<1>3. MainInv'
  <2>1. next \in Nat /\ Len(Roots) \in Nat
    BY RootsType DEF SubtreeInv, SubtreeTypeOK
  <2>2. CASE next <= Len(Roots)
    BY <2>1, <2>2 DEF SubtreeInv, MainInv
  <2>3. CASE next > Len(Roots)
    <3>1. \A k \in 1..Len(Roots) : Roots[k] \in ready
      BY <2>1, <2>3 DEF SubtreeInv, MainInv
    <3>2. QED
      BY <2>1, <2>3, <3>1, RootsType DEF SubtreeInv, MainInv
  <2>4. QED
    BY <2>1, <2>2, <2>3
<1>4. QED
  BY <1>1, <1>2, <1>3 DEF SubtreeInv
LEMMA MoveInv ==
  ASSUME SubtreeInv, IInv',
         \A w \in Workers : (pc'[w] = "run") <=> (pc[w] = "run"),
         UNCHANGED <<func, submitted, ready, callVars>>
  PROVE  SubtreeInv'
<1> USE DEF callVars
<1>1. RunInv' /\ PushInv' /\ ResultInv'
  BY FrameInv
<1>2. SubtreeTypeOK' /\ MainInv'
  BY DEF SubtreeInv, SubtreeTypeOK, MainInv, IInv
<1>3. QED
  BY <1>1, <1>2 DEF SubtreeInv

\* A running worker holds a task that is not ready and that nobody else runs.
LEMMA RunningTask ==
  ASSUME SubtreeInv, NEW w \in Workers, pc[w] = "run"
  PROVE  /\ func[w] \in Tasks
         /\ func[w] \in submitted
         /\ func[w] \notin ready
         /\ \A v \in Workers : func[v] = func[w] => v = w
         /\ \E k \in 1..Len(Roots) : Roots[k] = func[w]
<1>1. func[w] \in Tasks /\ func[w] # NoTask
  BY DEF SubtreeInv, IInv, TypeOK, FuncInv
<1>2. func[w] \in Running
  BY <1>1 DEF Running
<1>3. func[w] \in submitted /\ func[w] \notin ready
  BY <1>2 DEF SubtreeInv, IInv, Conservation
<1>4. \A v \in Workers : func[v] = func[w] => v = w
  BY <1>1 DEF SubtreeInv, IInv, Conservation
<1>5. QED
  BY <1>1, <1>3, <1>4, RootsType DEF SubtreeInv, MainInv

LEMMA DequeueInv ==
  ASSUME SubtreeInv, IInv', NEW w \in Workers, Dequeue(w),
         found' = [found EXCEPT ![w] = IF m_queue = <<>> THEN <<>>
                                       ELSE Walk[Head(m_queue)]],
         UNCHANGED <<stage, next, slot, overlap, results>>
  PROVE  SubtreeInv'
<1> USE DEF Dequeue, Goto
<1>1. /\ pc \in [Workers -> Labels] /\ found \in [Workers -> Seq(Passes)]
      /\ pc[w] # "run" /\ found[w] = <<>> /\ slot[w] = 0
  BY DEF SubtreeInv, SubtreeTypeOK, IInv, TypeOK, RunInv
<1>2. CASE m_queue = <<>>
  <2>1. found' = found
    BY <1>1, <1>2
  <2>2. \A v \in Workers : (pc'[v] = "run") <=> (pc[v] = "run")
    BY <1>1, <1>2
  <2>3. QED
    BY <1>2, <2>1, <2>2, MoveInv DEF callVars
<1>3. CASE m_queue # <<>>
  <2> DEFINE t == Head(m_queue)
  <2>1. t \in Tasks /\ t \in Nodes
    BY <1>3, HeadTailProperties, SubtreeAssumption DEF SubtreeInv, IInv, TypeOK
  <2>2. Walk[t] \in Seq(Passes) /\ Len(Walk[t]) \in Nat
    BY <2>1, WalkType, LenProperties
  <2>3. /\ func' = [func EXCEPT ![w] = t] /\ func \in [Workers -> Tasks \cup {NoTask}]
        /\ pc' = [pc EXCEPT ![w] = "run"]
        /\ found' = [found EXCEPT ![w] = Walk[t]]
        /\ UNCHANGED <<ready, submitted>>
    BY <1>3 DEF SubtreeInv, IInv, TypeOK
  <2> HIDE DEF t, Dequeue, Goto
  <2>4. SubtreeTypeOK'
    BY <1>1, <2>2, <2>3 DEF SubtreeInv, SubtreeTypeOK, IInv
  <2>5. MainInv'
    BY <2>3 DEF SubtreeInv, MainInv
  <2>6. RunInv'
    <3>1. IsEndOf(Walk[t], Walk[t])
      BY <2>2 DEF IsEndOf
    <3>2. \A v \in Workers \ {w} : /\ func'[v] = func[v] /\ pc'[v] = pc[v]
                                   /\ found'[v] = found[v] /\ slot'[v] = slot[v]
      BY <1>1, <2>3
    <3>3. /\ func'[w] = t /\ pc'[w] = "run" /\ found'[w] = Walk[t]
          /\ slot'[w] = 0
      BY <1>1, <2>3
    <3>4. ASSUME NEW v \in Workers
          PROVE  /\ pc'[v] = "run" => IsEndOf(found'[v], Walk[func'[v]])
                 /\ pc'[v] # "run" => found'[v] = <<>>
                 /\ slot'[v] # 0 => found'[v] # <<>>
      <4>1. CASE v = w
        BY <3>1, <3>3, <4>1
      <4>2. CASE v # w
        BY <3>2, <4>2 DEF SubtreeInv, RunInv
      <4>3. QED
        BY <4>1, <4>2
    <3>5. QED
      BY <3>4 DEF RunInv, IsEndOf
  <2>7. PushInv'
    BY DEF SubtreeInv, PushInv
  <2>8. Done' = Done
    <3>1. ASSUME NEW p \in Places(Finds, Len(Roots)), NEW v \in Workers
          PROVE  (/\ pc'[v] = "run"
                  /\ func'[v] = Roots[p[1]]
                  /\ p[2] + Len(found'[v]) <= Len(Walk[func'[v]]))
                 <=> (/\ pc[v] = "run"
                      /\ func[v] = Roots[p[1]]
                      /\ p[2] + Len(found[v]) <= Len(Walk[func[v]]))
      <4>1. CASE v = w
        <5>1. func'[v] = t /\ found'[v] = Walk[t]
          BY <1>1, <2>3, <4>1
        <5>2. p[2] \in Nat /\ p[2] # 0
          BY PlaceType
        <5>3. ~(p[2] + Len(found'[v]) <= Len(Walk[func'[v]]))
          BY <2>2, <5>1, <5>2
        <5>4. QED
          BY <1>1, <4>1, <5>3
      <4>2. CASE v # w
        <5>1. func'[v] = func[v] /\ pc'[v] = pc[v] /\ found'[v] = found[v]
          BY <1>1, <2>3, <4>2
        <5>2. QED
          BY <5>1
      <4>3. QED
        BY <4>1, <4>2
    <3>2. QED
      BY <2>3, <3>1 DEF Done
  <2>9. ResultInv'
    BY <2>8 DEF SubtreeInv, ResultInv
  <2>10. QED
    BY <2>4, <2>5, <2>6, <2>7, <2>9 DEF SubtreeInv
<1>4. QED
  BY <1>2, <1>3

LEMMA FinishInv ==
  ASSUME SubtreeInv, IInv', NEW w \in Workers, found[w] = <<>>, Finish(w),
         UNCHANGED callVars
  PROVE  SubtreeInv'
<1> USE DEF callVars
<1>1. /\ pc \in [Workers -> Labels] /\ found \in [Workers -> Seq(Passes)]
      /\ func \in [Workers -> Tasks \cup {NoTask}]
      /\ pc[w] = "run" /\ slot[w] = 0
      /\ ready' = ready \cup {func[w]}
      /\ func' = [func EXCEPT ![w] = NoTask]
      /\ pc' = [pc EXCEPT ![w] = "loop"]
      /\ UNCHANGED submitted
  BY DEF SubtreeInv, SubtreeTypeOK, IInv, TypeOK, RunInv, Finish, Goto
<1>2. SubtreeTypeOK' /\ MainInv'
  BY <1>1 DEF SubtreeInv, SubtreeTypeOK, MainInv, IInv
<1>3. \A v \in Workers \ {w} : func'[v] = func[v] /\ pc'[v] = pc[v]
  BY <1>1
<1>4. pc'[w] = "loop"
  BY <1>1
<1>5. RunInv'
  BY <1>1, <1>3, <1>4 DEF SubtreeInv, RunInv, IsEndOf
<1>6. PushInv'
  BY DEF SubtreeInv, PushInv
<1>7. Done' = Done
  <2>1. ASSUME NEW p \in Places(Finds, Len(Roots)), Roots[p[1]] = func[w]
        PROVE  p[2] + Len(found[w]) <= Len(Walk[func[w]])
    <3>1. p[1] \in 1..Len(Roots) /\ p[2] \in 1..Len(Walk[Roots[p[1]]])
      BY PlaceType
    <3>2. Len(Walk[Roots[p[1]]]) \in Nat
      BY <3>1, FindsOf
    <3>3. Len(found[w]) = 0
      BY EmptySeq
    <3>4. QED
      BY <2>1, <3>1, <3>2, <3>3
  <2>2. QED
    BY <1>1, <1>3, <1>4, <2>1 DEF Done
<1>8. ResultInv'
  BY <1>7 DEF SubtreeInv, ResultInv
<1>9. QED
  BY <1>2, <1>5, <1>6, <1>8 DEF SubtreeInv

LEMMA ReadEndInv ==
  ASSUME SubtreeInv, IInv', NEW w \in Workers, ReadEnd(w)
  PROVE  SubtreeInv'
<1> USE DEF ReadEnd, poolVars
<1>1. slot \in [Workers -> Nat] /\ Len(results) \in Nat
  BY LenProperties DEF SubtreeInv, SubtreeTypeOK
<1>2. SubtreeTypeOK'
  BY <1>1 DEF SubtreeInv, SubtreeTypeOK, IInv
<1>3. MainInv'
  BY DEF SubtreeInv, MainInv
<1>4. RunInv'
  BY <1>1 DEF SubtreeInv, RunInv, IsEndOf
<1>5. PushInv'
  BY <1>1 DEF SubtreeInv, PushInv
<1>6. Done' = Done
  BY DEF Done
<1>7. ResultInv'
  BY <1>6 DEF SubtreeInv, ResultInv
<1>8. QED
  BY <1>2, <1>3, <1>4, <1>5, <1>7 DEF SubtreeInv
\* The place of a walk that the last m of its n members begin with.
LEMMA EndPlace ==
  ASSUME NEW m \in Nat \ {0}, NEW n \in Nat, m <= n
  PROVE  /\ n - m + 1 \in 1..n /\ n - m + 1 \in Nat
         /\ n - m + 1 + m = n + 1
         /\ ~(n - m + 1 + m <= n)
         /\ \A k \in 1..(m - 1) : /\ k + 1 \in 1..m
                                  /\ n - m + (k + 1) = n - (m - 1) + k
         /\ \A a, b \in Nat : b + m = n + 1 =>
              (a + (m - 1) <= n <=> a + m <= n \/ a = b)
OBVIOUS

LEMMA TailIsEnd ==
  ASSUME NEW S, NEW s \in Seq(S), s # <<>>, NEW t \in Seq(S), IsEndOf(s, t)
  PROVE  /\ IsEndOf(Tail(s), t)
         /\ Len(s) \in Nat \ {0} /\ Len(t) \in Nat /\ Len(s) <= Len(t)
         /\ Head(s) = t[Len(t) - Len(s) + 1]
<1>1. /\ Len(s) \in Nat \ {0} /\ Len(t) \in Nat /\ Len(s) <= Len(t)
      /\ \A k \in 1..Len(s) : s[k] = t[Len(t) - Len(s) + k]
      /\ Head(s) = s[1]
  BY EmptySeq, LenProperties DEF IsEndOf
<1>2. /\ Len(Tail(s)) = Len(s) - 1
      /\ \A k \in 1..(Len(s) - 1) : Tail(s)[k] = s[k + 1]
  BY HeadTailProperties
<1> DEFINE m == Len(s)
           n == Len(t)
           r == Tail(s)
<1> HIDE DEF m, n, r
<1>3. m \in Nat \ {0} /\ n \in Nat /\ m <= n
  BY <1>1 DEF m, n
<1>4. \A k \in 1..(m - 1) : k + 1 \in 1..m /\ n - m + (k + 1) = n - (m - 1) + k
  BY <1>3, EndPlace
<1>5. \A k \in 1..m : s[k] = t[n - m + k]
  BY <1>1 DEF m, n
<1>6. Len(r) = m - 1 /\ \A k \in 1..(m - 1) : r[k] = s[k + 1]
  BY <1>2 DEF m, r
<1>7. \A k \in 1..(m - 1) : r[k] = t[n - (m - 1) + k]
  BY <1>4, <1>5, <1>6
<1>8. m - 1 <= n /\ 1 \in 1..m
  BY <1>3
<1>9. IsEndOf(r, t)
  <2>1. Len(r) <= n
    BY <1>6, <1>8
  <2>2. \A k \in 1..Len(r) : r[k] = t[n - Len(r) + k]
    BY <1>6, <1>7, Zenon
  <2>3. QED
    BY <2>1, <2>2 DEF IsEndOf, n
<1>10. Head(s) = t[n - m + 1]
  BY <1>1, <1>5, <1>8
<1>11. QED
  BY <1>1, <1>9, <1>10 DEF m, n, r

\* The next TID a worker pushes is the one at the first place of its walk that
\* is not done yet.
LEMMA NextPlace ==
  ASSUME SubtreeInv, NEW w \in Workers, pc[w] = "run", found[w] # <<>>
  PROVE  \E q \in Places(Finds, Len(Roots)) :
           /\ q \notin Done
           /\ Finds[q[1]][q[2]] = Head(found[w])
           /\ Roots[q[1]] = func[w]
           /\ q[2] + Len(found[w]) = Len(Walk[func[w]]) + 1
<1>1. PICK k \in 1..Len(Roots) : Roots[k] = func[w]
  BY RunningTask
<1> DEFINE W == Walk[func[w]]
           j == Len(W) - Len(found[w]) + 1
<1>2. /\ Finds[k] = W /\ Len(W) \in Nat /\ DOMAIN W = 1..Len(W)
      /\ k \in Nat
  BY <1>1, FindsOf
<1>3. /\ found[w] \in Seq(Passes) /\ Len(found[w]) \in Nat \ {0}
  BY EmptySeq DEF SubtreeInv, SubtreeTypeOK
<1>4. Len(found[w]) <= Len(W) /\ Head(found[w]) = W[j]
  <2>1. IsEndOf(found[w], W) /\ W \in Seq(Passes)
    BY <1>1, FindsOf DEF SubtreeInv, RunInv
  <2>2. QED
    BY <1>3, <2>1, TailIsEnd, Zenon
<1>5. /\ j \in 1..Len(W) /\ j \in Nat
      /\ j + Len(found[w]) = Len(W) + 1
      /\ ~(j + Len(found[w]) <= Len(W))
  BY <1>2, <1>3, <1>4, EndPlace, Zenon
<1> HIDE DEF W, j
<1>6. <<k, j>> \in Places(Finds, Len(Roots))
  BY <1>1, <1>2, <1>5 DEF Places
<1>7. <<k, j>> \notin Done
  <2>1. Roots[k] \notin ready
    BY <1>1, RunningTask
  <2>2. ASSUME NEW v \in Workers, func[v] = Roots[k]
        PROVE  ~(j + Len(found[v]) <= Len(Walk[func[v]]))
    <3>1. v = w
      BY <1>1, <2>2, RunningTask
    <3>2. QED
      BY <1>5, <3>1 DEF W
  <2>3. QED
    BY <2>1, <2>2 DEF Done
<1>8. QED
  BY <1>1, <1>2, <1>4, <1>5, <1>6, <1>7 DEF W

LEMMA StoreTIDInv ==
  ASSUME SubtreeInv, IInv', NEW w \in Workers, StoreTID(w)
  PROVE  SubtreeInv'
<1> DEFINE tid == Head(found[w])
           S == Passes \cup {Garbage}
<1>1. /\ slot \in [Workers -> Nat] /\ found \in [Workers -> Seq(Passes)]
      /\ results \in Seq(S) /\ Len(results) \in Nat
      /\ slot[w] # 0 /\ found[w] # <<>> /\ pc[w] = "run"
  BY LenProperties DEF SubtreeInv, SubtreeTypeOK, RunInv, StoreTID
<1>2. PICK n \in {slot[w], Len(results) + 1} :
        results' = Stored(results, tid, slot[w], n)
  BY DEF StoreTID
<1>3. /\ found' = [found EXCEPT ![w] = Tail(@)]
      /\ slot' = [slot EXCEPT ![w] = 0]
      /\ UNCHANGED <<poolVars, stage, next, overlap>>
  BY DEF StoreTID
<1>4. /\ tid \in Passes /\ tid \in S /\ Garbage \in S
      /\ Tail(found[w]) \in Seq(Passes)
      /\ Len(found[w]) \in Nat \ {0}
      /\ Len(Tail(found[w])) = Len(found[w]) - 1
      /\ \A k \in 1..Len(Tail(found[w])) : Tail(found[w])[k] = found[w][k + 1]
  BY <1>1, HeadTailProperties, EmptySeq
<1>5. /\ found'[w] = Tail(found[w]) /\ slot'[w] = 0
      /\ \A v \in Workers \ {w} : found'[v] = found[v] /\ slot'[v] = slot[v]
      /\ UNCHANGED <<pc, func, ready, submitted>>
  BY <1>1, <1>3 DEF poolVars
<1> HIDE DEF tid, S
<1>6. results' \in Seq(S)
  <2>1. slot[w] \in Nat /\ n \in Nat
    BY <1>1
  <2>2. QED
    BY <1>1, <1>2, <1>4, <2>1, StoredType, Zenon
<1>7. SubtreeTypeOK'
  BY <1>1, <1>3, <1>4, <1>6 DEF SubtreeInv, SubtreeTypeOK, IInv, S
<1>8. MainInv'
  BY <1>3, <1>5 DEF SubtreeInv, MainInv
<1>9. RunInv'
  <2>1. IsEndOf(found'[w], Walk[func[w]])
    <3>1. IsEndOf(found[w], Walk[func[w]])
      BY <1>1 DEF SubtreeInv, RunInv
    <3>2. Walk[func[w]] \in Seq(Passes)
      BY <1>1, RunningTask, FindsOf
    <3>3. found[w] \in Seq(Passes) /\ found[w] # <<>>
      BY <1>1
    <3>4. IsEndOf(Tail(found[w]), Walk[func[w]])
      BY <3>1, <3>2, <3>3, TailIsEnd, Zenon
    <3>5. QED
      BY <1>5, <3>4
  <2>2. ASSUME NEW v \in Workers
        PROVE  /\ pc'[v] = "run" => IsEndOf(found'[v], Walk[func'[v]])
               /\ pc'[v] # "run" => found'[v] = <<>>
               /\ slot'[v] # 0 => found'[v] # <<>>
    <3>1. CASE v = w
      BY <1>1, <1>5, <2>1, <3>1
    <3>2. CASE v # w
      BY <1>5, <3>2 DEF SubtreeInv, RunInv
    <3>3. QED
      BY <3>1, <3>2
  <2>3. QED
    BY <2>2 DEF RunInv, IsEndOf
<1>10. PushInv'
  <2> SUFFICES ASSUME ~overlap, NEW v \in Workers, slot'[v] # 0
               PROVE  FALSE
    BY <1>3 DEF PushInv
  <2>1. v # w /\ slot[v] # 0
    BY <1>5
  <2>2. QED
    BY <1>1, <2>1 DEF SubtreeInv, PushInv
<1>11. ResultInv'
  <2> SUFFICES ASSUME ~overlap
               PROVE  \E b : Arranges(b, results', Finds, Done')
    BY <1>3 DEF ResultInv
  <2>1. results' = results \o <<tid>>
    <3>1. slot[w] = Len(results) + 1 /\ n = Len(results) + 1
      BY <1>1 DEF SubtreeInv, PushInv
    <3>2. QED
      BY <1>1, <1>2, <1>4, <3>1, StoredAppends, Zenon
  <2>2. PICK q \in Places(Finds, Len(Roots)) :
           /\ q \notin Done
           /\ Finds[q[1]][q[2]] = tid
           /\ Roots[q[1]] = func[w]
           /\ q[2] + Len(found[w]) = Len(Walk[func[w]]) + 1
    BY <1>1, NextPlace DEF tid
  <2>3. PICK b : Arranges(b, results, Finds, Done)
    BY DEF SubtreeInv, ResultInv
  <2>4. PICK c : Arranges(c, <<tid>>, Finds, {q})
    BY <1>4, <2>2, ArrangeSingle, Zenon
  <2>5. <<tid>> \in Seq(S)
    BY <1>4
  <2>6. \E e : Arranges(e, results \o <<tid>>, Finds, Done \cup {q})
    <3>1. Done \cap {q} = {}
      BY <2>2
    <3>2. QED
      BY <1>1, <2>3, <2>4, <2>5, <3>1, ArrangeBoth, Zenon
  <2>7. Done' = Done \cup {q}
    <3>1. /\ Len(found'[w]) = Len(found[w]) - 1
          /\ Len(Walk[func[w]]) \in Nat
          /\ Len(found[w]) <= Len(Walk[func[w]])
      BY <1>1, <1>4, <1>5, RunningTask, FindsOf DEF SubtreeInv, RunInv, IsEndOf
    <3>2. ASSUME NEW p \in Places(Finds, Len(Roots)), Roots[p[1]] = func[w]
          PROVE  p[2] + Len(found'[w]) <= Len(Walk[func[w]])
                 <=> p[2] + Len(found[w]) <= Len(Walk[func[w]]) \/ p = q
      <4>1. p[1] = q[1]
        BY <2>2, <3>2, PlaceType, RootsType
      <4>2. p[2] \in Nat /\ q[2] \in Nat
        BY PlaceType
      <4>3. p = q <=> p[2] = q[2]
        <5>1. p = <<p[1], p[2]>> /\ q = <<q[1], q[2]>>
          BY PlaceType
        <5>2. QED
          BY <4>1, <5>1, Zenon
      <4>4. p[2] + (Len(found[w]) - 1) <= Len(Walk[func[w]])
              <=> p[2] + Len(found[w]) <= Len(Walk[func[w]]) \/ p[2] = q[2]
        <5>1. /\ Len(found[w]) \in Nat \ {0} /\ Len(Walk[func[w]]) \in Nat
              /\ Len(found[w]) <= Len(Walk[func[w]])
              /\ q[2] + Len(found[w]) = Len(Walk[func[w]]) + 1
          BY <1>4, <2>2, <3>1
        <5>2. \A x, y \in Nat :
                y + Len(found[w]) = Len(Walk[func[w]]) + 1 =>
                  (x + (Len(found[w]) - 1) <= Len(Walk[func[w]])
                    <=> x + Len(found[w]) <= Len(Walk[func[w]]) \/ x = y)
          BY <5>1, EndPlace, Zenon
        <5>3. QED
          BY <4>2, <5>1, <5>2, Zenon
      <4>5. QED
        BY <3>1, <4>3, <4>4
    <3>3. ASSUME NEW p \in Places(Finds, Len(Roots))
          PROVE  p \in Done' <=> p \in Done \/ p = q
      <4>1. p \in Done' <=> \/ Roots[p[1]] \in ready
                            \/ \E v \in Workers :
                                 /\ pc[v] = "run"
                                 /\ func[v] = Roots[p[1]]
                                 /\ p[2] + Len(found'[v]) <= Len(Walk[func[v]])
        BY <1>5 DEF Done
      <4>2. p \in Done <=> \/ Roots[p[1]] \in ready
                           \/ \E v \in Workers :
                                /\ pc[v] = "run"
                                /\ func[v] = Roots[p[1]]
                                /\ p[2] + Len(found[v]) <= Len(Walk[func[v]])
        BY DEF Done
      <4>3. CASE Roots[p[1]] = func[w]
        <5>1. \A v \in Workers : func[v] = Roots[p[1]] => v = w
          BY <1>1, <4>3, RunningTask
        <5>2. QED
          BY <1>1, <3>2, <4>1, <4>2, <4>3, <5>1
      <4>4. CASE Roots[p[1]] # func[w]
        <5>1. p # q
          BY <2>2, <4>4
        <5>2. \A v \in Workers : func[v] = Roots[p[1]] => found'[v] = found[v]
          BY <1>5, <4>4
        <5>3. QED
          BY <4>1, <4>2, <5>1, <5>2
      <4>5. QED
        BY <4>3, <4>4
    <3>4. /\ Done \subseteq Places(Finds, Len(Roots))
          /\ Done' \subseteq Places(Finds, Len(Roots))
      BY DEF Done
    <3>5. QED
      BY <2>2, <3>3, <3>4
  <2>8. QED
    BY <2>1, <2>6, <2>7
<1>12. QED
  BY <1>7, <1>8, <1>9, <1>10, <1>11 DEF SubtreeInv

LEMMA WorkInv ==
  ASSUME SubtreeInv, IInv', NEW w \in Workers, Work(w) \/ WakeUp(w)
  PROVE  SubtreeInv'
<1>1. CASE /\ \/ TestShutdown(w) \/ LockAndCheck(w) \/ Wait(w) \/ Relock(w)
              \/ SpuriousWakeup(w)
           /\ UNCHANGED callVars
  <2>1. /\ UNCHANGED <<func, submitted, ready>>
        /\ \A v \in Workers : (pc'[v] = "run") <=> (pc[v] = "run")
    BY <1>1 DEF TestShutdown, LockAndCheck, Wait, Relock, SpuriousWakeup, Goto,
       SubtreeInv, IInv, TypeOK
  <2>2. QED
    BY <1>1, <2>1, MoveInv
<1>2. QED
  BY <1>1, DequeueInv, ReadEndInv, StoreTIDInv, FinishInv DEF Work, WakeUp

LEMMA SubtreeStep == SubtreeInv /\ [SubtreeNext]_vars => SubtreeInv'
<1> SUFFICES ASSUME SubtreeInv, [SubtreeNext]_vars
             PROVE  SubtreeInv'
  OBVIOUS
<1>1. IInv'
  BY PoolInv
<1>2. CASE SubmitRoot
  BY <1>1, <1>2, SubmitRootInv
<1>3. CASE Notify
  <2>1. /\ UNCHANGED <<func, submitted, ready, callVars>>
        /\ \A v \in Workers : (pc'[v] = "run") <=> (pc[v] = "run")
    BY <1>3 DEF Notify, NotifyOne, Blocked, Goto, SubtreeInv, IInv, TypeOK
  <2>2. QED
    BY <1>1, <2>1, MoveInv
<1>4. CASE StartDrain
  BY <1>1, <1>4, StartDrainInv
<1>5. CASE Drain
  BY <1>1, <1>5, DrainInv
<1>6. ASSUME NEW w \in Workers, Work(w) \/ WakeUp(w)
      PROVE  SubtreeInv'
  BY <1>1, <1>6, WorkInv
<1>7. CASE UNCHANGED vars
  BY <1>1, <1>7, MoveInv DEF vars, poolVars
<1>8. QED
  BY <1>2, <1>3, <1>4, <1>5, <1>6, <1>7 DEF SubtreeNext, Call

LEMMA SubtreeStart == SubtreeInit => SubtreeInv
<1> SUFFICES ASSUME SubtreeInit PROVE SubtreeInv
  OBVIOUS
<1> USE DEF SubtreeInit, Init
<1>1. IInv
  BY InitIInv
<1>2. SubtreeTypeOK
  <2>1. <<>> \in Seq(Passes) /\ <<>> \in Seq(Passes \cup {Garbage})
    BY EmptySeq
  <2>2. 1 \in 1..(Len(Roots) + 1)
    BY RootsType
  <2>3. QED
    BY <1>1, <2>1, <2>2 DEF SubtreeTypeOK, IInv
<1>3. MainInv /\ RunInv /\ PushInv
  BY DEF MainInv, RunInv, PushInv
<1>4. ResultInv
  <2>1. Done = {}
    BY DEF Done
  <2> DEFINE b == [p \in {} |-> p]
  <2>2. b \in Bijection({}, DOMAIN <<>>)
    BY DEF Bijection, Injection, Surjection, IsInjective
  <2>3. Arranges(b, results, Finds, Done)
    BY <2>1, <2>2 DEF Arranges
  <2>4. QED
    BY <2>3 DEF ResultInv
<1>5. QED
  BY <1>1, <1>2, <1>3, <1>4 DEF SubtreeInv

LEMMA SubtreeInductive == SubtreeSpec => []SubtreeInv
BY SubtreeStart, SubtreeStep, PTL DEF SubtreeSpec

-----------------------------------------------------------------------------
\* The call uses the pool as the pool expects to be used, so that everything
\* proved of Spec is true of the pool of a call.
THEOREM CallUsesPool == SubtreeSpec => Spec
<1>1. SubtreeInit => Init
  BY DEF SubtreeInit
<1>2. SubtreeInv /\ [SubtreeNext]_vars => [Next]_poolVars
  BY PoolStep DEF SubtreeInv
<1>3. QED
  BY <1>1, <1>2, SubtreeInductive, PTL DEF SubtreeSpec, Spec

\* Type correctness of the call.
THEOREM SubtreeTypeCorrect == SubtreeSpec => []SubtreeTypeOK
<1>1. SubtreeInv => SubtreeTypeOK
  BY DEF SubtreeInv
<1>2. QED
  BY <1>1, SubtreeInductive, PTL

\* partialMatch has waited for every task: no worker writes to the vector that
\* its caller owns from now on.
THEOREM AnswerIsFinal == SubtreeSpec => ResultIsFinal
<1>1. SubtreeInv /\ [SubtreeNext]_vars
        => [stage = "returned" => UNCHANGED <<results, slot>>]_vars
  <2> SUFFICES ASSUME SubtreeInv, SubtreeNext, stage = "returned"
               PROVE  UNCHANGED <<results, slot>>
    OBVIOUS
  <2>1. ASSUME NEW w \in Workers
        PROVE  pc[w] # "run" /\ slot[w] = 0
    <3>1. submitted \subseteq ready
      BY DEF SubtreeInv, MainInv
    <3>2. pc[w] # "run"
      BY <3>1, RunningTask
    <3>3. QED
      BY <3>2 DEF SubtreeInv, RunInv
  <2>2. ASSUME NEW w \in Workers, Work(w) \/ WakeUp(w)
        PROVE  UNCHANGED <<results, slot>>
    BY <2>1, <2>2 DEF Work, WakeUp, ReadEnd, StoreTID, callVars
  <2>3. QED
    BY <2>2 DEF SubtreeNext, Call, SubmitRoot, Notify, StartDrain, Drain, callVars
<1>2. QED
  BY <1>1, SubtreeInductive, PTL DEF SubtreeSpec, ResultIsFinal

\* However the workers interleave, the parallel call returns each TID that the
\* sequential walk returns, as often, unless two push_backs overlapped.
THEOREM LossNeedsOverlap == SubtreeSpec => []OnlyOverlapLoses
<1>1. SubtreeInv => OnlyOverlapLoses
  <2> SUFFICES ASSUME SubtreeInv, stage = "returned", ~overlap,
                      NEW t \in Passes \cup {Garbage}
               PROVE  Copies(results, t) = Copies(Sequential, t)
    BY DEF OnlyOverlapLoses
  <2>1. Done = Places(Finds, Len(Roots))
    <3>1. ASSUME NEW p \in Places(Finds, Len(Roots))
          PROVE  Roots[p[1]] \in ready
      <4>1. p[1] \in 1..Len(Roots)
        BY PlaceType
      <4>2. QED
        BY <4>1, RootsType DEF SubtreeInv, MainInv, Range
    <3>2. QED
      BY <3>1 DEF Done
  <2>2. PICK b : Arranges(b, results, Finds, Places(Finds, Len(Roots)))
    BY <2>1 DEF SubtreeInv, ResultInv
  <2>3. PICK c : Arranges(c, Sequential, Finds, Places(Finds, Len(Roots)))
    BY SequentialArranges
  <2>4. results \in Seq(Passes \cup {Garbage})
    BY DEF SubtreeInv, SubtreeTypeOK
  <2>5. Sequential \in Seq(Passes \cup {Garbage})
    BY SequentialArranges, SeqMonotonic
  <2>6. QED
    BY <2>2, <2>3, <2>4, <2>5, SameCopies
<1>2. QED
  BY <1>1, SubtreeInductive, PTL
=============================================================================
