---------------------------- MODULE CopyCmdProofs ----------------------------
(***************************************************************************)
(* Proofs about CopyCmd: the file systems remain trees, and a command      *)
(* writes only at and below its destination.                               *)
(*                                                                         *)
(* The order of the entries of a directory, and the one list of all        *)
(* sources, are chosen and recursive values: that they exist is shown with *)
(* a smallest counterexample (LeastNumber).  Kept says what a step may do  *)
(* to a tree, one lemma for each operation on trees that it does just      *)
(* that, and CopyInv that every item of the work to do has its target at   *)
(* or below dst.                                                           *)
(***************************************************************************)
EXTENDS CopyCmd, FiniteSetTheorems, SequenceTheorems, WellFoundedInduction,
        TLAPS

Path == Seq(Nat)

-----------------------------------------------------------------------------
(* Sorting: there is an order of the entries of a directory                *)

\* A set of numbers has a least one.
LEMMA LeastNumber ==
  ASSUME NEW T, T \subseteq Nat, T # {}
  PROVE  \E n \in T : \A m \in T : n <= m
  <1>1. PICK n \in T : \A m \in T : ~(<<m, n>> \in OpToRel(<, Nat))
    BY NatLessThanWellFounded, WFMin, Zenon
  <1>2. ASSUME NEW m \in T, m < n
        PROVE  FALSE
    <2>1. m \in Nat /\ n \in Nat
      OBVIOUS
    <2>2. <<m, n>> \in OpToRel(<, Nat)
      BY <1>2, <2>1 DEF OpToRel
    <2> QED BY <1>1, <2>2
  <1> QED BY <1>2

\* The order of the entries is strict.
LEMMA BeforeIrreflexive ==
  ASSUME NEW p \in Path
  PROVE  ~Before(p, p)
  <1>1. Len(p) \in Nat /\ \A i \in 1 .. Len(p) : p[i] \in Nat
    BY LenProperties, ElementOfSeq DEF Path
  <1> QED BY <1>1 DEF Before

\* And transitive: compare at the smaller of the two positions.
LEMMA BeforeTransitive ==
  ASSUME NEW p \in Path, NEW q \in Path, NEW r \in Path,
         Before(p, q), Before(q, r)
  PROVE  Before(p, r)
  <1>1. /\ Len(p) \in Nat /\ \A i \in 1 .. Len(p) : p[i] \in Nat
        /\ Len(q) \in Nat /\ \A i \in 1 .. Len(q) : q[i] \in Nat
        /\ Len(r) \in Nat /\ \A i \in 1 .. Len(r) : r[i] \in Nat
    BY LenProperties, ElementOfSeq DEF Path
  <1>2. PICK i \in 1 .. Len(q) :
          /\ \A j \in 1 .. i - 1 : j <= Len(p) /\ p[j] = q[j]
          /\ i > Len(p) \/ p[i] < q[i]
    BY DEF Before
  <1>3. PICK k \in 1 .. Len(r) :
          /\ \A j \in 1 .. k - 1 : j <= Len(q) /\ q[j] = r[j]
          /\ k > Len(q) \/ q[k] < r[k]
    BY DEF Before
  <1>4. CASE i <= k
    <2>1. i \in 1 .. Len(r)
      BY <1>1, <1>3, <1>4
    <2>2. \A j \in 1 .. i - 1 : j <= Len(p) /\ p[j] = r[j]
      BY <1>1, <1>2, <1>3, <1>4
    <2>3. i > Len(p) \/ p[i] < r[i]
      BY <1>1, <1>2, <1>3, <1>4, <2>1
    <2> QED BY <2>1, <2>2, <2>3 DEF Before
  <1>5. CASE k < i
    <2>1. \A j \in 1 .. k - 1 : j <= Len(p) /\ p[j] = r[j]
      BY <1>1, <1>2, <1>3, <1>5
    <2>2. k > Len(p) \/ p[k] < r[k]
      BY <1>1, <1>2, <1>3, <1>5
    <2> QED BY <1>3, <2>1, <2>2 DEF Before
  <1> QED BY <1>1, <1>4, <1>5

\* Of finitely many paths one is the first: the one with the fewest before it.
LEMMA FirstPath ==
  ASSUME NEW S \in SUBSET Path, IsFiniteSet(S), S # {}
  PROVE  \E p \in S : \A q \in S : ~Before(q, p)
  <1> DEFINE Below(p) == {q \in S : Before(q, p)}
             Ranks == {Cardinality(Below(p)) : p \in S}
  <1>1. \A p \in S : IsFiniteSet(Below(p)) /\ Cardinality(Below(p)) \in Nat
    BY FS_Subset, FS_CardinalityType
  <1> HIDE DEF Below
  <1>2. PICK n \in Ranks : \A m \in Ranks : n <= m
    <2>1. Ranks \subseteq Nat /\ Ranks # {}
      BY <1>1
    <2> QED BY <2>1, LeastNumber
  <1>3. PICK p \in S : n = Cardinality(Below(p))
    BY <1>2
  <1>4. SUFFICES ASSUME NEW q \in S, Before(q, p)
                 PROVE  FALSE
    BY <1>3
  <1>5. Below(q) \subseteq Below(p)
    <2>1. SUFFICES ASSUME NEW r \in Below(q)
                   PROVE  r \in Below(p)
      OBVIOUS
    <2>2. r \in S /\ Before(r, q)
      BY DEF Below
    <2>3. Before(r, p)
      BY <1>3, <1>4, <2>2, BeforeTransitive
    <2> QED BY <2>2, <2>3 DEF Below
  <1>6. q \in Below(p) /\ q \notin Below(q)
    BY <1>4, BeforeIrreflexive DEF Below
  <1>7. Cardinality(Below(q)) < Cardinality(Below(p))
    <2>1. Below(q) # Below(p)
      BY <1>6
    <2> QED BY <1>1, <1>3, <1>4, <1>5, <2>1, FS_Subset
  <1>8. n <= Cardinality(Below(q))
    BY <1>2, <1>4
  <1> QED BY <1>1, <1>3, <1>4, <1>7, <1>8

InOrder(ps, S) ==
  /\ ps \in [1 .. Cardinality(S) -> S]
  /\ \A i, j \in DOMAIN ps : i < j => ps[i] # ps[j] /\ ~Before(ps[j], ps[i])

\* What is left when the first path is taken away, sorted, goes behind it.
LEMMA SortMore ==
  ASSUME NEW S \in SUBSET Path, IsFiniteSet(S), NEW p \in S,
         \A q \in S : ~Before(q, p), NEW ps, InOrder(ps, S \ {p})
  PROVE  \E qs : InOrder(qs, S)
  <1>1. PICK n : n = Cardinality(S)
    OBVIOUS
  <1>2. n \in Nat \ {0} /\ Cardinality(S \ {p}) = n - 1
    <2>1. n \in Nat /\ Cardinality(S \ {p}) = n - 1
      BY <1>1, FS_RemoveElement, FS_CardinalityType
    <2>2. n # 0
      BY <1>1, FS_EmptySet
    <2> QED BY <2>1, <2>2
  <1>3. /\ ps \in [1 .. n - 1 -> S \ {p}]
        /\ \A i, j \in 1 .. n - 1 : i < j => ps[i] # ps[j] /\ ~Before(ps[j], ps[i])
    BY <1>2 DEF InOrder
  <1>4. PICK qs : qs = [i \in 1 .. n |-> IF i = 1 THEN p ELSE ps[i - 1]]
    OBVIOUS
  <1>5. /\ qs \in [1 .. n -> S] /\ qs[1] = p
        /\ \A i \in 2 .. n : i - 1 \in 1 .. n - 1 /\ qs[i] = ps[i - 1]
    BY <1>2, <1>3, <1>4
  <1>6. ASSUME NEW i \in 1 .. n, NEW j \in 1 .. n, i < j
        PROVE  qs[i] # qs[j] /\ ~Before(qs[j], qs[i])
    <2>1. j \in 2 .. n /\ qs[j] = ps[j - 1] /\ ps[j - 1] \in S \ {p}
      BY <1>2, <1>3, <1>5, <1>6
    <2>2. CASE i = 1
      BY <1>5, <2>1, <2>2
    <2>3. CASE i # 1
      <3>1. /\ i - 1 \in 1 .. n - 1 /\ j - 1 \in 1 .. n - 1 /\ i - 1 < j - 1
            /\ qs[i] = ps[i - 1]
        BY <1>2, <1>5, <1>6, <2>1, <2>3
      <3> QED BY <1>3, <2>1, <3>1
    <2> QED BY <2>2, <2>3
  <1> QED BY <1>1, <1>5, <1>6 DEF InOrder

\* Every finite set of paths can be sorted: take the smallest that cannot.
LEMMA SortedExists ==
  ASSUME NEW S \in SUBSET Path, IsFiniteSet(S)
  PROVE  \E ps : InOrder(ps, S)
  <1> DEFINE Bad(n) == \E U \in SUBSET Path :
                         /\ IsFiniteSet(U) /\ Cardinality(U) = n
                         /\ ~\E ps : InOrder(ps, U)
             T == {n \in Nat : Bad(n)}
  <1>1. SUFFICES ASSUME T # {}
                 PROVE  FALSE
    <2>1. SUFFICES ASSUME ~\E ps : InOrder(ps, S)
                   PROVE  T # {}
      BY <1>1
    <2>2. Cardinality(S) \in Nat
      BY FS_CardinalityType
    <2> QED BY <2>1, <2>2
  <1>2. PICK n \in T : \A m \in T : n <= m
    <2>1. T \subseteq Nat
      OBVIOUS
    <2> HIDE DEF T
    <2> QED BY <1>1, <2>1, LeastNumber
  <1>3. PICK U \in SUBSET Path : /\ IsFiniteSet(U) /\ Cardinality(U) = n
                                 /\ ~\E ps : InOrder(ps, U)
    BY <1>2
  <1>4. CASE U = {}
    <2>1. n = 0
      BY <1>3, <1>4, FS_EmptySet
    <2>2. <<>> \in [1 .. 0 -> U] /\ DOMAIN <<>> = {}
      OBVIOUS
    <2>3. InOrder(<<>>, U)
      BY <1>3, <2>1, <2>2 DEF InOrder
    <2> QED BY <1>3, <2>3
  <1>5. CASE U # {}
    <2>1. PICK p \in U : \A q \in U : ~Before(q, p)
      BY <1>3, <1>5, FirstPath
    <2>2. /\ IsFiniteSet(U \ {p}) /\ Cardinality(U \ {p}) = n - 1
          /\ U \ {p} \in SUBSET Path
      BY <1>3, <2>1, FS_RemoveElement
    <2>3. Cardinality(U \ {p}) \in Nat
      BY <2>2, FS_CardinalityType
    <2>4. n - 1 \in Nat /\ n \in Nat
      BY <1>2, <2>2, <2>3
    <2>5. n - 1 \notin T
      BY <1>2, <2>4
    <2>6. PICK ps : InOrder(ps, U \ {p})
      BY <2>2, <2>4, <2>5
    <2> QED BY <1>3, <2>1, <2>6, SortMore
  <1> QED BY <1>4, <1>5

\* A function on 1 .. n is a sequence.
LEMMA FunctionIsSeq ==
  ASSUME NEW S, NEW n \in Nat, NEW f \in [1 .. n -> S]
  PROVE  f \in Seq(S)
  BY SeqDef, Zenon

\* Sorted lists members of the set, and nothing else.
LEMMA SortedFacts ==
  ASSUME NEW S \in SUBSET Path, IsFiniteSet(S)
  PROVE  /\ Sorted(S) \in Seq(S)
         /\ \A i \in DOMAIN Sorted(S) : Sorted(S)[i] \in S
  <1>1. PICK ps : InOrder(ps, S)
    BY SortedExists
  <1>2. Sorted(S) \in [1 .. Cardinality(S) -> S]
    BY <1>1 DEF InOrder, Sorted
  <1>3. Cardinality(S) \in Nat
    BY FS_CardinalityType
  <1>4. Sorted(S) \in Seq(S)
    BY <1>2, <1>3, FunctionIsSeq
  <1> QED BY <1>2, <1>4

-----------------------------------------------------------------------------
(* Flattening: what the list of all sources holds                          *)

\* f joins the first n members of ss, step by step.
Joins(f, ss, n) ==
  /\ DOMAIN f = 1 .. n
  /\ \A i \in 1 .. n : f[i] = IF i = 1 THEN ss[i] ELSE f[i - 1] \o ss[i]

\* There is such an f for every n: extend the one for n - 1.
LEMMA JoinsExists ==
  ASSUME NEW ss, NEW n \in Nat
  PROVE  \E f : Joins(f, ss, n)
  <1> DEFINE T == {m \in Nat : ~\E f : Joins(f, ss, m)}
  <1>1. SUFFICES ASSUME T # {}
                 PROVE  FALSE
    BY <1>1
  <1>2. PICK m \in T : \A k \in T : m <= k
    <2>1. T \subseteq Nat
      OBVIOUS
    <2> HIDE DEF T
    <2> QED BY <1>1, <2>1, LeastNumber
  <1>3. m \in Nat /\ ~\E f : Joins(f, ss, m)
    BY <1>2
  <1>4. CASE m = 0
    <2>1. DOMAIN <<>> = 1 .. 0
      OBVIOUS
    <2>2. Joins(<<>>, ss, 0)
      BY <2>1 DEF Joins
    <2> QED BY <1>3, <1>4, <2>2
  <1>5. CASE m # 0
    <2>1. m - 1 \in Nat /\ m - 1 \notin T
      BY <1>2, <1>3, <1>5
    <2>2. PICK f : Joins(f, ss, m - 1)
      BY <2>1
    <2>3. PICK g : g = [i \in 1 .. m |-> IF i = 1 THEN ss[1]
                          ELSE IF i < m THEN f[i] ELSE f[m - 1] \o ss[m]]
      OBVIOUS
    <2>4. DOMAIN g = 1 .. m
      BY <2>3
    <2>5. ASSUME NEW i \in 1 .. m
          PROVE  g[i] = IF i = 1 THEN ss[i] ELSE g[i - 1] \o ss[i]
      <3>1. CASE i = 1
        BY <2>3, <3>1
      <3>2. CASE i # 1
        <4>1. i - 1 \in 1 .. m - 1 /\ i - 1 \in 1 .. m /\ i - 1 < m
          BY <1>3, <3>2
        <4>2. g[i - 1] = f[i - 1]
          <5>1. CASE i - 1 = 1
            <6>1. f[1] = ss[1]
              BY <2>2, <4>1, <5>1 DEF Joins
            <6> QED BY <2>3, <4>1, <5>1, <6>1
          <5>2. CASE i - 1 # 1
            BY <2>3, <4>1, <5>2
          <5> QED BY <5>1, <5>2
        <4>3. g[i] = f[i - 1] \o ss[i]
          <5>1. CASE i = m
            <6>1. g[m] = IF m = 1 THEN ss[1] ELSE
                           IF m < m THEN f[m] ELSE f[m - 1] \o ss[m]
              BY <2>3, <5>1
            <6>2. m # 1 /\ ~(m < m)
              BY <1>3, <3>2, <5>1
            <6> QED BY <5>1, <6>1, <6>2
          <5>2. CASE i # m
            <6>1. i \in 1 .. m - 1 /\ i < m
              BY <1>3, <5>2
            <6>2. f[i] = f[i - 1] \o ss[i]
              BY <2>2, <3>2, <6>1 DEF Joins
            <6> QED BY <2>3, <3>2, <6>1, <6>2
          <5> QED BY <5>1, <5>2
        <4> QED BY <3>2, <4>2, <4>3
      <3> QED BY <3>1, <3>2
    <2>6. Joins(g, ss, m)
      BY <2>4, <2>5 DEF Joins
    <2> QED BY <1>3, <2>6
  <1> QED BY <1>4, <1>5

\* FlattenSeq is the last of these.
LEMMA FlattenJoins ==
  ASSUME NEW ss, NEW n \in Nat, n = Len(ss), n # 0
  PROVE  \E f : Joins(f, ss, n) /\ FlattenSeq(ss) = f[n]
  <1> DEFINE Step(f) == [i \in 1 .. n |-> IF i = 1 THEN ss[i]
                                          ELSE f[i - 1] \o ss[i]]
             flat == CHOOSE f : f = Step(f)
  <1>1. FlattenSeq(ss) = flat[n]
    BY DEF FlattenSeq
  <1>2. PICK f : Joins(f, ss, n)
    BY JoinsExists
  <1>3. PICK g : g = [i \in 1 .. n |-> f[i]]
    OBVIOUS
  <1>4. g = Step(g)
    <2>1. \A i \in 1 .. n : i # 1 => i - 1 \in 1 .. n
      OBVIOUS
    <2>2. \A i \in 1 .. n : g[i] = IF i = 1 THEN ss[i] ELSE g[i - 1] \o ss[i]
      BY <1>2, <1>3, <2>1 DEF Joins
    <2> QED BY <1>3, <2>2
  <1>5. flat = Step(flat)
    BY <1>4
  <1> HIDE DEF flat
  <1>6. DOMAIN flat = 1 .. n
    BY <1>5
  <1>7. \A i \in 1 .. n : flat[i] = IF i = 1 THEN ss[i] ELSE flat[i - 1] \o ss[i]
    BY <1>5
  <1> QED BY <1>1, <1>6, <1>7 DEF Joins

\* The elements of what is joined are those of its members.
LEMMA JoinsType ==
  ASSUME NEW S, NEW ss, NEW n \in Nat, NEW f, Joins(f, ss, n),
         \A i \in 1 .. n : ss[i] \in Seq(S)
  PROVE  \A i \in 1 .. n : f[i] \in Seq(S)
  <1> DEFINE T == {i \in 1 .. n : f[i] \notin Seq(S)}
  <1>1. SUFFICES ASSUME T # {}
                 PROVE  FALSE
    BY <1>1
  <1>2. PICK i \in T : \A j \in T : i <= j
    <2>1. T \subseteq Nat
      OBVIOUS
    <2> HIDE DEF T
    <2> QED BY <1>1, <2>1, LeastNumber
  <1>3. CASE i = 1
    BY <1>2, <1>3 DEF Joins
  <1>4. CASE i # 1
    <2>1. i \in 1 .. n /\ i - 1 \in 1 .. n
      BY <1>2, <1>4
    <2>2. f[i - 1] \in Seq(S)
      BY <1>2, <2>1
    <2>3. f[i] = f[i - 1] \o ss[i] /\ ss[i] \in Seq(S)
      BY <1>4, <2>1 DEF Joins
    <2>4. f[i] \in Seq(S)
      BY <2>2, <2>3, ConcatProperties, Zenon
    <2> QED BY <1>2, <2>4
  <1> QED BY <1>3, <1>4

\* A flattened sequence has the elements of its members.
LEMMA FlattenType ==
  ASSUME NEW S, NEW ss \in Seq(Seq(S))
  PROVE  FlattenSeq(ss) \in Seq(S)
  <1>1. PICK n : n = Len(ss)
    OBVIOUS
  <1>2. n \in Nat /\ \A i \in 1 .. n : ss[i] \in Seq(S)
    BY <1>1, LenProperties, ElementOfSeq
  <1>3. CASE n = 0
    <2>1. ss = <<>>
      BY <1>1, <1>3, EmptySeq
    <2>2. FlattenSeq(ss) = ss
      BY <1>1, <1>3 DEF FlattenSeq
    <2> QED BY <2>1, <2>2, EmptySeq
  <1>4. CASE n # 0
    <2>1. PICK f : Joins(f, ss, n) /\ FlattenSeq(ss) = f[n]
      BY <1>1, <1>2, <1>4, FlattenJoins
    <2>2. \A i \in 1 .. n : f[i] \in Seq(S)
      BY <1>2, <2>1, JoinsType
    <2> QED BY <1>2, <1>4, <2>1, <2>2
  <1> QED BY <1>3, <1>4

-----------------------------------------------------------------------------
(* Prefixes                                                                *)

\* The length and the names of a path.
LEMMA PathFacts ==
  ASSUME NEW p \in Path
  PROVE  /\ Len(p) \in Nat /\ \A i \in 1 .. Len(p) : p[i] \in Nat
         /\ p # <<>> => Len(p) > 0
  BY LenProperties, ElementOfSeq, EmptySeq DEF Path

\* Paths are equal if their names are.
LEMMA PathEqual ==
  ASSUME NEW p \in Path, NEW q \in Path, Len(p) = Len(q),
         \A i \in 1 .. Len(p) : p[i] = q[i]
  PROVE  p = q
  BY SeqEqual DEF Path

\* c is the first l names of p.
IsCut(c, p, l) ==
  c \in Path /\ Len(c) = l /\ \A i \in 1 .. l : c[i] = p[i]

\* SubSeq(p, 1, l) is such a cut.
LEMMA CutFacts ==
  ASSUME NEW p \in Path, NEW l \in 0 .. Len(p)
  PROVE  IsCut(SubSeq(p, 1, l), p, l)
  <1>1. PICK c : c = SubSeq(p, 1, l)
    OBVIOUS
  <1>2. Len(p) \in Nat
    BY PathFacts
  <1>3. /\ c \in Path /\ Len(c) = l
        /\ \A i \in 1 .. l : c[i] = p[i]
    <2>1. /\ c \in Seq(Nat)
          /\ Len(c) = IF 1 <= l THEN l - 1 + 1 ELSE 0
          /\ \A i \in 1 .. l - 1 + 1 : c[i] = p[1 + i - 1]
      BY <1>1, <1>2, SubSeqProperties DEF Path
    <2> QED BY <1>2, <2>1 DEF Path
  <1> QED BY <1>1, <1>3 DEF IsCut

\* What IsPrefix says, name by name.
Extends(p, q) == Len(p) <= Len(q) /\ \A i \in 1 .. Len(p) : p[i] = q[i]

\* That is what it says.
LEMMA PrefixMeans ==
  ASSUME NEW p \in Path, NEW q \in Path
  PROVE  IsPrefix(p, q) <=> Extends(p, q)
  <1>1. Len(p) \in Nat /\ Len(q) \in Nat
    BY PathFacts
  <1>2. IsCut(SubSeq(p, 1, Len(p)), p, Len(p))
    BY <1>1, CutFacts
  <1>3. CASE Len(p) <= Len(q)
    <2>1. IsCut(SubSeq(q, 1, Len(p)), q, Len(p))
      BY <1>1, <1>3, CutFacts
    <2>2. PICK c, e : c = SubSeq(p, 1, Len(p)) /\ e = SubSeq(q, 1, Len(p))
      OBVIOUS
    <2>3. c = e <=> \A i \in 1 .. Len(p) : p[i] = q[i]
      <3>1. /\ c \in Path /\ e \in Path /\ Len(c) = Len(p) /\ Len(e) = Len(p)
            /\ \A i \in 1 .. Len(p) : c[i] = p[i] /\ e[i] = q[i]
        BY <1>2, <2>1, <2>2 DEF IsCut
      <3> QED BY <3>1, PathEqual
    <2> QED BY <1>3, <2>2, <2>3 DEF IsPrefix, Extends
  <1>4. CASE ~(Len(p) <= Len(q))
    BY <1>4 DEF IsPrefix, Extends
  <1> QED BY <1>3, <1>4

\* The set of prefixes is that of the paths IsPrefix accepts.
LEMMA PrefixesMean ==
  ASSUME NEW p \in Path
  PROVE  \A q : q \in Prefixes(p) <=> q \in Path /\ IsPrefix(q, p)
  <1>1. Len(p) \in Nat
    BY PathFacts
  <1>2. ASSUME NEW q \in Prefixes(p)
        PROVE  q \in Path /\ IsPrefix(q, p)
    <2>1. PICK l \in 0 .. Len(p) : q = SubSeq(p, 1, l)
      BY DEF Prefixes
    <2>2. q \in Path /\ Len(q) = l /\ \A i \in 1 .. l : q[i] = p[i]
      BY <2>1, CutFacts DEF IsCut
    <2>3. Extends(q, p)
      BY <1>1, <2>1, <2>2 DEF Extends
    <2> QED BY <2>2, <2>3, PrefixMeans
  <1>3. ASSUME NEW q \in Path, IsPrefix(q, p)
        PROVE  q \in Prefixes(p)
    <2>1. Len(q) \in Nat /\ Extends(q, p)
      BY <1>3, PathFacts, PrefixMeans
    <2>2. Len(q) \in 0 .. Len(p)
      BY <1>1, <2>1 DEF Extends
    <2>3. PICK c : c = SubSeq(p, 1, Len(q))
      OBVIOUS
    <2>4. c \in Path /\ Len(c) = Len(q) /\ \A i \in 1 .. Len(q) : c[i] = p[i]
      BY <2>2, <2>3, CutFacts DEF IsCut
    <2>5. c = q
      BY <2>1, <2>4, PathEqual DEF Extends
    <2> QED BY <2>2, <2>3, <2>5 DEF Prefixes
  <1> QED BY <1>2, <1>3

\* The parent directory.
LEMMA FrontFacts ==
  ASSUME NEW p \in Path, p # <<>>
  PROVE  /\ Front(p) \in Path /\ Front(p) # p /\ IsPrefix(Front(p), p)
         /\ Len(Front(p)) = Len(p) - 1
  <1>1. Len(p) \in Nat /\ Len(p) > 0
    BY PathFacts
  <1>2. PICK c : c = Front(p)
    OBVIOUS
  <1>3. /\ c \in Path /\ Len(c) = Len(p) - 1
        /\ \A i \in 1 .. Len(p) - 1 : c[i] = p[i]
    <2>1. Len(p) - 1 \in 0 .. Len(p)
      BY <1>1
    <2> QED BY <1>2, <2>1, CutFacts DEF Front, IsCut
  <1>4. Extends(c, p) /\ c # p
    BY <1>1, <1>3 DEF Extends
  <1> QED BY <1>2, <1>3, <1>4, PrefixMeans

\* A prefix of a prefix is one.
LEMMA PrefixTransitive ==
  ASSUME NEW p \in Path, NEW q \in Path, NEW r \in Path,
         IsPrefix(p, q), IsPrefix(q, r)
  PROVE  IsPrefix(p, r)
  <1>1. Extends(p, q) /\ Extends(q, r)
    BY PrefixMeans
  <1>2. Len(p) \in Nat /\ Len(q) \in Nat /\ Len(r) \in Nat
    BY PathFacts
  <1>3. Extends(p, r)
    BY <1>1, <1>2 DEF Extends
  <1> QED BY <1>3, PrefixMeans

\* Of two prefixes of one path, one is a prefix of the other.
LEMMA PrefixesCompare ==
  ASSUME NEW p \in Path, NEW q \in Path, NEW r \in Path,
         IsPrefix(p, r), IsPrefix(q, r)
  PROVE  IsPrefix(p, q) \/ IsPrefix(q, p)
  <1>1. Extends(p, r) /\ Extends(q, r)
    BY PrefixMeans
  <1>2. Len(p) \in Nat /\ Len(q) \in Nat /\ Len(r) \in Nat
    BY PathFacts
  <1>3. Extends(p, q) \/ Extends(q, p)
    BY <1>1, <1>2 DEF Extends
  <1> QED BY <1>3, PrefixMeans

\* A path is a prefix of itself.
LEMMA PrefixReflexive ==
  ASSUME NEW p \in Path
  PROVE  IsPrefix(p, p)
  <1>1. Extends(p, p)
    BY PathFacts DEF Extends
  <1> QED BY <1>1, PrefixMeans

\* What is appended to a path is below what the path is below.
LEMMA JoinExtends ==
  ASSUME NEW p \in Path, NEW q \in Path, NEW r \in Path, IsPrefix(p, q)
  PROVE  q \o r \in Path /\ IsPrefix(p, q \o r)
  <1>1. PICK z : z = q \o r
    OBVIOUS
  <1>2. Len(p) \in Nat /\ Len(q) \in Nat /\ Len(r) \in Nat /\ Extends(p, q)
    BY PathFacts, PrefixMeans
  <1>3. /\ z \in Path /\ Len(z) = Len(q) + Len(r)
        /\ \A i \in 1 .. Len(q) + Len(r) : z[i] = IF i <= Len(q) THEN q[i]
                                                  ELSE r[i - Len(q)]
    BY <1>1, ConcatProperties DEF Path
  <1>4. Extends(p, z)
    BY <1>2, <1>3 DEF Extends
  <1> QED BY <1>1, <1>3, <1>4, PrefixMeans

-----------------------------------------------------------------------------
(* Trees                                                                   *)

\* Every node but the root is in a directory.
IsTree(t) ==
  /\ DOMAIN t \subseteq Path
  /\ \A p \in DOMAIN t : t[p] # "absent" /\ (p # <<>> => IsDir(t, Front(p)))

\* From t to u nothing has gone, directories and files are what they were, and
\* only d, what is below it and missing parents of it have changed.
Kept(t, u, d) ==
  /\ \A p \in DOMAIN t : p \in DOMAIN u /\ (IsDir(u, p) <=> IsDir(t, p))
  /\ \A p \in DOMAIN u :
       Node(u, p) # Node(t, p) => \/ IsPrefix(d, p)
                                  \/ IsDir(u, p) /\ IsPrefix(p, d)

\* A step that changes nothing.
LEMMA KeptReflexive ==
  ASSUME NEW t, NEW d
  PROVE  Kept(t, t, d)
  BY DEF Kept

\* One step after another: a directory that was made stays one.
LEMMA KeptTransitive ==
  ASSUME NEW t, NEW u, NEW v, NEW d, Kept(t, u, d), Kept(u, v, d)
  PROVE  Kept(t, v, d)
  <1>1. \A p \in DOMAIN t : p \in DOMAIN v /\ (IsDir(v, p) <=> IsDir(t, p))
    BY DEF Kept
  <1>2. ASSUME NEW p \in DOMAIN v, Node(v, p) # Node(t, p), ~IsPrefix(d, p)
        PROVE  IsDir(v, p) /\ IsPrefix(p, d)
    <2>1. CASE Node(v, p) # Node(u, p)
      BY <1>2, <2>1 DEF Kept
    <2>2. CASE Node(v, p) = Node(u, p) /\ p \in DOMAIN u
      <3>1. IsDir(u, p) /\ IsPrefix(p, d)
        BY <1>2, <2>2 DEF Kept
      <3> QED BY <2>2, <3>1 DEF IsDir
    <2>3. CASE Node(v, p) = Node(u, p) /\ p \notin DOMAIN u
      <3>1. p \notin DOMAIN t
        BY <2>3 DEF Kept
      <3> QED BY <1>2, <2>3, <3>1 DEF Node
    <2> QED BY <2>1, <2>2, <2>3
  <1> QED BY <1>1, <1>2 DEF Kept

\* os.MkdirAll
LEMMA MkdirAllKeeps ==
  ASSUME NEW t, IsTree(t), NEW p \in Path, CanMkdirAll(t, p),
         NEW d \in Path, NEW to \in Path, IsPrefix(d, to), IsPrefix(p, to)
  PROVE  /\ IsTree(MkdirAll(t, p)) /\ Kept(t, MkdirAll(t, p), d)
         /\ IsDir(MkdirAll(t, p), p)
  <1>1. PICK u : u = MkdirAll(t, p)
    OBVIOUS
  <1>2. /\ DOMAIN u = DOMAIN t \cup Prefixes(p)
        /\ \A q \in DOMAIN t : u[q] = t[q]
        /\ \A q \in Prefixes(p) : q \notin DOMAIN t => u[q] = "dir"
    BY <1>1 DEF MkdirAll
  <1>3. \A q \in DOMAIN t : q \in DOMAIN u /\ Node(u, q) = Node(t, q)
    BY <1>2 DEF Node
  <1>4. \A q \in Prefixes(p) : IsDir(u, q)
    <2>1. ASSUME NEW q \in Prefixes(p)
          PROVE  Node(u, q) \in DirKinds
      <3>1. CASE q \in DOMAIN t
        <4>1. Node(t, q) \in DirKinds \cup {"absent"} /\ t[q] # "absent"
          BY <3>1 DEF CanMkdirAll, IsTree
        <4> QED BY <1>3, <3>1, <4>1 DEF Node
      <3>2. CASE q \notin DOMAIN t
        BY <1>2, <3>2 DEF Node, DirKinds
      <3> QED BY <3>1, <3>2
    <2> QED BY <2>1 DEF IsDir
  <1>5. \A q \in Prefixes(p) : q \in Path /\ IsPrefix(q, p)
    BY PrefixesMean
  <1>6. IsTree(u)
    <2>1. DOMAIN u \subseteq Path
      BY <1>2, <1>5 DEF IsTree
    <2>2. ASSUME NEW q \in DOMAIN u
          PROVE  u[q] # "absent" /\ (q # <<>> => IsDir(u, Front(q)))
      <3>1. CASE q \in DOMAIN t
        <4>1. t[q] # "absent" /\ (q # <<>> => IsDir(t, Front(q)))
          BY <3>1 DEF IsTree
        <4>2. IsDir(t, Front(q)) => Front(q) \in DOMAIN t
          BY DEF IsDir, Node, DirKinds
        <4>3. IsDir(t, Front(q)) => IsDir(u, Front(q))
          BY <1>3, <4>2 DEF IsDir
        <4> QED BY <1>2, <3>1, <4>1, <4>3
      <3>2. CASE q \notin DOMAIN t
        <4>1. q \in Prefixes(p) /\ u[q] = "dir"
          BY <1>2, <3>2
        <4>2. q # <<>> => Front(q) \in Prefixes(p)
          <5>1. SUFFICES ASSUME q # <<>>
                         PROVE  Front(q) \in Prefixes(p)
            OBVIOUS
          <5>2. q \in Path /\ IsPrefix(q, p)
            BY <1>5, <4>1
          <5>3. Front(q) \in Path /\ IsPrefix(Front(q), q)
            BY <5>1, <5>2, FrontFacts
          <5>4. IsPrefix(Front(q), p)
            BY <5>2, <5>3, PrefixTransitive
          <5> QED BY <5>3, <5>4, PrefixesMean
        <4> QED BY <1>4, <4>1, <4>2
      <3> QED BY <3>1, <3>2
    <2> QED BY <2>1, <2>2 DEF IsTree
  <1>7. Kept(t, u, d)
    <2>1. \A q \in DOMAIN t : q \in DOMAIN u /\ (IsDir(u, q) <=> IsDir(t, q))
      BY <1>3 DEF IsDir
    <2>2. ASSUME NEW q \in DOMAIN u, Node(u, q) # Node(t, q)
          PROVE  IsDir(u, q) /\ (IsPrefix(d, q) \/ IsPrefix(q, d))
      <3>1. q \in Prefixes(p)
        BY <1>2, <1>3, <2>2
      <3>2. q \in Path /\ IsPrefix(q, to)
        BY <1>5, <3>1, PrefixTransitive
      <3> QED BY <1>4, <3>1, <3>2, PrefixesCompare
    <2> QED BY <2>1, <2>2 DEF Kept
  <1>8. IsDir(u, p)
    BY <1>4, PrefixesMean, PrefixReflexive
  <1> QED BY <1>1, <1>6, <1>7, <1>8

\* A node at p, in a directory, of the kind that was there before.
LEMMA WithKeeps ==
  ASSUME NEW t, IsTree(t), NEW p \in Path, NEW d \in Path, IsPrefix(d, p),
         NEW node, node # "absent",
         p # <<>> => IsDir(t, Front(p)),
         p \in DOMAIN t => (IsDir(t, p) <=> node \in DirKinds)
  PROVE  /\ IsTree(With(t, p, node)) /\ Kept(t, With(t, p, node), d)
  <1>1. PICK u : u = With(t, p, node)
    OBVIOUS
  <1>2. /\ DOMAIN u = DOMAIN t \cup {p} /\ u[p] = node
        /\ \A q \in DOMAIN t : q # p => u[q] = t[q]
    BY <1>1 DEF With
  <1>3. \A q : q # p => Node(u, q) = Node(t, q)
    BY <1>2 DEF Node
  <1>4. Node(u, p) = node
    BY <1>2 DEF Node
  <1>5. \A q : IsDir(t, q) => q \in DOMAIN t
    BY DEF IsDir, Node, DirKinds
  <1>6. \A q : IsDir(t, q) => IsDir(u, q)
    BY <1>3, <1>4, <1>5 DEF IsDir
  <1>7. IsTree(u)
    <2>1. DOMAIN u \subseteq Path
      BY <1>2 DEF IsTree
    <2>2. \A q \in DOMAIN u : u[q] # "absent" /\ (q # <<>> => IsDir(u, Front(q)))
      BY <1>2, <1>6 DEF IsTree
    <2> QED BY <2>1, <2>2 DEF IsTree
  <1>8. Kept(t, u, d)
    <2>1. ASSUME NEW q \in DOMAIN t
          PROVE  q \in DOMAIN u /\ (IsDir(u, q) <=> IsDir(t, q))
      BY <1>2, <1>3, <1>4 DEF IsDir
    <2>2. \A q \in DOMAIN u : Node(u, q) # Node(t, q) => IsPrefix(d, q)
      BY <1>3
    <2> QED BY <2>1, <2>2 DEF Kept
  <1> QED BY <1>1, <1>7, <1>8

\* The server's create of a file: its parents, and the file if there is none.
LEMMA CreateKeeps ==
  ASSUME NEW t, IsTree(t), NEW p \in Path, p # <<>>, CanCreate(t, p),
         NEW d \in Path, IsPrefix(d, p)
  PROVE  /\ IsTree(Create(t, p)) /\ Kept(t, Create(t, p), d)
         /\ IsDir(Create(t, p), Front(p)) /\ ~IsDir(Create(t, p), p)
         /\ p \in DOMAIN Create(t, p)
  <1>1. PICK u : u = MkdirAll(t, Front(p))
    OBVIOUS
  <1>2. /\ Front(p) \in Path /\ Front(p) # p /\ IsPrefix(Front(p), p)
        /\ Len(Front(p)) = Len(p) - 1 /\ Len(p) \in Nat
    BY FrontFacts, PathFacts
  <1>3. IsTree(u) /\ Kept(t, u, d) /\ IsDir(u, Front(p))
    BY <1>1, <1>2, MkdirAllKeeps DEF CanCreate
  <1>4. p \notin Prefixes(Front(p))
    <2>1. SUFFICES ASSUME IsPrefix(p, Front(p))
                   PROVE  FALSE
      BY <1>2, PrefixesMean
    <2>2. Len(p) <= Len(Front(p))
      BY <1>2, <2>1, PrefixMeans DEF Extends
    <2> QED BY <1>2, <2>2
  <1>5. (p \in DOMAIN u) <=> (p \in DOMAIN t)
    BY <1>1, <1>4 DEF MkdirAll
  <1>6. Create(t, p) = OpenFile(u, p)
    BY <1>1 DEF Create
  <1>7. CASE p \in DOMAIN t
    <2>1. Create(t, p) = u
      BY <1>5, <1>6, <1>7 DEF OpenFile
    <2>2. ~IsDir(u, p)
      BY <1>3, <1>7 DEF Kept, CanCreate
    <2> QED BY <1>3, <1>5, <1>7, <2>1, <2>2
  <1>8. CASE p \notin DOMAIN t
    <2>1. PICK v : v = With(u, p, "empty")
      OBVIOUS
    <2>2. Create(t, p) = v
      BY <1>5, <1>6, <1>8, <2>1 DEF OpenFile
    <2>3. IsTree(v) /\ Kept(u, v, d)
      <3>1. "empty" # "absent"
        OBVIOUS
      <3> QED BY <1>3, <1>5, <1>8, <2>1, <3>1, WithKeeps
    <2>4. Kept(t, v, d)
      BY <1>3, <2>3, KeptTransitive
    <2>5. p \in DOMAIN v /\ v[p] = "empty"
      BY <2>1 DEF With
    <2>6. ~IsDir(v, p)
      BY <2>5 DEF IsDir, Node, DirKinds
    <2>7. IsDir(v, Front(p))
      <3>1. Front(p) \in DOMAIN u
        BY <1>3 DEF IsDir, Node, DirKinds
      <3> QED BY <1>3, <2>3, <3>1 DEF Kept
    <2> QED BY <2>2, <2>3, <2>4, <2>5, <2>6, <2>7
  <1> QED BY <1>7, <1>8

-----------------------------------------------------------------------------
(* The invariant                                                           *)

Ops == {"single", "walk", "file"}

\* The items a command may work on: what they write is at or below dst, and
\* what is walked is a directory.
Todo ==
  {w \in [op : Ops, from : Path, to : Path, slash : BOOLEAN] :
     /\ IsPrefix(cmd.dst.path, w.to)
     /\ w.op = "walk" => IsDir(tree0[From], w.from)}

TreesInv ==
  /\ tree0 \in Worlds /\ DOMAIN tree = {"local", "remote"}
  /\ \A side \in {"local", "remote"} : IsTree(tree[side])
  /\ tree[From] = tree0[From]
  /\ Kept(tree0[To], tree[To], cmd.dst.path)

ControlInv ==
  /\ cmd \in Commands
  /\ pc \in {"expand", "copy", "exit"} /\ outcome \in {"none", "ok", "err"}
  /\ faults \in 0 .. MaxFaults
  /\ pc = "copy" => ~cmd.dryRun
  /\ pc = "expand" \/ cmd.dryRun => tree = tree0

CopyInv == TreesInv /\ ControlInv /\ work \in Seq(Todo)

\* The two sides.
LEMMA Sides ==
  /\ From \in {"local", "remote"} /\ To \in {"local", "remote"} /\ From # To
  /\ SrcRemote => From = "remote" /\ To = "local"
  /\ ~SrcRemote => From = "local" /\ To = "remote"
  BY DEF From, To

\* The command line.
LEMMA ArgFacts ==
  ASSUME cmd \in Commands
  PROVE  /\ cmd.dst.path \in Path /\ cmd.dst.slash \in BOOLEAN
         /\ cmd.sources \in Seq(Arg) /\ Len(cmd.sources) \in Nat
         /\ DOMAIN cmd.sources = 1 .. Len(cmd.sources)
         /\ \A i \in 1 .. Len(cmd.sources) :
              cmd.sources[i] \in Arg /\ cmd.sources[i].path \in Path
  <1>1. cmd.sources \in Seq(Arg) /\ cmd.dst \in Arg
    BY CopyAssumption
  <1>2. /\ Len(cmd.sources) \in Nat /\ DOMAIN cmd.sources = 1 .. Len(cmd.sources)
        /\ \A i \in 1 .. Len(cmd.sources) : cmd.sources[i] \in Arg
    BY <1>1, LenProperties, ElementOfSeq
  <1>3. \A a \in Arg : a.path \in Path /\ a.slash \in BOOLEAN
    BY DEF Arg, Path
  <1> QED BY <1>1, <1>2, <1>3

\* The tree that is copied: finite, and as it was.
LEMMA SourceFacts ==
  ASSUME TreesInv
  PROVE  /\ IsFiniteSet(DOMAIN tree[From]) /\ DOMAIN tree[From] \subseteq Path
         /\ tree[From] = tree0[From]
  BY Sides, CopyAssumption DEF TreesInv, IsTree

\* What is known of an item.
LEMMA ItemFacts ==
  ASSUME NEW w \in Todo
  PROVE  /\ w.op \in Ops /\ w.from \in Path /\ w.to \in Path
         /\ w.slash \in BOOLEAN /\ IsPrefix(cmd.dst.path, w.to)
         /\ w.op = "walk" => IsDir(tree0[From], w.from)
  BY DEF Todo

\* What an item has to be.
LEMMA ItemType ==
  ASSUME NEW op \in Ops, NEW from \in Path, NEW to \in Path,
         NEW slash \in BOOLEAN, IsPrefix(cmd.dst.path, to),
         op = "walk" => IsDir(tree0[From], from)
  PROVE  Item(op, from, to, slash) \in Todo
  BY DEF Item, Todo

\* filepath.Base of a path is one name or none.
LEMMA BaseType ==
  ASSUME NEW p \in Path
  PROVE  Base(p) \in Path
  <1>1. CASE p = <<>>
    BY <1>1, EmptySeq DEF Base, Path
  <1>2. CASE p # <<>>
    <2>1. Len(p) \in 1 .. Len(p)
      BY <1>2, PathFacts
    <2>2. Last(p) \in Nat
      BY <2>1, PathFacts DEF Last
    <2> QED BY <1>2, <2>2 DEF Base, Path
  <1> QED BY <1>1, <1>2

\* Nothing but the arguments and the source decides what is allowed.
LEMMA TodoKeeps ==
  ASSUME UNCHANGED <<cmd, tree0>>
  PROVE  Todo' = Todo
  BY DEF Todo, From, SrcRemote

\* The next item and the ones behind it.
LEMMA WorkFacts ==
  ASSUME work \in Seq(Todo), work # <<>>
  PROVE  Head(work) \in Todo /\ Tail(work) \in Seq(Todo)
  BY HeadTailProperties

-----------------------------------------------------------------------------
(* The steps                                                               *)

\* The invariant holds at the start.
LEMMA InitCopy == Init => CopyInv
  <1> SUFFICES ASSUME Init PROVE CopyInv
    OBVIOUS
  <1>1. /\ cmd \in Commands /\ tree \in Worlds /\ tree0 = tree /\ work = <<>>
        /\ pc = "expand" /\ outcome = "none" /\ faults = 0
    BY DEF Init
  <1>2. DOMAIN tree = {"local", "remote"}
    <2>1. tree = [local |-> tree.local, remote |-> tree.remote]
      BY <1>1, CopyAssumption
    <2> QED BY <2>1
  <1>3. ASSUME NEW side \in {"local", "remote"}
        PROVE  IsTree(tree[side])
    <2>1. /\ DOMAIN tree[side] \subseteq Path
          /\ \A p \in DOMAIN tree[side] : tree[side][p] # "absent"
          /\ \A p \in DOMAIN tree[side] :
               p # <<>> => /\ Front(p) \in DOMAIN tree[side]
                           /\ tree[side][Front(p)] \in DirKinds
      BY <1>1, CopyAssumption DEF Path
    <2> QED BY <2>1 DEF IsTree, IsDir, Node
  <1>4. TreesInv
    BY <1>1, <1>2, <1>3, KeptReflexive DEF TreesInv
  <1>5. ControlInv
    BY <1>1, CopyAssumption DEF ControlInv
  <1>6. work \in Seq(Todo)
    BY <1>1, EmptySeq
  <1> QED BY <1>4, <1>5, <1>6 DEF CopyInv

\* A step that writes below dst.
LEMMA TreeStep ==
  ASSUME TreesInv, UNCHANGED <<cmd, tree0>>, NEW u, IsTree(u),
         Kept(tree[To], u, cmd.dst.path), tree' = [tree EXCEPT ![To] = u]
  PROVE  TreesInv'
  <1>1. From' = From /\ To' = To
    BY DEF From, To, SrcRemote
  <1>2. /\ DOMAIN tree' = {"local", "remote"} /\ tree'[To] = u
        /\ tree'[From] = tree[From]
        /\ \A side \in {"local", "remote"} : side = From \/ side = To
    BY Sides DEF TreesInv
  <1>3. Kept(tree0[To], u, cmd.dst.path)
    BY KeptTransitive DEF TreesInv
  <1>4. \A side \in {"local", "remote"} : IsTree(tree'[side])
    BY <1>2 DEF TreesInv
  <1>5. /\ tree0' \in Worlds /\ tree'[From'] = tree0'[From']
        /\ Kept(tree0'[To'], tree'[To'], cmd'.dst.path)
    BY <1>1, <1>2, <1>3 DEF TreesInv
  <1> QED BY <1>2, <1>4, <1>5 DEF TreesInv

\* A step that writes nothing.
LEMMA SameTrees ==
  ASSUME TreesInv, UNCHANGED <<cmd, tree0, tree>>
  PROVE  TreesInv'
  <1>1. From' = From /\ To' = To
    BY DEF From, To, SrcRemote
  <1> QED BY <1>1 DEF TreesInv

\* The list of the entries of a directory and of where they go.
IsListing(new, ps, to) ==
  new = [i \in DOMAIN ps |->
           Item(IF IsDir(tree[From], ps[i]) THEN "walk" ELSE "file",
                ps[i], to \o Base(ps[i]), FALSE)]

\* It takes the place of the directory.
LEMMA DescendLists ==
  ASSUME CopyInv, NEW p \in Path, NEW to \in Path, work # <<>>,
         IsPrefix(cmd.dst.path, to), Descend(p, to)
  PROVE  \E ps, new : /\ ps = Sorted(Children(tree[From], p))
                      /\ IsListing(new, ps, to) /\ new \in Seq(Todo)
                      /\ work' = new \o Tail(work)
  <1> DEFINE S == Children(tree[From], p)
  <1>1. PICK ps : ps = Sorted(S)
    OBVIOUS
  <1>2. IsFiniteSet(S) /\ S \in SUBSET Path
    <2>1. S \subseteq DOMAIN tree[From]
      BY DEF Children
    <2> QED BY <2>1, SourceFacts, FS_Subset DEF CopyInv
  <1>3. ps \in Seq(S) /\ \A i \in DOMAIN ps : ps[i] \in S
    BY <1>1, <1>2, SortedFacts
  <1>4. PICK new : new = [i \in DOMAIN ps |->
                Item(IF IsDir(tree[From], ps[i]) THEN "walk" ELSE "file",
                     ps[i], to \o Base(ps[i]), FALSE)]
    OBVIOUS
  <1>5. \A i \in DOMAIN ps : new[i] \in Todo
    <2> SUFFICES ASSUME NEW i \in DOMAIN ps
                 PROVE  new[i] \in Todo
      OBVIOUS
    <2>1. ps[i] \in Path
      BY <1>2, <1>3
    <2>2. PICK q : q = to \o Base(ps[i])
      OBVIOUS
    <2>3. q \in Path /\ IsPrefix(cmd.dst.path, q)
      BY <2>1, <2>2, BaseType, JoinExtends, ArgFacts DEF CopyInv, ControlInv
    <2>4. PICK op : op = IF IsDir(tree[From], ps[i]) THEN "walk" ELSE "file"
      OBVIOUS
    <2>5. op \in Ops /\ (op = "walk" => IsDir(tree0[From], ps[i]))
      BY <2>4, SourceFacts DEF CopyInv, Ops
    <2>6. new[i] = Item(op, ps[i], q, FALSE)
      BY <1>4, <2>2, <2>4
    <2> QED BY <2>1, <2>3, <2>5, <2>6, ItemType
  <1>6. new \in Seq(Todo)
    <2>1. DOMAIN ps = 1 .. Len(ps) /\ Len(ps) \in Nat
      BY <1>3, LenProperties
    <2>2. new \in [1 .. Len(ps) -> Todo]
      BY <1>4, <1>5, <2>1
    <2> QED BY <2>1, <2>2, FunctionIsSeq
  <1>7. work' = new \o Tail(work)
    BY <1>1, <1>4 DEF Descend
  <1>8. IsListing(new, ps, to)
    BY <1>4 DEF IsListing
  <1> QED BY <1>1, <1>6, <1>7, <1>8

\* So what is to do remains below dst.
LEMMA DescendKeeps ==
  ASSUME CopyInv, NEW p \in Path, NEW to \in Path, work # <<>>,
         IsPrefix(cmd.dst.path, to), Descend(p, to)
  PROVE  work' \in Seq(Todo)
  <1>1. PICK new : new \in Seq(Todo) /\ work' = new \o Tail(work)
    BY DescendLists
  <1>2. Tail(work) \in Seq(Todo)
    BY WorkFacts DEF CopyInv
  <1> QED BY <1>1, <1>2, ConcatProperties, Zenon

\* An argument stands for finitely many paths.
LEMMA ExpandType ==
  ASSUME CopyInv, NEW s \in Arg
  PROVE  Expand(s) \in SUBSET Path /\ IsFiniteSet(Expand(s))
  <1>1. s.path \in Path
    BY DEF Arg, Path
  <1>2. CASE s.glob = {}
    <2>1. Expand(s) = {s.path}
      BY <1>2 DEF Expand, ExpandLocal, ExpandRemote
    <2> QED BY <1>1, <2>1, FS_Singleton
  <1>3. CASE s.glob # {}
    <2>1. Matches(s) \subseteq DOMAIN tree[From]
      BY DEF Matches, Children
    <2>2. Expand(s) \subseteq DOMAIN tree[From]
      <3>1. CASE SrcRemote
        BY <1>3, <2>1, <3>1 DEF Expand, ExpandRemote
      <3>2. CASE ~SrcRemote
        <4>1. From = "local"
          BY <3>2, Sides
        <4>2. \A q \in Matches(s) :
                (IF cmd.recursive /\ IsDir(tree.local, q)
                  THEN FilesBelow(tree.local, q) ELSE {q})
                \subseteq DOMAIN tree.local
          BY <2>1, <4>1 DEF FilesBelow
        <4> QED BY <1>3, <3>2, <4>1, <4>2 DEF Expand, ExpandLocal
      <3> QED BY <3>1, <3>2
    <2> QED BY <2>2, SourceFacts, FS_Subset DEF CopyInv
  <1> QED BY <1>2, <1>3

\* What copySingle is given: the target is dst or in it.
LEMMA SingleType ==
  ASSUME CopyInv, NEW p \in Path
  PROVE  Single(p) \in Todo
  <1>1. PICK r : r = SourceTarget(p)
    OBVIOUS
  <1>2. cmd.dst.path \in Path /\ cmd.dst.slash \in BOOLEAN
    BY ArgFacts DEF CopyInv, ControlInv
  <1>3. r.path \in Path /\ IsPrefix(cmd.dst.path, r.path) /\ r.slash \in BOOLEAN
    <2>1. CASE Multiple
      <3>1. PICK e : e = IF SrcRemote THEN Identity ELSE Base(p)
        OBVIOUS
      <3>2. e \in Path
        BY <3>1, BaseType, CopyAssumption DEF Path
      <3>3. r.path = cmd.dst.path \o e /\ r.slash = FALSE
        BY <1>1, <2>1, <3>1 DEF SourceTarget
      <3> QED BY <1>2, <3>2, <3>3, PrefixReflexive, JoinExtends
    <2>2. CASE ~Multiple
      <3>1. r.path = cmd.dst.path /\ r.slash = cmd.dst.slash
        BY <1>1, <2>2 DEF SourceTarget
      <3> QED BY <1>2, <3>1, PrefixReflexive
    <2> QED BY <2>1, <2>2
  <1>4. "single" \in Ops /\ "single" # "walk"
    BY DEF Ops
  <1>5. Item("single", p, r.path, r.slash) \in Todo
    BY <1>3, <1>4, ItemType
  <1> QED BY <1>1, <1>5 DEF Single

\* What one argument adds to the list, and the list of all of them.
Listed(s) ==
  LET ps == Sorted(Expand(s)) IN [i \in DOMAIN ps |-> Single(ps[i])]

ListedAll == [i \in DOMAIN cmd.sources |-> Listed(cmd.sources[i])]

\* Items for copySingle.
LEMMA ListedType ==
  ASSUME CopyInv, NEW s \in Arg
  PROVE  Listed(s) \in Seq(Todo)
  <1>1. Expand(s) \in SUBSET Path /\ IsFiniteSet(Expand(s))
    BY ExpandType
  <1>2. PICK ps : ps = Sorted(Expand(s))
    OBVIOUS
  <1>3. ps \in Seq(Expand(s)) /\ \A i \in DOMAIN ps : ps[i] \in Path
    BY <1>1, <1>2, SortedFacts
  <1>4. Listed(s) = [i \in DOMAIN ps |-> Single(ps[i])]
    BY <1>2 DEF Listed
  <1>5. DOMAIN ps = 1 .. Len(ps) /\ Len(ps) \in Nat
    BY <1>3, LenProperties
  <1>6. Listed(s) \in [1 .. Len(ps) -> Todo]
    BY <1>3, <1>4, <1>5, SingleType
  <1> QED BY <1>5, <1>6, FunctionIsSeq

\* One list for each argument.
LEMMA ListedAllType ==
  ASSUME CopyInv
  PROVE  ListedAll \in Seq(Seq(Todo))
  <1>1. /\ DOMAIN cmd.sources = 1 .. Len(cmd.sources)
        /\ Len(cmd.sources) \in Nat
        /\ \A i \in 1 .. Len(cmd.sources) : cmd.sources[i] \in Arg
    BY ArgFacts DEF CopyInv, ControlInv
  <1>2. ListedAll \in [1 .. Len(cmd.sources) -> Seq(Todo)]
    BY <1>1, ListedType DEF ListedAll
  <1> QED BY <1>1, <1>2, FunctionIsSeq

\* How the expansion ends.
LEMMA ExpandCases ==
  ASSUME ExpandSources
  PROVE  \/ Exit("err")
         \/ cmd.dryRun /\ Exit("ok")
         \/ /\ ~cmd.dryRun /\ pc' = "copy" /\ UNCHANGED outcome
            /\ work' = FlattenSeq(ListedAll)
  BY DEF ExpandSources, ListedAll, Listed

\* The list of what to copy: every target is dst or in it.
LEMMA ExpandKeeps ==
  ASSUME CopyInv, ExpandSources
  PROVE  CopyInv'
  <1>1. UNCHANGED <<cmd, tree, faults, tree0>> /\ pc = "expand"
    BY DEF ExpandSources
  <1>2. TreesInv'
    BY <1>1, SameTrees DEF CopyInv
  <1>3. Todo' = Todo
    BY <1>1, TodoKeeps
  <1>4. CASE \E r \in {"ok", "err"} : Exit(r)
    <2>1. pc' = "exit" /\ outcome' \in {"ok", "err"} /\ work' = <<>>
      BY <1>4 DEF Exit
    <2>2. ControlInv'
      BY <1>1, <2>1 DEF ControlInv, CopyInv
    <2>3. work' \in Seq(Todo')
      BY <2>1, EmptySeq
    <2> QED BY <1>2, <2>2, <2>3 DEF CopyInv
  <1>5. CASE /\ ~cmd.dryRun /\ pc' = "copy" /\ UNCHANGED outcome
             /\ work' = FlattenSeq(ListedAll)
    <2>1. ControlInv'
      BY <1>1, <1>5 DEF ControlInv, CopyInv
    <2>2. work' \in Seq(Todo)
      BY <1>5, ListedAllType, FlattenType
    <2>3. work' \in Seq(Todo')
      BY <1>3, <2>2
    <2> QED BY <1>2, <2>1, <2>3 DEF CopyInv
  <1> QED BY <1>4, <1>5, ExpandCases

\* Where the command ends, without a change of the trees.
LEMMA ExitKeeps ==
  ASSUME CopyInv, NEW r \in {"ok", "err"}, Exit(r), TreesInv',
         UNCHANGED <<cmd, tree0>>, faults' \in 0 .. MaxFaults,
         cmd.dryRun => UNCHANGED tree
  PROVE  CopyInv'
  <1>1. pc' = "exit" /\ outcome' = r /\ work' = <<>>
    BY DEF Exit
  <1>2. ControlInv'
    BY <1>1 DEF ControlInv, CopyInv
  <1>3. work' \in Seq(Todo')
    BY <1>1, EmptySeq
  <1> QED BY <1>2, <1>3 DEF CopyInv

\* A step of the copy that goes on.
LEMMA GoOn ==
  ASSUME CopyInv, pc = "copy", UNCHANGED <<cmd, tree0, pc, outcome, faults>>,
         TreesInv', work' \in Seq(Todo)
  PROVE  CopyInv'
  <1>1. Todo' = Todo
    BY TodoKeeps
  <1>2. ControlInv'
    BY DEF ControlInv, CopyInv
  <1>3. work' \in Seq(Todo')
    BY <1>1
  <1> QED BY <1>2, <1>3 DEF CopyInv

\* The router.
LEMMA CopySingleKeeps ==
  ASSUME CopyInv, CopySingle
  PROVE  CopyInv'
  <1>1. /\ pc = "copy" /\ work # <<>> /\ UNCHANGED <<cmd, tree, faults, tree0>>
    BY DEF CopySingle, Current
  <1>2. TreesInv'
    BY <1>1, SameTrees DEF CopyInv
  <1>3. PICK w : w = Head(work)
    OBVIOUS
  <1>4. w \in Todo /\ Tail(work) \in Seq(Todo)
    BY <1>1, <1>3, WorkFacts DEF CopyInv
  <1>5. w.from \in Path /\ w.to \in Path /\ IsPrefix(cmd.dst.path, w.to)
    BY <1>4, ItemFacts
  <1>6. PICK to : to = w.to \o (IF w.slash THEN Base(w.from) ELSE <<>>)
    OBVIOUS
  <1>7. to \in Path /\ IsPrefix(cmd.dst.path, to)
    <2>1. PICK e : e = IF w.slash THEN Base(w.from) ELSE <<>>
      OBVIOUS
    <2>2. e \in Path
      BY <1>5, <2>1, BaseType, EmptySeq DEF Path
    <2> QED BY <1>5, <1>6, <2>1, <2>2, JoinExtends, ArgFacts DEF CopyInv, ControlInv
  <1>8. ASSUME NEW op \in {"walk", "file"}, Replace(op, to),
               op = "walk" => IsDir(tree[From], w.from),
               UNCHANGED <<pc, outcome>>
        PROVE  CopyInv'
    <2>1. PICK v : v = Item(op, w.from, to, FALSE)
      OBVIOUS
    <2>2. v \in Todo
      <3>1. op \in Ops
        BY DEF Ops
      <3>2. op = "walk" => IsDir(tree0[From], w.from)
        BY <1>8, SourceFacts DEF CopyInv
      <3> QED BY <1>5, <1>7, <2>1, <3>1, <3>2, ItemType
    <2>3. work' = <<v>> \o Tail(work)
      BY <1>3, <1>8, <2>1 DEF Replace
    <2>4. <<v>> \in Seq(Todo)
      BY <2>2
    <2>5. work' \in Seq(Todo)
      BY <1>4, <2>3, <2>4, ConcatProperties, Zenon
    <2> QED BY <1>1, <1>2, <1>8, <2>5, GoOn
  <1>9. CASE Exit("err")
    BY <1>1, <1>2, <1>9, ExitKeeps DEF CopyInv, ControlInv
  <1>10. \/ Replace("file", to) /\ UNCHANGED <<pc, outcome>>
         \/ /\ IsDir(tree[From], w.from) /\ Replace("walk", to)
            /\ UNCHANGED <<pc, outcome>>
         \/ Exit("err")
    BY <1>3, <1>6 DEF CopySingle
  <1> QED BY <1>8, <1>9, <1>10

\* cpDirToHost at a directory.
LEMMA WalkLocalKeeps ==
  ASSUME CopyInv, WalkLocal
  PROVE  CopyInv'
  <1>1. /\ pc = "copy" /\ work # <<>> /\ ~SrcRemote
        /\ UNCHANGED <<cmd, pc, outcome, faults, tree0>>
    BY DEF WalkLocal, Current
  <1>2. PICK w : w = Head(work)
    OBVIOUS
  <1>3. w.from \in Path /\ w.to \in Path /\ IsPrefix(cmd.dst.path, w.to)
    BY <1>1, <1>2, WorkFacts, ItemFacts DEF CopyInv
  <1>4. work' \in Seq(Todo)
    BY <1>1, <1>2, <1>3, DescendKeeps DEF WalkLocal
  <1>5. To = "remote"
    BY <1>1, Sides
  <1>6. CASE w.to # <<>> /\ CanCreate(tree.remote, w.to)
    <2>1. PICK u : u = Create(tree.remote, w.to)
      OBVIOUS
    <2>2. IsTree(tree.remote) /\ cmd.dst.path \in Path
      BY ArgFacts DEF CopyInv, TreesInv, ControlInv
    <2>3. IsTree(u) /\ Kept(tree.remote, u, cmd.dst.path)
      BY <1>3, <1>6, <2>1, <2>2, CreateKeeps
    <2>4. tree' = [tree EXCEPT !["remote"] = u]
      BY <1>2, <1>6, <2>1 DEF WalkLocal
    <2>5. tree' = [tree EXCEPT ![To] = u] /\ Kept(tree[To], u, cmd.dst.path)
      BY <1>5, <2>3, <2>4
    <2>6. TreesInv'
      BY <1>1, <2>3, <2>5, TreeStep DEF CopyInv
    <2> QED BY <1>1, <1>4, <2>6, GoOn
  <1>7. CASE ~(w.to # <<>> /\ CanCreate(tree.remote, w.to))
    <2>1. tree' = tree
      BY <1>2, <1>7 DEF WalkLocal
    <2>2. TreesInv'
      BY <1>1, <2>1, SameTrees DEF CopyInv
    <2> QED BY <1>1, <1>4, <2>2, GoOn
  <1> QED BY <1>6, <1>7

\* walkRemoteDir.
LEMMA WalkRemoteKeeps ==
  ASSUME CopyInv, WalkRemote
  PROVE  CopyInv'
  <1>1. /\ pc = "copy" /\ work # <<>> /\ SrcRemote /\ Head(work).op = "walk"
        /\ UNCHANGED <<cmd, faults, tree0>>
    BY DEF WalkRemote, Current
  <1>2. PICK w : w = Head(work)
    OBVIOUS
  <1>3. /\ w.from \in Path /\ w.to \in Path /\ IsPrefix(cmd.dst.path, w.to)
        /\ IsDir(tree0[From], w.from)
    BY <1>1, <1>2, WorkFacts, ItemFacts DEF CopyInv
  <1>4. To = "local" /\ From = "remote"
    BY <1>1, Sides
  <1>5. CASE CanMkdirAll(tree.local, w.to)
    <2>1. /\ tree' = [tree EXCEPT !["local"] =
                        With(MkdirAll(tree.local, w.to), w.to, tree.remote[w.from])]
          /\ Descend(w.from, w.to) /\ UNCHANGED <<pc, outcome>>
      BY <1>2, <1>5 DEF WalkRemote
    <2>2. PICK u : u = MkdirAll(tree.local, w.to)
      OBVIOUS
    <2>3. PICK n : n = tree.remote[w.from]
      OBVIOUS
    <2>4. IsTree(tree.local) /\ cmd.dst.path \in Path
      BY ArgFacts DEF CopyInv, TreesInv, ControlInv
    <2>5. IsTree(u) /\ Kept(tree.local, u, cmd.dst.path) /\ IsDir(u, w.to)
      BY <1>3, <1>5, <2>2, <2>4, MkdirAllKeeps, PrefixReflexive
    <2>6. n \in DirKinds /\ n # "absent"
      <3>1. IsDir(tree.remote, w.from)
        BY <1>3, <1>4, SourceFacts DEF CopyInv
      <3> QED BY <2>3, <3>1 DEF IsDir, Node, DirKinds
    <2>7. w.to # <<>> => IsDir(u, Front(w.to))
      <3>1. w.to \in DOMAIN u
        BY <2>5 DEF IsDir, Node, DirKinds
      <3> QED BY <2>5, <3>1 DEF IsTree
    <2>8. PICK v : v = With(u, w.to, n)
      OBVIOUS
    <2>9. IsTree(v) /\ Kept(u, v, cmd.dst.path)
      BY <1>3, <2>4, <2>5, <2>6, <2>7, <2>8, WithKeeps
    <2>10. Kept(tree.local, v, cmd.dst.path)
      BY <2>5, <2>9, KeptTransitive
    <2>11. tree' = [tree EXCEPT ![To] = v] /\ Kept(tree[To], v, cmd.dst.path)
      BY <1>4, <2>1, <2>2, <2>3, <2>8, <2>10
    <2>12. TreesInv'
      BY <1>1, <2>9, <2>11, TreeStep DEF CopyInv
    <2>13. work' \in Seq(Todo)
      BY <1>1, <1>3, <2>1, DescendKeeps
    <2> QED BY <1>1, <2>1, <2>12, <2>13, GoOn
  <1>6. CASE ~CanMkdirAll(tree.local, w.to)
    <2>1. Exit("err") /\ UNCHANGED tree
      BY <1>2, <1>6 DEF WalkRemote
    <2>2. TreesInv'
      BY <1>1, <2>1, SameTrees DEF CopyInv
    <2> QED BY <1>1, <2>1, <2>2, ExitKeeps DEF CopyInv, ControlInv
  <1> QED BY <1>5, <1>6

\* A file, or a part of one, at its place.
LEMMA PutKeeps ==
  ASSUME CopyInv, UNCHANGED <<cmd, tree0>>, NEW to \in Path,
         IsPrefix(cmd.dst.path, to), CanPut(to), NEW content,
         content \notin DirKinds \cup {"absent"}, Put(to, content)
  PROVE  TreesInv'
  <1>1. cmd.dst.path \in Path /\ IsTree(tree[To])
    BY ArgFacts, Sides DEF CopyInv, TreesInv, ControlInv
  <1>2. PICK u : u = IF SrcRemote THEN tree[To] ELSE Create(tree[To], to)
    OBVIOUS
  <1>3. /\ IsTree(u) /\ Kept(tree[To], u, cmd.dst.path)
        /\ to # <<>> => IsDir(u, Front(to))
        /\ ~IsDir(u, to)
    <2>1. CASE SrcRemote
      <3>1. To = "local" /\ u = tree.local
        BY <1>2, <2>1, Sides
      <3> QED BY <1>1, <2>1, <3>1, KeptReflexive DEF CanPut
    <2>2. CASE ~SrcRemote
      <3>1. To = "remote" /\ u = Create(tree.remote, to)
        BY <1>2, <2>2, Sides
      <3>2. to # <<>> /\ CanCreate(tree.remote, to)
        BY <2>2 DEF CanPut
      <3> QED BY <1>1, <3>1, <3>2, CreateKeeps
    <2> QED BY <2>1, <2>2
  <1>4. PICK v : v = With(u, to, content)
    OBVIOUS
  <1>5. IsTree(v) /\ Kept(u, v, cmd.dst.path)
    BY <1>1, <1>3, <1>4, WithKeeps
  <1>6. Kept(tree[To], v, cmd.dst.path)
    BY <1>3, <1>5, KeptTransitive
  <1>7. tree' = [tree EXCEPT ![To] = v]
    BY <1>2, <1>4 DEF Put
  <1> QED BY <1>5, <1>6, <1>7, TreeStep DEF CopyInv

\* The target of a transfer, and what may be put there.
LEMMA TransferFacts ==
  ASSUME CopyInv, Transferring
  PROVE  /\ pc = "copy" /\ work # <<>> /\ Tail(work) \in Seq(Todo) /\ ~cmd.dryRun
         /\ Head(work).to \in Path /\ IsPrefix(cmd.dst.path, Head(work).to)
         /\ CanPut(Head(work).to)
         /\ \A to, c : c \notin DirKinds \cup {"absent"} =>
              Written(to, c) \notin DirKinds \cup {"absent"}
  <1>1. pc = "copy" /\ work # <<>> /\ CanPut(Head(work).to)
    BY DEF Transferring, Current
  <1>2. ~cmd.dryRun
    BY <1>1 DEF CopyInv, ControlInv
  <1>3. \A to, c : c \notin DirKinds \cup {"absent"} =>
          Written(to, c) \notin DirKinds \cup {"absent"}
    BY DEF Written, DirKinds
  <1> QED BY <1>1, <1>2, <1>3, WorkFacts, ItemFacts DEF CopyInv

\* A whole transfer.
LEMMA CopyFileKeeps ==
  ASSUME CopyInv, CopyFile
  PROVE  CopyInv'
  <1>1. /\ Transferring /\ UNCHANGED <<cmd, faults, tree0>>
    BY DEF CopyFile
  <1>2. PICK to, c : to = Head(work).to /\ c = Node(tree[From], Head(work).from)
    OBVIOUS
  <1>3. c \notin DirKinds \cup {"absent"}
    BY <1>1, <1>2 DEF Transferring, IsFile
  <1>4. PICK n : n = Written(to, c)
    OBVIOUS
  <1>5. n \notin DirKinds \cup {"absent"}
    BY <1>1, <1>3, <1>4, TransferFacts
  <1>6. /\ Put(to, n)
        /\ Exit("err") \/ (work' = Tail(work) /\ UNCHANGED <<pc, outcome>>)
    BY <1>2, <1>4 DEF CopyFile
  <1>7. TreesInv'
    BY <1>1, <1>2, <1>5, <1>6, TransferFacts, PutKeeps
  <1>8. CASE Exit("err")
    BY <1>1, <1>7, <1>8, TransferFacts, ExitKeeps DEF CopyInv, ControlInv
  <1>9. CASE work' = Tail(work) /\ UNCHANGED <<pc, outcome>>
    BY <1>1, <1>7, <1>9, TransferFacts, GoOn
  <1> QED BY <1>6, <1>8, <1>9

\* One that cannot begin.
LEMMA CopyFileFailsKeeps ==
  ASSUME CopyInv, CopyFileFails
  PROVE  CopyInv'
  <1>1. Exit("err") /\ UNCHANGED <<cmd, tree, faults, tree0>>
    BY DEF CopyFileFails
  <1>2. TreesInv'
    BY <1>1, SameTrees DEF CopyInv
  <1> QED BY <1>1, <1>2, ExitKeeps DEF CopyInv, ControlInv

\* A part of a file at its place.
LEMMA PartialKeeps ==
  ASSUME CopyInv, Transferring, UNCHANGED <<cmd, tree0>>,
         Put(Head(work).to, "partial")
  PROVE  TreesInv'
  <1>1. "partial" \notin DirKinds \cup {"absent"}
    BY DEF DirKinds
  <1> QED BY <1>1, TransferFacts, PutKeeps

\* One that ends early.
LEMMA CopyFileCutKeeps ==
  ASSUME CopyInv, CopyFileCut
  PROVE  CopyInv'
  <1>1. /\ Transferring /\ Put(Head(work).to, "partial") /\ work' = Tail(work)
        /\ UNCHANGED <<cmd, pc, outcome, faults, tree0>>
    BY DEF CopyFileCut
  <1>2. TreesInv'
    BY <1>1, PartialKeeps
  <1> QED BY <1>1, <1>2, TransferFacts, GoOn

\* The end of the loop.
LEMMA FinishKeeps ==
  ASSUME CopyInv, Finish
  PROVE  CopyInv'
  <1>1. Exit("ok") /\ UNCHANGED <<cmd, tree, faults, tree0>>
    BY DEF Finish
  <1>2. TreesInv'
    BY <1>1, SameTrees DEF CopyInv
  <1> QED BY <1>1, <1>2, ExitKeeps DEF CopyInv, ControlInv

\* A failure, which may leave a part of a file.
LEMMA StepFailsKeeps ==
  ASSUME CopyInv, StepFails
  PROVE  CopyInv'
  <1>1. /\ Exit("err") /\ UNCHANGED <<cmd, tree0>>
        /\ faults' = faults \/ (faults < MaxFaults /\ faults' = faults + 1)
        /\ UNCHANGED tree \/ (Transferring /\ Put(Head(work).to, "partial"))
    BY DEF StepFails
  <1>2. faults' \in 0 .. MaxFaults
    BY <1>1, CopyAssumption DEF CopyInv, ControlInv
  <1>3. CASE UNCHANGED tree
    <2>1. TreesInv'
      BY <1>1, <1>3, SameTrees DEF CopyInv
    <2> QED BY <1>1, <1>2, <1>3, <2>1, ExitKeeps
  <1>4. CASE Transferring /\ Put(Head(work).to, "partial")
    <2>1. TreesInv'
      BY <1>1, <1>4, PartialKeeps
    <2> QED BY <1>1, <1>2, <1>4, <2>1, TransferFacts, ExitKeeps
  <1> QED BY <1>1, <1>3, <1>4

\* Only the number of faults changes.
LEMMA SameCopy ==
  ASSUME CopyInv, UNCHANGED <<cmd, tree, work, pc, outcome, tree0>>,
         faults' \in 0 .. MaxFaults
  PROVE  CopyInv'
  <1>1. TreesInv'
    BY SameTrees DEF CopyInv
  <1>2. Todo' = Todo
    BY TodoKeeps
  <1>3. ControlInv' /\ work' \in Seq(Todo')
    BY <1>2 DEF CopyInv, ControlInv
  <1> QED BY <1>1, <1>3 DEF CopyInv

\* Every step keeps the invariant.
LEMMA CopyStep == CopyInv /\ [Next]_vars => CopyInv'
  <1> SUFFICES ASSUME CopyInv, [Next]_vars PROVE CopyInv'
    OBVIOUS
  <1>1. CASE UNCHANGED vars \/ Interrupt
    <2>1. /\ UNCHANGED <<cmd, tree, work, pc, outcome, tree0>>
          /\ faults' = faults \/ (faults < MaxFaults /\ faults' = faults + 1)
      BY <1>1 DEF vars, Interrupt
    <2>2. faults' \in 0 .. MaxFaults
      BY <2>1, CopyAssumption DEF CopyInv, ControlInv
    <2> QED BY <2>1, <2>2, SameCopy
  <1>2. CASE Next /\ ~Interrupt
    BY <1>2, ExpandKeeps, CopySingleKeeps, WalkLocalKeeps, WalkRemoteKeeps,
       CopyFileKeeps, CopyFileFailsKeeps, CopyFileCutKeeps, FinishKeeps,
       StepFailsKeeps DEF Next
  <1> QED BY <1>1, <1>2

\* So it always holds.
LEMMA CopyInvariant == Spec => []CopyInv
  BY InitCopy, CopyStep, PTL DEF Spec

-----------------------------------------------------------------------------
(* What follows                                                            *)

\* The command works on items of the known kinds, and however it ends both
\* file systems are trees: no file is ever made where its parent is not a
\* directory, and no directory is lost from above what it holds (cp_dir.go,
\* cp_from_host_dir.go, the server's create).
THEOREM CopyTypeOK == Spec => []TypeOK
  <1> DEFINE Signal == interrupted \in BOOLEAN
  <1>1. CopyInv /\ Signal => TypeOK
    <2> SUFFICES ASSUME CopyInv, Signal PROVE TypeOK
      OBVIOUS
    <2>1. \A i \in DOMAIN work : work[i].op \in {"single", "walk", "file"}
      BY LenProperties, ElementOfSeq, ItemFacts DEF CopyInv, Ops
    <2>2. \A side \in {"local", "remote"} : \A p \in DOMAIN tree[side] :
            p # <<>> => IsDir(tree[side], Front(p))
      BY DEF CopyInv, TreesInv, IsTree
    <2> QED BY <2>1, <2>2 DEF TypeOK, CopyInv, ControlInv
  <1>2. Init => Signal
    BY DEF Init
  <1>3. Signal /\ [Next]_vars => Signal'
    BY DEF Next, vars, ExpandSources, CopySingle, WalkLocal, WalkRemote, CopyFile,
           CopyFileFails, CopyFileCut, Finish, StepFails, Interrupt
  <1> QED BY <1>1, <1>2, <1>3, CopyInvariant, PTL DEF Spec

\* However the command ends, whatever it is given: the side that is copied is
\* as it was, nothing disappears on the other side, no directory becomes a
\* file or a file a directory, only what is at or below dst is written, and a
\* dry run writes nothing (cp.go, cp_dir.go, cp_from_host_dir.go).
THEOREM NothingElseChanges == Spec => []OnlyBelowDst
  <1>1. CopyInv => OnlyBelowDst
    BY DEF CopyInv, TreesInv, ControlInv, Kept, OnlyBelowDst
  <1> QED BY <1>1, CopyInvariant, PTL
=============================================================================
