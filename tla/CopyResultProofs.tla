-------------------------- MODULE CopyResultProofs --------------------------
(***************************************************************************)
(* More proofs about CopyCmd: a command that reports success has copied    *)
(* every file its arguments denote, and a plain copy that nothing stands   *)
(* in the way of does not fail.                                            *)
(*                                                                         *)
(* WorkInv relates the work that is left to what the arguments denote:     *)
(* every item brings only denoted files, every denoted file that no other  *)
(* goes on top of is in place or below an item that will bring it, and no  *)
(* step puts something longer where an upload is to go.                    *)
(* FeasInv says of the plain cases that each item that is left can be      *)
(* carried out in the trees as they now are.                               *)
(***************************************************************************)
EXTENDS CopyCmdProofs

(* What a list holds                                                       *)

Among(w, s) == \E i \in DOMAIN s : s[i] = w

\* The first and the others.
LEMMA AmongTail ==
  ASSUME NEW T, NEW s \in Seq(T), s # <<>>, NEW w
  PROVE  Among(w, s) <=> w = Head(s) \/ Among(w, Tail(s))
  <1>1. PICK n, t : n = Len(s) /\ t = Tail(s)
    OBVIOUS
  <1>2. /\ n \in Nat \ {0} /\ Len(t) = n - 1 /\ Head(s) = s[1] /\ t \in Seq(T)
        /\ \A i \in 1 .. n - 1 : t[i] = s[i + 1]
    BY <1>1, HeadTailProperties, EmptySeq, LenProperties
  <1>3. DOMAIN s = 1 .. n /\ DOMAIN t = 1 .. n - 1
    BY <1>1, <1>2, LenProperties
  <1>4. ASSUME NEW i \in 1 .. n, s[i] = w, i # 1
        PROVE  Among(w, t)
    <2>1. i - 1 \in 1 .. n - 1 /\ t[i - 1] = s[(i - 1) + 1] /\ (i - 1) + 1 = i
      BY <1>2, <1>4
    <2> QED BY <1>3, <1>4, <2>1 DEF Among
  <1>5. ASSUME NEW i \in 1 .. n - 1, t[i] = w
        PROVE  Among(w, s)
    <2>1. i + 1 \in 1 .. n /\ t[i] = s[i + 1]
      BY <1>2
    <2> QED BY <1>3, <1>5, <2>1 DEF Among
  <1>6. Among(Head(s), s)
    BY <1>2, <1>3 DEF Among
  <1>7. Among(w, s) => w = Head(s) \/ Among(w, t)
    BY <1>2, <1>3, <1>4 DEF Among
  <1>8. Among(w, t) => Among(w, s)
    BY <1>3, <1>5 DEF Among
  <1> QED BY <1>1, <1>6, <1>7, <1>8

\* One list behind another.
LEMMA AmongJoin ==
  ASSUME NEW T, NEW s \in Seq(T), NEW t \in Seq(T), NEW w
  PROVE  Among(w, s \o t) <=> Among(w, s) \/ Among(w, t)
  <1>1. PICK z, m, n : z = s \o t /\ m = Len(s) /\ n = Len(t)
    OBVIOUS
  <1>2. /\ m \in Nat /\ n \in Nat /\ Len(z) = m + n /\ z \in Seq(T)
        /\ \A i \in 1 .. m + n : z[i] = IF i <= m THEN s[i] ELSE t[i - m]
    BY <1>1, ConcatProperties, LenProperties
  <1>3. DOMAIN s = 1 .. m /\ DOMAIN t = 1 .. n /\ DOMAIN z = 1 .. m + n
    BY <1>1, <1>2, LenProperties
  <1>4. ASSUME NEW i \in 1 .. m + n
        PROVE  Among(z[i], s) \/ Among(z[i], t)
    <2>1. CASE i <= m
      <3>1. i \in 1 .. m /\ z[i] = s[i]
        BY <1>2, <2>1
      <3> QED BY <1>3, <3>1 DEF Among
    <2>2. CASE ~(i <= m)
      <3>1. i - m \in 1 .. n /\ z[i] = t[i - m]
        BY <1>2, <2>2
      <3> QED BY <1>3, <3>1 DEF Among
    <2> QED BY <2>1, <2>2
  <1>5. ASSUME NEW i \in 1 .. m
        PROVE  Among(s[i], z)
    <2>1. i \in 1 .. m + n /\ i <= m
      BY <1>2
    <2>2. z[i] = s[i]
      BY <1>2, <2>1
    <2> QED BY <1>3, <2>1, <2>2 DEF Among
  <1>6. ASSUME NEW i \in 1 .. n
        PROVE  Among(t[i], z)
    <2>1. i + m \in 1 .. m + n /\ ~(i + m <= m) /\ (i + m) - m = i
      BY <1>2
    <2>2. z[i + m] = t[(i + m) - m]
      BY <1>2, <2>1
    <2> QED BY <1>3, <2>1, <2>2 DEF Among
  <1>7. Among(w, z) => Among(w, s) \/ Among(w, t)
    <2> SUFFICES ASSUME Among(w, z)
                 PROVE  Among(w, s) \/ Among(w, t)
      OBVIOUS
    <2>1. PICK i \in 1 .. m + n : z[i] = w
      BY <1>3 DEF Among
    <2> QED BY <1>4, <2>1
  <1>8. Among(w, s) => Among(w, z)
    <2> SUFFICES ASSUME Among(w, s)
                 PROVE  Among(w, z)
      OBVIOUS
    <2>1. PICK i \in 1 .. m : s[i] = w
      BY <1>3 DEF Among
    <2> QED BY <1>5, <2>1
  <1>9. Among(w, t) => Among(w, z)
    <2> SUFFICES ASSUME Among(w, t)
                 PROVE  Among(w, z)
      OBVIOUS
    <2>1. PICK i \in 1 .. n : t[i] = w
      BY <1>3 DEF Among
    <2> QED BY <1>6, <2>1
  <1> QED BY <1>1, <1>7, <1>8, <1>9

\* A sorted list holds the whole set.
LEMMA AmongSorted ==
  ASSUME NEW S \in SUBSET Path, IsFiniteSet(S), NEW p
  PROVE  Among(p, Sorted(S)) <=> p \in S
  <1>1. PICK ps, n : ps = Sorted(S) /\ n = Cardinality(S)
    OBVIOUS
  <1>2. /\ ps \in [1 .. n -> S] /\ n \in Nat
        /\ \A i, j \in DOMAIN ps : i < j => ps[i] # ps[j]
    <2>1. PICK qs : InOrder(qs, S)
      BY SortedExists
    <2>2. InOrder(Sorted(S), S)
      <3> DEFINE X == [1 .. Cardinality(S) -> S]
                 Q(q) == \A i, j \in DOMAIN q :
                           i < j => q[i] # q[j] /\ ~Before(q[j], q[i])
      <3>1. qs \in X /\ Q(qs)
        BY <2>1 DEF InOrder
      <3>2. Sorted(S) = CHOOSE q \in X : Q(q)
        BY Zenon DEF Sorted
      <3>3. Sorted(S) \in X /\ Q(Sorted(S))
        <4> HIDE DEF Q, X
        <4> QED BY <3>1, <3>2
      <3> QED BY <3>3 DEF InOrder
    <2>3. n \in Nat
      BY <1>1, FS_CardinalityType
    <2> QED BY <1>1, <2>2, <2>3 DEF InOrder
  <1>3. IsFiniteSet(1 .. n) /\ Cardinality(1 .. n) = n
    <2>1. 1 \in Int /\ n \in Int
      BY <1>2
    <2>2. /\ IsFiniteSet(1 .. n)
          /\ Cardinality(1 .. n) = IF 1 > n THEN 0 ELSE n - 1 + 1
      BY <2>1, FS_Interval
    <2>3. PICK c : c = Cardinality(1 .. n)
      OBVIOUS
    <2>4. c = IF 1 > n THEN 0 ELSE n - 1 + 1
      BY <2>2, <2>3
    <2>5. c = n
      BY <1>2, <2>4
    <2> QED BY <2>2, <2>3, <2>5
  <1>4. ps \in Injection(1 .. n, S)
    <2>1. ASSUME NEW i \in 1 .. n, NEW j \in 1 .. n, ps[i] = ps[j]
          PROVE  i = j
      <3>1. ~(i < j) /\ ~(j < i)
        BY <1>2, <2>1
      <3> QED BY <1>2, <3>1
    <2> QED BY <1>2, <2>1 DEF Injection, IsInjective
  <1>5. ps \in Surjection(1 .. n, S)
    BY <1>1, <1>3, <1>4, FS_Injection
  <1>6. \A q \in S : \E i \in 1 .. n : ps[i] = q
    BY <1>5 DEF Surjection
  <1>7. DOMAIN ps = 1 .. n
    BY <1>2
  <1> QED BY <1>1, <1>2, <1>6, <1>7 DEF Among

\* The items of a flattened list are those of its members.
LEMMA AmongFlatten ==
  ASSUME NEW T, NEW ss \in Seq(Seq(T)), NEW w
  PROVE  Among(w, FlattenSeq(ss)) <=> \E i \in DOMAIN ss : Among(w, ss[i])
  <1>1. PICK n : n = Len(ss)
    OBVIOUS
  <1>2. /\ n \in Nat /\ DOMAIN ss = 1 .. n
        /\ \A i \in 1 .. n : ss[i] \in Seq(T)
    BY <1>1, LenProperties, ElementOfSeq
  <1>3. CASE n = 0
    <2>1. FlattenSeq(ss) = ss
      BY <1>1, <1>3 DEF FlattenSeq
    <2>2. DOMAIN ss = {}
      BY <1>2, <1>3
    <2> QED BY <2>1, <2>2 DEF Among
  <1>4. CASE n # 0
    <2>1. PICK f : Joins(f, ss, n) /\ FlattenSeq(ss) = f[n]
      BY <1>1, <1>2, <1>4, FlattenJoins
    <2>2. \A i \in 1 .. n : f[i] \in Seq(T)
      BY <1>2, <2>1, JoinsType
    <2> DEFINE In(i) == \E j \in 1 .. i : Among(w, ss[j])
               U == {i \in 1 .. n : ~(Among(w, f[i]) <=> In(i))}
    <2>3. U = {}
      <3>1. SUFFICES ASSUME U # {}
                     PROVE  FALSE
        BY <3>1
      <3>2. PICK i \in U : \A j \in U : i <= j
        <4>1. U \subseteq Nat
          BY <1>2
        <4> HIDE DEF U
        <4> QED BY <3>1, <4>1, LeastNumber
      <3>3. i \in 1 .. n /\ ~(Among(w, f[i]) <=> In(i))
        BY <3>2
      <3>4. CASE i = 1
        <4>1. f[1] = ss[1]
          BY <2>1, <3>3, <3>4 DEF Joins
        <4>2. In(1) <=> Among(w, ss[1])
          OBVIOUS
        <4> QED BY <3>3, <3>4, <4>1, <4>2
      <3>5. CASE i # 1
        <4>1. i - 1 \in 1 .. n /\ i - 1 \notin U
          <5> HIDE DEF U
          <5> QED BY <1>2, <3>2, <3>3, <3>5
        <4>2. Among(w, f[i - 1]) <=> In(i - 1)
          BY <4>1
        <4>3. f[i] = f[i - 1] \o ss[i]
          BY <2>1, <3>3, <3>5 DEF Joins
        <4>4. f[i - 1] \in Seq(T) /\ ss[i] \in Seq(T)
          BY <1>2, <2>2, <3>3, <4>1
        <4>5. Among(w, f[i]) <=> Among(w, f[i - 1]) \/ Among(w, ss[i])
          <5>1. PICK a, b : a = f[i - 1] /\ b = ss[i]
            OBVIOUS
          <5>2. Among(w, a \o b) <=> Among(w, a) \/ Among(w, b)
            BY <4>4, <5>1, AmongJoin
          <5>3. f[i] = a \o b
            BY <4>3, <5>1
          <5> QED BY <5>1, <5>2, <5>3, Zenon
        <4>6. In(i) <=> In(i - 1) \/ Among(w, ss[i])
          <5>1. 1 .. i = (1 .. i - 1) \cup {i}
            BY <1>2, <3>3
          <5> QED BY <5>1
        <4> QED BY <3>3, <4>2, <4>5, <4>6
      <3> QED BY <3>4, <3>5
    <2>4. n \in 1 .. n /\ n \notin U
      <3> HIDE DEF U
      <3> QED BY <1>2, <1>4, <2>3
    <2>5. Among(w, f[n]) <=> In(n)
      BY <2>4
    <2> QED BY <1>2, <2>1, <2>5
  <1> QED BY <1>3, <1>4

-----------------------------------------------------------------------------
(* Trees from above                                                        *)

\* What a node lies below is a directory.
LEMMA TreePrefix ==
  ASSUME NEW t, IsTree(t), NEW p \in DOMAIN t, NEW q \in Path,
         IsPrefix(q, p), q # p
  PROVE  IsDir(t, q)
  <1> DEFINE Bad(n) == \E r \in DOMAIN t : /\ Len(r) = n /\ IsPrefix(q, r)
                                           /\ q # r
             T == {n \in Nat : Bad(n)}
  <1>1. SUFFICES ASSUME ~IsDir(t, q)
                 PROVE  FALSE
    OBVIOUS
  <1>2. DOMAIN t \subseteq Path
    BY DEF IsTree
  <1>3. T # {} /\ T \subseteq Nat
    <2>1. Len(p) \in Nat
      BY <1>2, PathFacts
    <2> QED BY <2>1
  <1>4. PICK n \in T : \A m \in T : n <= m
    <2> HIDE DEF T
    <2> QED BY <1>3, LeastNumber
  <1>5. PICK r \in DOMAIN t : Len(r) = n /\ IsPrefix(q, r) /\ q # r
    BY <1>4
  <1>6. r \in Path /\ Len(q) \in Nat /\ Len(r) \in Nat
    BY <1>2, PathFacts
  <1>7. Extends(q, r)
    BY <1>5, <1>6, PrefixMeans
  <1>8. Len(q) < Len(r)
    <2>1. Len(q) # Len(r)
      BY <1>5, <1>6, <1>7, PathEqual DEF Extends
    <2> QED BY <1>6, <1>7, <2>1 DEF Extends
  <1>9. r # <<>>
    BY <1>6, <1>8, EmptySeq
  <1>10. PICK u : u = Front(r)
    OBVIOUS
  <1>11. /\ u \in Path /\ Len(u) = Len(r) - 1 /\ Extends(u, r)
    BY <1>6, <1>9, <1>10, FrontFacts, PrefixMeans
  <1>12. IsDir(t, u)
    BY <1>5, <1>9, <1>10 DEF IsTree
  <1>13. u \in DOMAIN t /\ u # q
    BY <1>1, <1>12 DEF IsDir, Node, DirKinds
  <1>14. Extends(q, u)
    BY <1>6, <1>7, <1>8, <1>11 DEF Extends
  <1>15. IsPrefix(q, u)
    BY <1>11, <1>14, PrefixMeans
  <1>16. n - 1 \in T
    <2>1. n - 1 \in Nat /\ Len(u) = n - 1
      BY <1>5, <1>6, <1>8, <1>11
    <2> QED BY <1>13, <1>15, <2>1
  <1> QED BY <1>3, <1>4, <1>16

\* Nothing lies below a file.
LEMMA FileAlone ==
  ASSUME NEW t, IsTree(t), NEW p \in Path, ~IsDir(t, p),
         NEW q \in DOMAIN t, IsPrefix(p, q)
  PROVE  q = p
  BY TreePrefix DEF IsTree

\* The way down to a node begins with an entry.
LEMMA ChildAbove ==
  ASSUME NEW t, IsTree(t), NEW p \in Path, NEW q \in DOMAIN t,
         IsPrefix(p, q), p # q
  PROVE  \E c \in Children(t, p) : IsPrefix(c, q)
  <1>1. q \in Path /\ Len(p) \in Nat
    BY PathFacts DEF IsTree
  <1>2. Extends(p, q) /\ Len(q) \in Nat
    BY <1>1, PathFacts, PrefixMeans
  <1>3. Len(p) < Len(q)
    <2>1. Len(p) # Len(q)
      BY <1>1, <1>2, PathEqual DEF Extends
    <2> QED BY <1>1, <1>2, <2>1 DEF Extends
  <1>4. PICK c : c = SubSeq(q, 1, Len(p) + 1)
    OBVIOUS
  <1>5. /\ c \in Path /\ Len(c) = Len(p) + 1
        /\ \A i \in 1 .. Len(p) + 1 : c[i] = q[i]
    BY <1>1, <1>2, <1>3, <1>4, CutFacts DEF IsCut
  <1>6. Extends(p, c) /\ Extends(c, q)
    BY <1>1, <1>2, <1>3, <1>5 DEF Extends
  <1>7. IsPrefix(p, c) /\ IsPrefix(c, q)
    BY <1>1, <1>5, <1>6, PrefixMeans
  <1>8. c \in DOMAIN t
    <2>1. CASE c = q
      BY <2>1
    <2>2. CASE c # q
      <3>1. IsDir(t, c)
        BY <1>5, <1>7, <2>2, TreePrefix
      <3> QED BY <3>1 DEF IsDir, Node, DirKinds
    <2> QED BY <2>1, <2>2
  <1> QED BY <1>5, <1>7, <1>8 DEF Children


-----------------------------------------------------------------------------
(* Where a path goes                                                       *)

\* z is x and y behind it, and they have these lengths.
IsJoin(z, x, k, y, m) ==
  /\ z \in Path /\ Len(z) = k + m
  /\ \A i \in 1 .. k + m : z[i] = IF i <= k THEN x[i] ELSE y[i - k]

\* One path behind another.
LEMMA JoinFacts ==
  ASSUME NEW x \in Path, NEW y \in Path, NEW k, NEW m, k = Len(x), m = Len(y)
  PROVE  IsJoin(x \o y, x, k, y, m)
  <1>1. PICK z : z = x \o y
    OBVIOUS
  <1>2. /\ z \in Path /\ Len(z) = Len(x) + Len(y)
        /\ \A i \in 1 .. Len(x) + Len(y) : z[i] = IF i <= Len(x) THEN x[i]
                                                  ELSE y[i - Len(x)]
    BY <1>1, ConcatProperties DEF Path
  <1>3. IsJoin(z, x, k, y, m)
    BY <1>2 DEF IsJoin
  <1> QED BY <1>1, <1>3

\* The path that q, which is below p, has below to.
At(to, p, q) == to \o SubSeq(q, Len(p) + 1, Len(q))

\* It is to, and behind it what q has behind p.
IsAt(z, to, p, q) ==
  /\ z \in Path /\ Len(z) = Len(to) + (Len(q) - Len(p))
  /\ \A i \in 1 .. Len(to) : z[i] = to[i]
  /\ \A i \in 1 .. Len(q) - Len(p) : z[Len(to) + i] = q[Len(p) + i]

\* That is what At makes of it.
LEMMA AtFacts ==
  ASSUME NEW to \in Path, NEW p \in Path, NEW q \in Path, IsPrefix(p, q)
  PROVE  IsAt(At(to, p, q), to, p, q)
  <1>1. PICK k, m, n : k = Len(to) /\ m = Len(p) /\ n = Len(q)
    OBVIOUS
  <1>2. k \in Nat /\ m \in Nat /\ n \in Nat /\ m <= n
    BY <1>1, PathFacts, PrefixMeans DEF Extends
  <1>3. PICK e : e = SubSeq(q, m + 1, n)
    OBVIOUS
  <1>4. /\ e \in Path /\ Len(e) = n - m
        /\ \A i \in 1 .. n - m : e[i] = q[m + i]
    <2>1. /\ e \in Seq(Nat)
          /\ Len(e) = IF m + 1 <= n THEN n - (m + 1) + 1 ELSE 0
          /\ \A i \in 1 .. n - (m + 1) + 1 : e[i] = q[(m + 1) + i - 1]
      <3>1. \A i \in m + 1 .. n : i \in 1 .. Len(q)
        BY <1>1, <1>2
      <3>2. m + 1 \in 1 .. Len(q) + 1 /\ n \in 0 .. Len(q)
        BY <1>1, <1>2
      <3> QED BY <1>3, <3>1, <3>2, SubSeqProperties DEF Path
    <2>2. \A i \in 1 .. n - m : i \in 1 .. n - (m + 1) + 1 /\ (m + 1) + i - 1 = m + i
      BY <1>2
    <2>3. Len(e) = n - m
      BY <1>2, <2>1
    <2>4. \A i \in 1 .. n - m : e[i] = q[m + i]
      BY <2>1, <2>2
    <2> QED BY <2>1, <2>3, <2>4 DEF Path
  <1>5. PICK z : z = to \o e
    OBVIOUS
  <1>6. /\ z \in Path /\ Len(z) = k + (n - m)
        /\ \A i \in 1 .. k + (n - m) : z[i] = IF i <= k THEN to[i] ELSE e[i - k]
    <2>1. IsJoin(z, to, k, e, n - m)
      BY <1>1, <1>4, <1>5, JoinFacts
    <2> QED BY <2>1 DEF IsJoin
  <1>7. \A i \in 1 .. k : z[i] = to[i]
    BY <1>2, <1>6
  <1>8. \A i \in 1 .. n - m : z[k + i] = q[m + i]
    <2> SUFFICES ASSUME NEW i \in 1 .. n - m
                 PROVE  z[k + i] = q[m + i]
      OBVIOUS
    <2>1. k + i \in 1 .. k + (n - m) /\ ~(k + i <= k) /\ (k + i) - k = i
      BY <1>2
    <2>2. z[k + i] = e[(k + i) - k]
      BY <1>6, <2>1
    <2> QED BY <1>4, <2>1, <2>2
  <1>9. At(to, p, q) = z
    BY <1>1, <1>3, <1>5 DEF At
  <1> QED BY <1>1, <1>6, <1>7, <1>8, <1>9 DEF IsAt

\* And nothing else.
LEMMA AtUnique ==
  ASSUME NEW to \in Path, NEW p \in Path, NEW q \in Path, IsPrefix(p, q),
         NEW z, IsAt(z, to, p, q)
  PROVE  z = At(to, p, q)
  <1>1. PICK k, m, n : k = Len(to) /\ m = Len(p) /\ n = Len(q)
    OBVIOUS
  <1>2. k \in Nat /\ m \in Nat /\ n \in Nat /\ m <= n
    BY <1>1, PathFacts, PrefixMeans DEF Extends
  <1>3. PICK y : y = At(to, p, q)
    OBVIOUS
  <1>4. IsAt(y, to, p, q)
    BY <1>3, AtFacts
  <1>5. /\ y \in Path /\ z \in Path /\ Len(y) = k + (n - m) /\ Len(z) = k + (n - m)
        /\ \A i \in 1 .. k : y[i] = z[i]
        /\ \A i \in 1 .. n - m : y[k + i] = z[k + i]
    BY <1>1, <1>4 DEF IsAt
  <1>6. ASSUME NEW i \in 1 .. k + (n - m)
        PROVE  y[i] = z[i]
    <2>1. CASE i <= k
      BY <1>2, <1>5, <2>1
    <2>2. CASE ~(i <= k)
      <3>1. i - k \in 1 .. n - m /\ k + (i - k) = i
        BY <1>2, <2>2
      <3> QED BY <1>5, <3>1
    <2> QED BY <2>1, <2>2
  <1>7. y = z
    BY <1>5, <1>6, PathEqual
  <1> QED BY <1>3, <1>7

\* The root of what is copied goes to the place itself.
LEMMA AtSelf ==
  ASSUME NEW to \in Path, NEW p \in Path
  PROVE  At(to, p, p) = to
  <1>1. Len(p) \in Nat /\ Len(to) \in Nat
    BY PathFacts
  <1>2. 1 .. Len(p) - Len(p) = {} /\ Len(to) = Len(to) + (Len(p) - Len(p))
    BY <1>1
  <1>3. IsAt(to, to, p, p)
    BY <1>2 DEF IsAt
  <1> QED BY <1>3, AtUnique, PrefixReflexive

\* A path in two parts.
LEMMA AtCompose ==
  ASSUME NEW to \in Path, NEW s \in Path, NEW p \in Path, NEW q \in Path,
         IsPrefix(s, p), IsPrefix(p, q)
  PROVE  At(At(to, s, p), p, q) = At(to, s, q)
  <1>1. PICK k, l, m, n : k = Len(to) /\ l = Len(s) /\ m = Len(p) /\ n = Len(q)
    OBVIOUS
  <1>2. /\ k \in Nat /\ l \in Nat /\ m \in Nat /\ n \in Nat /\ l <= m /\ m <= n
        /\ \A i \in 1 .. m : p[i] = q[i]
    BY <1>1, PathFacts, PrefixMeans DEF Extends
  <1>3. PICK y : y = At(to, s, p)
    OBVIOUS
  <1>4. IsAt(y, to, s, p)
    BY <1>3, AtFacts
  <1>5. /\ y \in Path /\ Len(y) = k + (m - l)
        /\ \A i \in 1 .. k : y[i] = to[i]
        /\ \A i \in 1 .. m - l : y[k + i] = p[l + i]
    BY <1>1, <1>4 DEF IsAt
  <1>6. PICK z : z = At(y, p, q)
    OBVIOUS
  <1>7. IsAt(z, y, p, q)
    BY <1>5, <1>6, AtFacts
  <1>8. PICK j : j = k + (m - l)
    OBVIOUS
  <1>9. /\ z \in Path /\ Len(z) = j + (n - m)
        /\ \A i \in 1 .. j : z[i] = y[i]
        /\ \A i \in 1 .. n - m : z[j + i] = q[m + i]
    BY <1>1, <1>5, <1>7, <1>8 DEF IsAt
  <1>10. \A i \in 1 .. k : z[i] = to[i]
    BY <1>2, <1>5, <1>8, <1>9
  <1>11. ASSUME NEW i \in 1 .. n - l
         PROVE  z[k + i] = q[l + i]
    <2>1. CASE i <= m - l
      <3>1. i \in 1 .. m - l /\ k + i \in 1 .. j /\ l + i \in 1 .. m
        BY <1>2, <1>8, <2>1
      <3> QED BY <1>2, <1>5, <1>9, <3>1
    <2>2. CASE ~(i <= m - l)
      <3>1. PICK h : h = i - (m - l)
        OBVIOUS
      <3>2. h \in 1 .. n - m /\ j + h = k + i /\ m + h = l + i
        BY <1>2, <1>8, <2>2, <3>1
      <3> QED BY <1>9, <3>2
    <2> QED BY <2>1, <2>2
  <1>12. Len(z) = k + (n - l)
    BY <1>2, <1>8, <1>9
  <1>13. IsAt(z, to, s, q)
    BY <1>1, <1>9, <1>10, <1>11, <1>12 DEF IsAt
  <1>14. IsPrefix(s, q)
    BY PrefixTransitive
  <1>15. z = At(to, s, q)
    BY <1>13, <1>14, AtUnique
  <1> QED BY <1>3, <1>6, <1>15

\* An entry goes to its name in the place of its directory.
LEMMA AtChild ==
  ASSUME NEW to \in Path, NEW p \in Path, NEW c \in Path,
         Len(c) = Len(p) + 1, IsPrefix(p, c)
  PROVE  to \o Base(c) = At(to, p, c)
  <1>1. PICK k, m : k = Len(to) /\ m = Len(p)
    OBVIOUS
  <1>2. k \in Nat /\ m \in Nat /\ Len(c) = m + 1
    BY <1>1, PathFacts
  <1>3. c # <<>>
    BY <1>2, EmptySeq
  <1>4. PICK b : b = Base(c)
    OBVIOUS
  <1>5. b \in Path /\ Len(b) = 1 /\ b[1] = c[m + 1]
    <2>1. b = <<c[m + 1]>>
      BY <1>2, <1>3, <1>4 DEF Base, Last
    <2>2. b \in Path
      BY <1>4, BaseType
    <2> QED BY <2>1, <2>2
  <1>6. PICK z : z = to \o b
    OBVIOUS
  <1>7. /\ z \in Path /\ Len(z) = k + 1
        /\ \A i \in 1 .. k + 1 : z[i] = IF i <= k THEN to[i] ELSE b[i - k]
    <2>1. IsJoin(z, to, k, b, 1)
      BY <1>1, <1>5, <1>6, JoinFacts
    <2> QED BY <2>1 DEF IsJoin
  <1>8. \A i \in 1 .. k : z[i] = to[i]
    BY <1>2, <1>7
  <1>9. z[k + 1] = c[m + 1]
    <2>1. k + 1 \in 1 .. k + 1 /\ ~(k + 1 <= k) /\ (k + 1) - k = 1
      BY <1>2
    <2>2. z[k + 1] = b[(k + 1) - k]
      BY <1>7, <2>1
    <2> QED BY <1>5, <2>1, <2>2
  <1>10. (m + 1) - m = 1 /\ \A i \in 1 .. 1 : i = 1
    BY <1>2
  <1>11. IsAt(z, to, p, c)
    BY <1>1, <1>2, <1>7, <1>8, <1>9, <1>10 DEF IsAt
  <1>12. z = At(to, p, c)
    BY <1>11, AtUnique
  <1> QED BY <1>4, <1>6, <1>12


-----------------------------------------------------------------------------
(* The files that the arguments denote                                     *)

Old == tree0[From]

Pair(q, z) == [from |-> q, to |-> z]

\* What an argument names, and where a file q below one of these goes.
Roots(s) ==
  IF s.glob = {} THEN {s.path}
  ELSE {q \in Children(Old, s.path) : Last(q) \in s.glob}

Aim(s, r, q) ==
  IF s.glob # {} /\ ~SrcRemote THEN Dest(q) ELSE At(Dest(r), r, q)

Denotes(s, r, q) ==
  s \in ToSet(cmd.sources) /\ r \in Roots(s) /\ q \in FilesBelow(Old, r)

\* Denoted, file by file.
LEMMA DenotedMeans ==
  \A f : f \in Denoted <=>
           \E s, r, q : Denotes(s, r, q) /\ f = Pair(q, Aim(s, r, q))
  <1> DEFINE below(s, r) == {Pair(q, Aim(s, r, q)) : q \in FilesBelow(Old, r)}
  <1>1. Denoted = UNION {UNION {below(s, r) : r \in Roots(s)} :
                           s \in ToSet(cmd.sources)}
    BY Zenon DEF Denoted, Roots, Aim, Pair, At, Old
  <1>2. \A f : f \in Denoted <=>
                 \E s \in ToSet(cmd.sources) : \E r \in Roots(s) : f \in below(s, r)
    BY <1>1
  <1>3. \A f, s, r : f \in below(s, r) <=>
                       \E q \in FilesBelow(Old, r) : f = Pair(q, Aim(s, r, q))
    OBVIOUS
  <1> HIDE DEF below
  <1>4. TAKE f
  <1>5. ASSUME f \in Denoted
        PROVE  \E s, r, q : Denotes(s, r, q) /\ f = Pair(q, Aim(s, r, q))
    <2>1. PICK s \in ToSet(cmd.sources) : \E r \in Roots(s) : f \in below(s, r)
      BY <1>2, <1>5
    <2>2. PICK r \in Roots(s) : f \in below(s, r)
      BY <2>1
    <2>3. PICK q \in FilesBelow(Old, r) : f = Pair(q, Aim(s, r, q))
      BY <1>3, <2>2
    <2>4. Denotes(s, r, q)
      BY <2>1, <2>2, <2>3 DEF Denotes
    <2> QED BY <2>3, <2>4
  <1>6. ASSUME NEW s, NEW r, NEW q, Denotes(s, r, q), f = Pair(q, Aim(s, r, q))
        PROVE  f \in Denoted
    <2>1. f \in below(s, r)
      BY <1>3, <1>6 DEF Denotes
    <2> QED BY <1>2, <1>6, <2>1 DEF Denotes
  <1> QED BY <1>5, <1>6

\* The arguments and the source decide it.
LEMMA StaticDenoted ==
  ASSUME UNCHANGED <<cmd, tree0>>
  PROVE  Denoted' = Denoted
  BY DEF Denoted, Dest, AsDirectory, Multiple, SrcRemote, From


-----------------------------------------------------------------------------
(* What is promised                                                        *)

\* Where an item goes.
Goal(w) == IF w.op = "single" /\ w.slash THEN w.to \o Base(w.from) ELSE w.to

Named == ~(Multiple /\ SrcRemote)

\* A directory without -r: the command will fail.
Doomed(w) == w.op = "single" /\ ~cmd.recursive /\ IsDir(Old, w.from)

\* The item brings this file to its place.
Covers(w, f) ==
  IF w.op = "file" THEN f = Pair(w.from, Goal(w))
  ELSE IsPrefix(w.from, f.from) /\ f.to = At(Goal(w), w.from, f.from)

\* What the item brings is what the arguments ask for.
Sound(w) ==
  \A q \in FilesBelow(Old, w.from) : Pair(q, At(Goal(w), w.from, q)) \in Denoted

Placed(f) ==
  /\ IsFile(tree[To], f.to)
  /\ MustBeExact(f) => Node(tree[To], f.to) = Node(Old, f.from)

\* An upload that met nothing longer at the start still meets nothing longer.
Clean(f) ==
  /\ ~SrcRemote /\ ~interrupted
  /\ <<Node(tree0[To], f.to), Node(Old, f.from)>> \notin Longer
  => <<Node(tree[To], f.to), Node(Old, f.from)>> \notin Longer

Alone(f) == \A g \in Denoted : g.to = f.to => g = f

SoundWork == \A w : Among(w, work) => Doomed(w) \/ Sound(w)

Promised ==
  \A f \in Denoted : Alone(f) =>
    Placed(f) \/ \E w : Among(w, work) /\ (Doomed(w) \/ Covers(w, f))

Unspoilt == \A f \in Denoted : Alone(f) => Clean(f)

WorkInv ==
  /\ pc # "exit" => outcome = "none"
  /\ pc = "copy" /\ Named => SoundWork /\ Promised /\ Unspoilt
  /\ SuccessMeansCopied

\* The tree that is copied.
LEMMA OldFacts ==
  ASSUME CopyInv
  PROVE  /\ IsTree(Old) /\ tree[From] = Old /\ IsFiniteSet(DOMAIN Old)
         /\ DOMAIN Old \subseteq Path
  BY SourceFacts, Sides DEF CopyInv, TreesInv, Old

\* A destination is a path.
LEMMA DestType ==
  ASSUME cmd \in Commands, NEW p \in Path
  PROVE  Dest(p) \in Path
  <1>1. PICK e : e = IF AsDirectory THEN Base(p) ELSE <<>>
    OBVIOUS
  <1>2. e \in Path
    BY <1>1, BaseType, EmptySeq DEF Path
  <1>3. Dest(p) = cmd.dst.path \o e
    BY <1>1 DEF Dest
  <1>4. cmd.dst.path \in Path
    BY ArgFacts
  <1> QED BY <1>2, <1>3, <1>4, JoinExtends, PrefixReflexive

\* A source goes to its destination.
LEMMA SingleGoal ==
  ASSUME cmd \in Commands, Named, NEW p \in Path
  PROVE  /\ Single(p).op = "single" /\ Single(p).from = p
         /\ Goal(Single(p)) = Dest(p)
  <1>1. PICK w : w = Single(p)
    OBVIOUS
  <1>2. /\ w.op = "single" /\ w.from = p /\ w.to = SourceTarget(p).path
        /\ w.slash = SourceTarget(p).slash
    BY <1>1 DEF Single, Item
  <1>3. cmd.dst.path \in Path /\ cmd.dst.slash \in BOOLEAN
    BY ArgFacts
  <1>4. cmd.dst.path \o <<>> = cmd.dst.path
    BY <1>3, ConcatEmptySeq DEF Path
  <1>5. CASE Multiple
    <2>1. ~SrcRemote /\ AsDirectory
      BY <1>5 DEF Named, AsDirectory
    <2>2. w.to = cmd.dst.path \o Base(p) /\ w.slash = FALSE
      BY <1>2, <1>5, <2>1 DEF SourceTarget
    <2>3. Dest(p) = cmd.dst.path \o Base(p)
      BY <2>1 DEF Dest
    <2> QED BY <1>1, <1>2, <2>2, <2>3 DEF Goal
  <1>6. CASE ~Multiple
    <2>1. w.to = cmd.dst.path /\ w.slash = cmd.dst.slash
      BY <1>2, <1>6 DEF SourceTarget
    <2>2. CASE cmd.dst.slash
      <3>1. Dest(p) = cmd.dst.path \o Base(p)
        BY <2>2 DEF Dest, AsDirectory
      <3> QED BY <1>1, <1>2, <2>1, <2>2, <3>1 DEF Goal
    <2>3. CASE ~cmd.dst.slash
      <3>1. Dest(p) = cmd.dst.path
        BY <1>4, <1>6, <2>3 DEF Dest, AsDirectory
      <3> QED BY <1>1, <1>2, <2>1, <2>3, <3>1 DEF Goal
    <2> QED BY <2>2, <2>3
  <1> QED BY <1>5, <1>6

\* The goal of an item is a path, and that of a walk or a file its target.
LEMMA GoalType ==
  ASSUME NEW w \in Todo
  PROVE  Goal(w) \in Path /\ (w.op # "single" => Goal(w) = w.to)
  <1>1. w.from \in Path /\ w.to \in Path
    BY ItemFacts
  <1>2. w.to \o Base(w.from) \in Path
    BY <1>1, BaseType, JoinExtends, PrefixReflexive
  <1> QED BY <1>1, <1>2 DEF Goal

\* What is denoted is a file.
LEMMA DenotedFacts ==
  ASSUME CopyInv, NEW f \in Denoted
  PROVE  /\ f = Pair(f.from, f.to) /\ f.from \in DOMAIN Old
         /\ f.from \in Path /\ IsFile(Old, f.from)
  <1>1. PICK s, r, q : Denotes(s, r, q) /\ f = Pair(q, Aim(s, r, q))
    BY DenotedMeans
  <1>2. PICK z : z = Aim(s, r, q)
    OBVIOUS
  <1>3. f.from = q /\ f.to = z /\ f = Pair(q, z)
    BY <1>1, <1>2 DEF Pair
  <1>4. q \in DOMAIN Old /\ IsFile(Old, q)
    BY <1>1 DEF Denotes, FilesBelow
  <1> QED BY <1>3, <1>4, OldFacts

\* The arguments and the source decide what is asked for.
LEMMA StaticWork ==
  ASSUME UNCHANGED <<cmd, tree0>>
  PROVE  /\ Denoted' = Denoted /\ Named' = Named /\ Old' = Old /\ To' = To
         /\ \A w : Doomed(w)' = Doomed(w)
         /\ \A w : Sound(w)' = Sound(w)
         /\ \A f : Alone(f)' = Alone(f)
  <1>1. Denoted' = Denoted
    BY StaticDenoted
  <1>2. Named' = Named /\ Old' = Old /\ To' = To
    BY DEF Named, Multiple, Old, From, To, SrcRemote
  <1>3. \A w : Doomed(w)' = Doomed(w)
    BY <1>2 DEF Doomed
  <1>4. \A w : Sound(w)' = Sound(w)
    BY <1>1, <1>2 DEF Sound
  <1>5. \A f : Alone(f)' = Alone(f)
    BY <1>1 DEF Alone
  <1> QED BY <1>1, <1>2, <1>3, <1>4, <1>5


-----------------------------------------------------------------------------
(* The steps                                                               *)

\* The next item is replaced by others that do its work, and what has been
\* placed stays.
LEMMA Advance ==
  ASSUME CopyInv, WorkInv, pc = "copy", work # <<>>,
         UNCHANGED <<cmd, tree0, pc, outcome>>,
         NEW new \in Seq(Todo), work' = new \o Tail(work),
         ~Doomed(Head(work)),
         Sound(Head(work)) => \A v : Among(v, new) => Sound(v),
         Named => \A f \in Denoted : Alone(f) /\ Placed(f) => Placed(f)',
         Named => \A f \in Denoted : Alone(f) /\ Clean(f) => Clean(f)',
         Named => \A f \in Denoted : Alone(f) /\ Covers(Head(work), f) =>
           Placed(f)' \/ \E v : Among(v, new) /\ Covers(v, f)
  PROVE  WorkInv'
  <1>1. outcome = "none" /\ outcome' = "none" /\ pc' = "copy"
    BY DEF WorkInv
  <1>2. SuccessMeansCopied'
    BY <1>1 DEF SuccessMeansCopied
  <1>3. SUFFICES ASSUME Named
                 PROVE  SoundWork' /\ Promised' /\ Unspoilt'
    BY <1>1, <1>2, StaticWork DEF WorkInv
  <1>4. SoundWork /\ Promised /\ Unspoilt
    BY <1>3 DEF WorkInv
  <1>5. \A w : Among(w, work) <=> w = Head(work) \/ Among(w, Tail(work))
    BY AmongTail DEF CopyInv
  <1>6. \A w : Among(w, work)' <=> Among(w, new) \/ Among(w, Tail(work))
    <2>1. PICK t : t = Tail(work)
      OBVIOUS
    <2>2. t \in Seq(Todo)
      BY <2>1, WorkFacts DEF CopyInv
    <2>3. PICK z : z = new \o t
      OBVIOUS
    <2>4. \A w : Among(w, z) <=> Among(w, new) \/ Among(w, t)
      BY <2>2, <2>3, AmongJoin
    <2>5. work' = z
      BY <2>1, <2>3
    <2>6. \A w : Among(w, work)' <=> Among(w, z)
      BY <2>5 DEF Among
    <2> QED BY <2>1, <2>4, <2>6
  <1>7. Sound(Head(work))
    BY <1>4, <1>5 DEF SoundWork
  <1>8. \A w : Among(w, work)' => Doomed(w) \/ Sound(w)
    BY <1>4, <1>5, <1>6, <1>7 DEF SoundWork
  <1>9. SoundWork'
    BY <1>8, StaticWork DEF SoundWork
  <1>10. ASSUME NEW f \in Denoted, Alone(f)
         PROVE  Placed(f)' \/ \E w : Among(w, work)' /\ (Doomed(w) \/ Covers(w, f))
    <2>1. Placed(f) \/ \E w : Among(w, work) /\ (Doomed(w) \/ Covers(w, f))
      BY <1>4, <1>10 DEF Promised
    <2>2. CASE Placed(f)
      BY <1>3, <1>10, <2>2
    <2>3. CASE \E w : Among(w, work) /\ (Doomed(w) \/ Covers(w, f))
      <3>1. PICK w : Among(w, work) /\ (Doomed(w) \/ Covers(w, f))
        BY <2>3
      <3>2. CASE w = Head(work)
        <4>1. Covers(Head(work), f)
          BY <3>1, <3>2
        <4> QED BY <1>3, <1>6, <1>10, <4>1
      <3>3. CASE Among(w, Tail(work))
        BY <1>6, <3>1, <3>3
      <3> QED BY <1>5, <3>1, <3>2, <3>3
    <2> QED BY <2>1, <2>2, <2>3
  <1>11. Promised'
    BY <1>10, StaticWork DEF Promised, Covers
  <1>12. Unspoilt'
    BY <1>3, <1>4, StaticWork DEF Unspoilt
  <1> QED BY <1>9, <1>11, <1>12

\* A command that has failed promises nothing.
LEMMA Fails ==
  ASSUME Exit("err")
  PROVE  WorkInv'
  BY DEF Exit, WorkInv, SuccessMeansCopied

\* What must be exact after a step had to be before it.
LEMMA ExactBefore ==
  ASSUME UNCHANGED <<cmd, tree0>>, interrupted => interrupted', NEW f
  PROVE  MustBeExact(f)' => MustBeExact(f)
  BY DEF MustBeExact, SrcRemote, To, From

\* A file is in its place still when the node there is the same.
LEMMA PlacedStays ==
  ASSUME UNCHANGED <<cmd, tree0>>, interrupted => interrupted',
         NEW f, Placed(f), Node(tree'[To], f.to) = Node(tree[To], f.to)
  PROVE  Placed(f)'
  <1>1. Node(tree[To], f.to)' = Node(tree[To], f.to)
    BY StaticWork
  <1>2. IsFile(tree[To], f.to)'
    BY <1>1 DEF Placed, IsFile
  <1>3. MustBeExact(f)' => Node(tree[To], f.to)' = Node(Old, f.from)'
    <2>1. Node(Old, f.from)' = Node(Old, f.from)
      BY StaticWork DEF Node
    <2> QED BY <1>1, <2>1, ExactBefore DEF Placed
  <1> QED BY <1>2, <1>3 DEF Placed

\* And nothing longer is where a directory or an empty file has been made.
LEMMA CleanStays ==
  ASSUME UNCHANGED <<cmd, tree0>>, interrupted => interrupted', NEW f, Clean(f),
         \/ Node(tree'[To], f.to) = Node(tree[To], f.to)
         \/ Node(tree'[To], f.to) \in DirKinds \cup {"empty"}
  PROVE  Clean(f)'
  <1>1. /\ Node(tree[To], f.to)' = Node(tree'[To], f.to)
        /\ Node(tree0[To], f.to)' = Node(tree0[To], f.to)
        /\ Node(Old, f.from)' = Node(Old, f.from) /\ SrcRemote' = SrcRemote
    BY StaticWork DEF Node, SrcRemote
  <1>2. \A n, m : n \in DirKinds \cup {"empty"} => <<n, m>> \notin Longer
    BY CopyAssumption
  <1> QED BY <1>1, <1>2 DEF Clean

\* A step that writes nothing changes none of this.
LEMMA PlacedSame ==
  ASSUME UNCHANGED <<cmd, tree0, tree>>, interrupted => interrupted'
  PROVE  \A f : (Placed(f) => Placed(f)') /\ (Clean(f) => Clean(f)')
  BY PlacedStays, CleanStays

\* What copySingle makes of a source.
Turned(v, w) ==
  /\ v.from = w.from /\ Goal(v) = Goal(w)
  /\ v.op = IF IsDir(Old, w.from) THEN "walk" ELSE "file"
  /\ IsDir(Old, w.from) => cmd.recursive

\* A walk or a transfer with the same goal, or a failure for a directory
\* without -r.
LEMMA SingleTurns ==
  ASSUME CopyInv, CopySingle
  PROVE  \/ Exit("err") /\ IsDir(Old, Head(work).from) /\ ~cmd.recursive
         \/ /\ UNCHANGED <<pc, outcome>>
            /\ \E v \in Todo : /\ work' = <<v>> \o Tail(work)
                               /\ Turned(v, Head(work))
  <1>1. pc = "copy" /\ work # <<>> /\ Head(work).op = "single"
    BY DEF CopySingle, Current
  <1>2. PICK w : w = Head(work)
    OBVIOUS
  <1>3. w \in Todo /\ w.from \in Path /\ w.to \in Path /\ w.op = "single"
    BY <1>1, <1>2, WorkFacts, ItemFacts DEF CopyInv
  <1>4. PICK to : to = w.to \o (IF w.slash THEN Base(w.from) ELSE <<>>)
    OBVIOUS
  <1>5. to = Goal(w) /\ to \in Path
    <2>1. w.to \o <<>> = w.to
      BY <1>3, ConcatEmptySeq DEF Path
    <2>2. to = Goal(w)
      BY <1>3, <1>4, <2>1 DEF Goal
    <2> QED BY <1>3, <2>2, GoalType
  <1>6. tree[From] = Old
    BY OldFacts
  <1>7. ASSUME NEW op \in {"walk", "file"}, Replace(op, to),
               op = IF IsDir(Old, w.from) THEN "walk" ELSE "file",
               IsDir(Old, w.from) => cmd.recursive
        PROVE  \E v \in Todo : work' = <<v>> \o Tail(work) /\ Turned(v, w)
    <2>1. PICK v : v = Item(op, w.from, to, FALSE)
      OBVIOUS
    <2>2. v.op = op /\ v.from = w.from /\ v.to = to /\ v.slash = FALSE
      BY <2>1 DEF Item
    <2>3. v \in Todo
      <3>1. op \in Ops /\ (op = "walk" => IsDir(tree0[From], w.from))
        BY <1>7 DEF Ops, Old
      <3>2. IsPrefix(cmd.dst.path, to)
        <4>1. IsPrefix(cmd.dst.path, w.to) /\ cmd.dst.path \in Path
          BY <1>3, ItemFacts, ArgFacts DEF CopyInv, ControlInv
        <4>2. IsPrefix(cmd.dst.path, w.to \o Base(w.from))
          BY <1>3, <4>1, BaseType, JoinExtends
        <4> QED BY <1>5, <4>1, <4>2 DEF Goal
      <3> QED BY <1>3, <1>5, <2>1, <3>1, <3>2, ItemType
    <2>4. work' = <<v>> \o Tail(work)
      BY <1>2, <1>7, <2>1 DEF Replace
    <2>5. Goal(v) = Goal(w)
      BY <1>5, <2>2 DEF Goal
    <2> QED BY <1>7, <2>2, <2>3, <2>4, <2>5 DEF Turned
  <1>8. \/ Replace("file", to) /\ UNCHANGED <<pc, outcome>> /\ ~IsDir(Old, w.from)
        \/ /\ IsDir(Old, w.from) /\ cmd.recursive /\ Replace("walk", to)
           /\ UNCHANGED <<pc, outcome>>
        \/ Exit("err") /\ IsDir(Old, w.from) /\ ~cmd.recursive
    BY <1>2, <1>4, <1>6 DEF CopySingle
  <1> QED BY <1>2, <1>7, <1>8

\* copySingle: the walk or the transfer does what the source asked for.
LEMMA SingleWorks ==
  ASSUME CopyInv, WorkInv, CopySingle
  PROVE  WorkInv'
  <1>1. /\ pc = "copy" /\ work # <<>> /\ Head(work).op = "single"
        /\ UNCHANGED <<cmd, tree, faults, interrupted, tree0>>
    BY DEF CopySingle, Current
  <1>2. PICK w : w = Head(work)
    OBVIOUS
  <1>3. w \in Todo /\ w.from \in Path /\ w.op = "single" /\ Goal(w) \in Path
    BY <1>1, <1>2, WorkFacts, ItemFacts, GoalType DEF CopyInv
  <1>4. ASSUME NEW v \in Todo, work' = <<v>> \o Tail(work), Turned(v, w),
               UNCHANGED <<pc, outcome>>
        PROVE  WorkInv'
    <2>1. /\ v.from = w.from /\ Goal(v) = Goal(w)
          /\ v.op = IF IsDir(Old, w.from) THEN "walk" ELSE "file"
          /\ IsDir(Old, w.from) => cmd.recursive
      BY <1>4 DEF Turned
    <2>2. PICK new : new = <<v>>
      OBVIOUS
    <2>3. /\ new \in Seq(Todo) /\ work' = new \o Tail(work)
          /\ \A x : Among(x, new) <=> x = v
      BY <1>4, <2>2 DEF Among
    <2>4. Sound(w) => Sound(v)
      BY <2>1 DEF Sound
    <2>5. \A f \in Denoted : Covers(w, f) => Covers(v, f)
      <3> SUFFICES ASSUME NEW f \in Denoted, Covers(w, f)
                   PROVE  Covers(v, f)
        OBVIOUS
      <3>1. IsPrefix(w.from, f.from) /\ f.to = At(Goal(w), w.from, f.from)
        BY <1>3 DEF Covers
      <3>2. CASE IsDir(Old, w.from)
        BY <2>1, <3>1, <3>2 DEF Covers
      <3>3. CASE ~IsDir(Old, w.from)
        <4>1. f = Pair(f.from, f.to) /\ f.from \in DOMAIN Old
          BY DenotedFacts
        <4>2. f.from = w.from
          BY <1>3, <3>1, <3>3, <4>1, FileAlone, OldFacts
        <4>3. f.to = Goal(w)
          BY <1>3, <3>1, <4>2, AtSelf
        <4> QED BY <2>1, <3>3, <4>1, <4>2, <4>3 DEF Covers
      <3> QED BY <3>2, <3>3
    <2>6. UNCHANGED <<cmd, tree0, pc, outcome>>
      BY <1>1, <1>4
    <2>7. ~Doomed(Head(work)) /\
            (Sound(Head(work)) => \A x : Among(x, new) => Sound(x))
      BY <1>2, <2>1, <2>3, <2>4 DEF Doomed
    <2>8. /\ \A f \in Denoted : Alone(f) /\ Placed(f) => Placed(f)'
          /\ \A f \in Denoted : Alone(f) /\ Clean(f) => Clean(f)'
      BY <1>1, PlacedSame
    <2>9. \A f \in Denoted : Alone(f) /\ Covers(Head(work), f) =>
            Placed(f)' \/ \E x : Among(x, new) /\ Covers(x, f)
      BY <1>2, <2>3, <2>5
    <2> QED BY <1>1, <2>3, <2>6, <2>7, <2>8, <2>9, Advance
  <1> QED BY <1>2, <1>4, SingleTurns, Fails

\* The entry c of a directory that goes to to.
Entry(c, to) ==
  Item(IF IsDir(Old, c) THEN "walk" ELSE "file", c, to \o Base(c), FALSE)

\* The list that takes the place of a directory holds all its entries.
LEMMA DescendEntries ==
  ASSUME CopyInv, NEW p \in Path, NEW to \in Path, work # <<>>,
         IsPrefix(cmd.dst.path, to), Descend(p, to)
  PROVE  \E new \in Seq(Todo) :
           /\ work' = new \o Tail(work)
           /\ \A v : Among(v, new) <=> \E c \in Children(Old, p) : v = Entry(c, to)
  <1>1. PICK ps, new : /\ ps = Sorted(Children(tree[From], p))
                       /\ IsListing(new, ps, to) /\ new \in Seq(Todo)
                       /\ work' = new \o Tail(work)
    BY DescendLists
  <1>2. tree[From] = Old /\ IsFiniteSet(DOMAIN Old) /\ DOMAIN Old \subseteq Path
    BY OldFacts
  <1>3. PICK S : S = Children(Old, p)
    OBVIOUS
  <1>4. S \in SUBSET Path /\ IsFiniteSet(S)
    <2>1. S \subseteq DOMAIN Old
      BY <1>3 DEF Children
    <2> QED BY <1>2, <2>1, FS_Subset
  <1>5. \A c : Among(c, ps) <=> c \in S
    BY <1>1, <1>2, <1>3, <1>4, AmongSorted
  <1>6. new = [i \in DOMAIN ps |-> Entry(ps[i], to)]
    BY <1>1, <1>2 DEF IsListing, Entry
  <1>7. \A v : Among(v, new) <=> \E c : Among(c, ps) /\ v = Entry(c, to)
    BY <1>6 DEF Among
  <1>8. \A v : Among(v, new) <=> \E c \in S : v = Entry(c, to)
    BY <1>5, <1>7
  <1> QED BY <1>1, <1>3, <1>8

\* What an entry of a directory is.
LEMMA EntryFacts ==
  ASSUME CopyInv, NEW p \in Path, NEW to \in Path, NEW c \in Children(Old, p)
  PROVE  /\ c \in DOMAIN Old /\ c \in Path /\ IsPrefix(p, c)
         /\ Entry(c, to).from = c /\ Goal(Entry(c, to)) = At(to, p, c)
         /\ Entry(c, to).op = IF IsDir(Old, c) THEN "walk" ELSE "file"
  <1>1. c \in DOMAIN Old /\ Len(c) = Len(p) + 1 /\ IsPrefix(p, c)
    BY DEF Children
  <1>2. c \in Path
    BY <1>1, OldFacts
  <1>3. to \o Base(c) = At(to, p, c)
    BY <1>1, <1>2, AtChild
  <1>4. PICK v : v = Entry(c, to)
    OBVIOUS
  <1>5. /\ v.op = IF IsDir(Old, c) THEN "walk" ELSE "file"
        /\ v.from = c /\ v.to = to \o Base(c) /\ v.slash = FALSE
    BY <1>4 DEF Entry, Item
  <1>6. Goal(v) = v.to
    BY <1>5 DEF Goal
  <1> QED BY <1>1, <1>2, <1>3, <1>4, <1>5, <1>6

\* A walk that has come to a directory goes on with its entries, each at its
\* place.
LEMMA WalkWorks ==
  ASSUME CopyInv, WorkInv, Current("walk"),
         UNCHANGED <<cmd, tree0, pc, outcome>>,
         Descend(Head(work).from, Head(work).to),
         \A f \in Denoted : Placed(f) => Placed(f)',
         \A f \in Denoted : Clean(f) => Clean(f)'
  PROVE  WorkInv'
  <1>1. pc = "copy" /\ work # <<>> /\ Head(work).op = "walk"
    BY DEF Current
  <1>2. PICK w : w = Head(work)
    OBVIOUS
  <1>3. PICK p, to : p = w.from /\ to = w.to
    OBVIOUS
  <1>4. /\ w \in Todo /\ p \in Path /\ to \in Path /\ w.op = "walk"
        /\ IsPrefix(cmd.dst.path, to) /\ IsDir(Old, p)
    BY <1>1, <1>2, <1>3, WorkFacts, ItemFacts DEF CopyInv, Old
  <1>5. Goal(w) = to
    BY <1>3, <1>4, GoalType
  <1>6. PICK new \in Seq(Todo) :
          /\ work' = new \o Tail(work)
          /\ \A v : Among(v, new) <=> \E c \in Children(Old, p) : v = Entry(c, to)
    BY <1>1, <1>2, <1>3, <1>4, DescendEntries
  <1>7. ~Doomed(w)
    BY <1>4 DEF Doomed
  <1>8. ASSUME Sound(w), NEW c \in Children(Old, p)
        PROVE  Sound(Entry(c, to))
    <2>1. PICK v : v = Entry(c, to)
      OBVIOUS
    <2>2. /\ c \in Path /\ IsPrefix(p, c) /\ v.from = c
          /\ Goal(v) = At(to, p, c)
      BY <1>4, <2>1, EntryFacts
    <2>3. ASSUME NEW q \in FilesBelow(Old, c)
          PROVE  Pair(q, At(Goal(v), c, q)) \in Denoted
      <3>1. q \in DOMAIN Old /\ IsPrefix(c, q) /\ IsFile(Old, q)
        BY DEF FilesBelow
      <3>2. q \in Path /\ IsPrefix(p, q)
        BY <1>4, <2>2, <3>1, OldFacts, PrefixTransitive
      <3>3. q \in FilesBelow(Old, p)
        BY <3>1, <3>2 DEF FilesBelow
      <3>4. Pair(q, At(to, p, q)) \in Denoted
        BY <1>3, <1>5, <1>8, <3>3 DEF Sound
      <3>5. At(Goal(v), c, q) = At(to, p, q)
        BY <1>4, <2>2, <3>1, <3>2, AtCompose
      <3> QED BY <3>4, <3>5
    <2> QED BY <2>1, <2>2, <2>3 DEF Sound
  <1>9. ASSUME NEW f \in Denoted, Covers(w, f)
        PROVE  \E c \in Children(Old, p) : Covers(Entry(c, to), f)
    <2>1. IsPrefix(p, f.from) /\ f.to = At(to, p, f.from)
      BY <1>3, <1>4, <1>5, <1>9 DEF Covers
    <2>2. /\ f = Pair(f.from, f.to) /\ f.from \in DOMAIN Old
          /\ f.from \in Path /\ IsFile(Old, f.from)
      BY DenotedFacts
    <2>3. p # f.from
      BY <1>4, <2>2 DEF IsDir, IsFile
    <2>4. PICK c \in Children(Old, p) : IsPrefix(c, f.from)
      BY <1>4, <2>1, <2>2, <2>3, ChildAbove, OldFacts
    <2>5. PICK v : v = Entry(c, to)
      OBVIOUS
    <2>6. /\ c \in Path /\ IsPrefix(p, c) /\ v.from = c /\ Goal(v) = At(to, p, c)
          /\ v.op = IF IsDir(Old, c) THEN "walk" ELSE "file"
      BY <1>4, <2>5, EntryFacts
    <2>7. CASE IsDir(Old, c)
      <3>1. At(Goal(v), c, f.from) = At(to, p, f.from)
        BY <1>4, <2>2, <2>4, <2>6, AtCompose
      <3>2. Covers(v, f)
        BY <2>1, <2>4, <2>6, <2>7, <3>1 DEF Covers
      <3> QED BY <2>5, <3>2
    <2>8. CASE ~IsDir(Old, c)
      <3>1. f.from = c
        BY <2>2, <2>4, <2>6, <2>8, FileAlone, OldFacts
      <3>2. f = Pair(c, Goal(v))
        BY <2>1, <2>2, <2>6, <3>1
      <3>3. Covers(v, f)
        BY <2>6, <2>8, <3>2 DEF Covers
      <3> QED BY <2>5, <3>3
    <2> QED BY <2>7, <2>8
  <1>10. ~Doomed(Head(work)) /\
           (Sound(Head(work)) => \A x : Among(x, new) => Sound(x))
    BY <1>2, <1>6, <1>7, <1>8
  <1>11. /\ \A f \in Denoted : Alone(f) /\ Placed(f) => Placed(f)'
         /\ \A f \in Denoted : Alone(f) /\ Clean(f) => Clean(f)'
    OBVIOUS
  <1>12. \A f \in Denoted : Alone(f) /\ Covers(Head(work), f) =>
           Placed(f)' \/ \E x : Among(x, new) /\ Covers(x, f)
    BY <1>2, <1>6, <1>9
  <1>13. new \in Seq(Todo) /\ work' = new \o Tail(work)
    BY <1>6
  <1> QED BY <1>1, <1>10, <1>11, <1>12, <1>13, Advance


\* No node that exists is changed by the making of directories or of a file
\* that is missing.
LEMMA NodesStay ==
  ASSUME NEW t, NEW p, NEW q \in DOMAIN t
  PROVE  /\ Node(MkdirAll(t, p), q) = Node(t, q) /\ q \in DOMAIN MkdirAll(t, p)
         /\ Node(Create(t, p), q) = Node(t, q) /\ q \in DOMAIN Create(t, p)
  <1>1. ASSUME NEW r
        PROVE  /\ Node(MkdirAll(t, r), q) = Node(t, q)
               /\ q \in DOMAIN MkdirAll(t, r)
    BY DEF MkdirAll, Node
  <1>2. ASSUME NEW u, NEW x, q \in DOMAIN u, q # p
        PROVE  Node(With(u, p, x), q) = Node(u, q) /\ q \in DOMAIN With(u, p, x)
    BY <1>2 DEF With, Node
  <1>3. PICK u : u = MkdirAll(t, Front(p))
    OBVIOUS
  <1>4. q \in DOMAIN u /\ Node(u, q) = Node(t, q)
    BY <1>1, <1>3
  <1>5. Node(OpenFile(u, p), q) = Node(u, q) /\ q \in DOMAIN OpenFile(u, p)
    <2>1. CASE p \in DOMAIN u
      BY <1>4, <2>1 DEF OpenFile
    <2>2. CASE p \notin DOMAIN u
      BY <1>2, <1>4, <2>2 DEF OpenFile
    <2> QED BY <2>1, <2>2
  <1> QED BY <1>1, <1>3, <1>4, <1>5 DEF Create

\* What is new are directories, and perhaps an empty file.
LEMMA NodesNew ==
  ASSUME NEW t, NEW p, NEW q, q \notin DOMAIN t
  PROVE  Node(Create(t, p), q) \in {"dir", "empty", Node(t, q)}
  <1>1. PICK u : u = MkdirAll(t, Front(p))
    OBVIOUS
  <1>2. Node(u, q) \in {"dir", Node(t, q)}
    BY <1>1 DEF MkdirAll, Node
  <1>3. Node(OpenFile(u, p), q) \in {"empty", Node(u, q)}
    BY DEF OpenFile, With, Node
  <1> QED BY <1>1, <1>2, <1>3 DEF Create

\* A file in its place is a file there.
LEMMA PlacedFacts ==
  ASSUME NEW f, Placed(f)
  PROVE  f.to \in DOMAIN tree[To] /\ IsFile(tree[To], f.to)
  BY DEF Placed, IsFile, Node

\* cpDirToHost at a directory makes at most a new empty file.
LEMMA WalkLocalWorks ==
  ASSUME CopyInv, WorkInv, WalkLocal
  PROVE  WorkInv'
  <1>1. /\ Current("walk") /\ ~SrcRemote
        /\ UNCHANGED <<cmd, tree0, pc, outcome, interrupted>>
        /\ Descend(Head(work).from, Head(work).to)
    BY DEF WalkLocal
  <1>2. To = "remote" /\ DOMAIN tree = {"local", "remote"}
    BY <1>1, Sides DEF CopyInv, TreesInv
  <1>3. PICK u : u = Create(tree.remote, Head(work).to)
    OBVIOUS
  <1>4. tree' = tree \/ tree' = [tree EXCEPT !["remote"] = u]
    BY <1>3 DEF WalkLocal
  <1>5. tree'["remote"] = tree["remote"] \/ tree'["remote"] = u
    BY <1>2, <1>4
  <1>6. ASSUME NEW f \in Denoted, Placed(f)
        PROVE  Placed(f)'
    <2>1. f.to \in DOMAIN tree["remote"]
      BY <1>2, <1>6, PlacedFacts
    <2>2. Node(u, f.to) = Node(tree["remote"], f.to)
      BY <1>3, <2>1, NodesStay
    <2>3. Node(tree'["remote"], f.to) = Node(tree["remote"], f.to)
      BY <1>5, <2>2
    <2>4. Node(tree'[To], f.to) = Node(tree[To], f.to)
      BY <1>2, <2>3
    <2> QED BY <1>1, <1>6, <2>4, PlacedStays
  <1>7. ASSUME NEW f \in Denoted, Clean(f)
        PROVE  Clean(f)'
    <2>1. Node(u, f.to) \in {"dir", "empty", Node(tree["remote"], f.to)}
      BY <1>3, NodesStay, NodesNew
    <2>2. Node(tree'["remote"], f.to) \in {"dir", "empty", Node(tree["remote"], f.to)}
      BY <1>5, <2>1
    <2>3. \/ Node(tree'[To], f.to) = Node(tree[To], f.to)
          \/ Node(tree'[To], f.to) \in DirKinds \cup {"empty"}
      BY <1>2, <2>2 DEF DirKinds
    <2> QED BY <1>1, <1>7, <2>3, CleanStays
  <1> QED BY <1>1, <1>6, <1>7, WalkWorks

\* walkRemoteDir makes directories where no file is.
LEMMA WalkRemoteWorks ==
  ASSUME CopyInv, WorkInv, WalkRemote
  PROVE  WorkInv'
  <1>1. Current("walk") /\ SrcRemote /\ UNCHANGED <<cmd, tree0, interrupted>>
    BY DEF WalkRemote
  <1>2. PICK w : w = Head(work)
    OBVIOUS
  <1>3. w.to \in Path
    BY <1>1, <1>2, WorkFacts, ItemFacts DEF CopyInv, Current
  <1>4. To = "local" /\ DOMAIN tree = {"local", "remote"}
    BY <1>1, Sides DEF CopyInv, TreesInv
  <1>5. CASE CanMkdirAll(tree.local, w.to)
    <2>1. PICK t, n : t = tree["local"] /\ n = tree.remote[w.from]
      OBVIOUS
    <2>2. PICK u : u = MkdirAll(t, w.to)
      OBVIOUS
    <2>3. PICK v : v = With(u, w.to, n)
      OBVIOUS
    <2>4. /\ tree' = [tree EXCEPT !["local"] = v]
          /\ Descend(Head(work).from, Head(work).to) /\ UNCHANGED <<pc, outcome>>
      BY <1>2, <1>5, <2>1, <2>2, <2>3 DEF WalkRemote
    <2>5. tree'[To] = v /\ tree[To] = t
      BY <1>4, <2>1, <2>4
    <2>6. ASSUME NEW f \in Denoted, Placed(f)
          PROVE  Placed(f)'
      <3>1. f.to \in DOMAIN t /\ IsFile(t, f.to)
        BY <2>5, <2>6, PlacedFacts
      <3>2. f.to # w.to
        <4>1. w.to \in Prefixes(w.to)
          BY <1>3, PrefixesMean, PrefixReflexive
        <4>2. Node(t, w.to) \in DirKinds \cup {"absent"}
          BY <1>5, <2>1, <4>1 DEF CanMkdirAll
        <4> QED BY <3>1, <4>2 DEF IsFile
      <3>3. f.to \in DOMAIN u /\ Node(u, f.to) = Node(t, f.to)
        BY <2>2, <3>1, NodesStay
      <3>4. Node(v, f.to) = Node(u, f.to)
        BY <2>3, <3>2, <3>3 DEF With, Node
      <3>5. Node(tree'[To], f.to) = Node(tree[To], f.to)
        BY <2>5, <3>3, <3>4
      <3> QED BY <1>1, <2>6, <3>5, PlacedStays
    <2>7. \A f : Clean(f)'
      BY <1>1 DEF Clean, SrcRemote
    <2> QED BY <1>1, <2>4, <2>6, <2>7, WalkWorks
  <1>6. CASE ~CanMkdirAll(tree.local, w.to)
    BY <1>2, <1>6, Fails DEF WalkRemote
  <1> QED BY <1>5, <1>6

\* A transfer puts a file where it belongs, and the right one if it must be
\* exact and nothing longer was in the way.  What was there belongs there only
\* if nothing else does.
LEMMA PutWorks ==
  ASSUME CopyInv, WorkInv, Transferring, UNCHANGED <<cmd, tree0, pc, outcome>>,
         interrupted => interrupted', work' = Tail(work),
         NEW n, n \notin DirKinds \cup {"absent"}, Put(Head(work).to, n),
         NEW f, f = Pair(Head(work).from, Head(work).to),
         MustBeExact(f)' /\ Clean(f) => n = Node(Old, f.from)
  PROVE  WorkInv'
  <1>1. /\ pc = "copy" /\ work # <<>> /\ Head(work).op = "file"
    BY DEF Transferring, Current
  <1>2. PICK w : w = Head(work)
    OBVIOUS
  <1>3. PICK p, to : p = w.from /\ to = w.to
    OBVIOUS
  <1>4. w \in Todo /\ p \in Path /\ to \in Path /\ w.op = "file" /\ Goal(w) = to
    BY <1>1, <1>2, <1>3, WorkFacts, ItemFacts, GoalType DEF CopyInv
  <1>5. tree[From] = Old /\ To \in DOMAIN tree /\ IsFile(Old, p)
    BY <1>2, <1>3, OldFacts, Sides DEF CopyInv, TreesInv, Transferring
  <1>6. f = Pair(p, to)
    BY <1>2, <1>3
  <1>7. f.from = p /\ f.to = to /\ (MustBeExact(f)' /\ Clean(f) => n = Node(Old, p))
    BY <1>2, <1>3, <1>6 DEF Pair
  <1>8. PICK t : t = tree[To]
    OBVIOUS
  <1>9. PICK u : u = IF SrcRemote THEN t ELSE Create(t, to)
    OBVIOUS
  <1>10. PICK v : v = With(u, to, n)
    OBVIOUS
  <1>11. tree'[To] = v
    BY <1>2, <1>3, <1>5, <1>8, <1>9, <1>10 DEF Put
  <1>12. Node(v, to) = n /\ \A z : z # to => Node(v, z) = Node(u, z)
    BY <1>10 DEF With, Node
  <1>13. ASSUME Named
         PROVE  f \in Denoted
    <2>1. Sound(w)
      <3>1. Among(w, work)
        BY <1>1, <1>2, AmongTail DEF CopyInv
      <3>2. ~Doomed(w)
        BY <1>4 DEF Doomed
      <3> QED BY <1>1, <1>13, <3>1, <3>2 DEF WorkInv, SoundWork
    <2>2. p \in FilesBelow(Old, p)
      BY <1>4, <1>5, PrefixReflexive DEF FilesBelow, IsFile, Node
    <2>3. At(Goal(w), p, p) = to
      BY <1>4, AtSelf
    <2> QED BY <1>3, <1>6, <2>1, <2>2, <2>3 DEF Sound
  <1>14. ASSUME Named, Alone(f)
         PROVE  Placed(f)' /\ Clean(f)'
    <2>1. Clean(f)
      BY <1>1, <1>13, <1>14 DEF WorkInv, Unspoilt
    <2>2. Node(tree[To], f.to)' = n /\ Node(Old, f.from)' = Node(Old, p)
      BY <1>7, <1>11, <1>12, StaticWork DEF Node
    <2>3. IsFile(tree[To], f.to)'
      BY <2>2 DEF IsFile
    <2>4. Placed(f)'
      BY <1>7, <2>1, <2>2, <2>3 DEF Placed
    <2>5. /\ Node(tree0[To], f.to)' = Node(tree0[To], f.to) /\ To' = To
          /\ SrcRemote' = SrcRemote /\ From' = From
      BY DEF Node, To, From, SrcRemote
    <2>6. ASSUME ~SrcRemote, ~interrupted',
                 <<Node(tree0[To], f.to), Node(Old, f.from)>>' \notin Longer
          PROVE  MustBeExact(f)'
      BY <2>5, <2>6 DEF MustBeExact, Old
    <2>7. \A m : <<m, m>> \notin Longer
      BY CopyAssumption
    <2>8. Clean(f)'
      BY <1>7, <2>1, <2>2, <2>5, <2>6, <2>7 DEF Clean
    <2> QED BY <2>4, <2>8
  <1>15. ASSUME Named, NEW g \in Denoted, Alone(g)
         PROVE  (Placed(g) => Placed(g)') /\ (Clean(g) => Clean(g)')
    <2>1. CASE g.to = to
      <3>1. f = g
        BY <1>7, <1>13, <1>15, <2>1 DEF Alone
      <3> QED BY <1>14, <1>15, <3>1
    <2>2. CASE g.to # to
      <3>1. Node(tree'[To], g.to) = Node(u, g.to)
        BY <1>11, <1>12, <2>2
      <3>2. Placed(g) => Node(u, g.to) = Node(t, g.to)
        BY <1>8, <1>9, PlacedFacts, NodesStay
      <3>3. Node(u, g.to) \in {"dir", "empty", Node(t, g.to)}
        BY <1>9, NodesStay, NodesNew
      <3>4. \/ Node(tree'[To], g.to) = Node(tree[To], g.to)
            \/ Node(tree'[To], g.to) \in DirKinds \cup {"empty"}
        BY <1>8, <3>1, <3>3 DEF DirKinds
      <3> QED BY <1>8, <3>1, <3>2, <3>4, PlacedStays, CleanStays
    <2> QED BY <2>1, <2>2
  <1>16. ASSUME Named, NEW g \in Denoted, Alone(g), Covers(w, g)
         PROVE  Placed(g)'
    <2>1. g = f
      BY <1>3, <1>4, <1>6, <1>16 DEF Covers
    <2> QED BY <1>14, <1>16, <2>1
  <1>17. PICK new : new = <<>>
    OBVIOUS
  <1>18. new \in Seq(Todo) /\ \A x : ~Among(x, new)
    BY <1>17, EmptySeq DEF Among
  <1>19. work' = new \o Tail(work)
    BY <1>1, <1>17, WorkFacts, ConcatEmptySeq DEF CopyInv
  <1>20. ~Doomed(Head(work)) /\
           (Sound(Head(work)) => \A x : Among(x, new) => Sound(x))
    BY <1>2, <1>4, <1>18 DEF Doomed
  <1>21. /\ Named => \A g \in Denoted : Alone(g) /\ Placed(g) => Placed(g)'
         /\ Named => \A g \in Denoted : Alone(g) /\ Clean(g) => Clean(g)'
    BY <1>15
  <1>22. Named => \A g \in Denoted : Alone(g) /\ Covers(Head(work), g) =>
           Placed(g)' \/ \E x : Among(x, new) /\ Covers(x, g)
    BY <1>2, <1>16
  <1> QED BY <1>1, <1>18, <1>19, <1>20, <1>21, <1>22, Advance

\* A whole transfer: the digests agree, or nothing longer was there.
LEMMA FileWorks ==
  ASSUME CopyInv, WorkInv, CopyFile
  PROVE  WorkInv'
  <1>1. Transferring /\ UNCHANGED <<cmd, tree0, interrupted>>
    BY DEF CopyFile
  <1>2. PICK p, to : p = Head(work).from /\ to = Head(work).to
    OBVIOUS
  <1>3. PICK c : c = Node(tree[From], p)
    OBVIOUS
  <1>4. PICK n : n = Written(to, c)
    OBVIOUS
  <1>5. /\ Put(to, n)
        /\ \/ Exit("err")
           \/ /\ ~(cmd.verify /\ n # c)
              /\ work' = Tail(work) /\ UNCHANGED <<pc, outcome>>
    BY <1>2, <1>3, <1>4 DEF CopyFile
  <1>6. CASE /\ ~(cmd.verify /\ n # c)
             /\ work' = Tail(work) /\ UNCHANGED <<pc, outcome>>
    <2>1. PICK f : f = Pair(p, to)
      OBVIOUS
    <2>2. f.from = p /\ f.to = to /\ c = Node(Old, p)
      BY <1>3, <2>1, OldFacts DEF Pair
    <2>3. n \notin DirKinds \cup {"absent"}
      BY <1>1, <1>2, <1>3, <1>4, TransferFacts DEF Transferring, IsFile
    <2>4. ASSUME MustBeExact(f)', Clean(f)
          PROVE  n = c
      <3>1. CASE cmd.verify
        BY <1>6, <3>1
      <3>2. CASE ~cmd.verify
        <4>1. MustBeExact(f)
          BY <1>1, <2>4, ExactBefore
        <4>2. CASE SrcRemote
          BY <1>4, <4>2 DEF Written
        <4>3. CASE ~SrcRemote
          <5>1. ~interrupted /\ <<Node(tree0[To], f.to), Node(Old, f.from)>> \notin Longer
            BY <3>2, <4>1, <4>3 DEF MustBeExact, Old
          <5>2. To = "remote"
            BY <4>3, Sides
          <5>3. <<Node(tree.remote, to), c>> \notin Longer
            BY <2>2, <2>4, <4>3, <5>1, <5>2 DEF Clean
          <5> QED BY <1>4, <5>3 DEF Written
        <4> QED BY <4>2, <4>3
      <3> QED BY <3>1, <3>2
    <2>5. /\ f = Pair(Head(work).from, Head(work).to)
          /\ MustBeExact(f)' /\ Clean(f) => n = Node(Old, f.from)
      BY <1>2, <2>1, <2>2, <2>4
    <2> QED BY <1>1, <1>2, <1>5, <1>6, <2>3, <2>5, PutWorks
  <1> QED BY <1>5, <1>6, Fails

\* One that an interrupt cuts short need not be exact.
LEMMA CutWorks ==
  ASSUME CopyInv, WorkInv, CopyFileCut
  PROVE  WorkInv'
  <1>1. /\ Transferring /\ interrupted /\ ~cmd.verify /\ work' = Tail(work)
        /\ Put(Head(work).to, "partial")
        /\ UNCHANGED <<cmd, pc, outcome, interrupted, tree0>>
    BY DEF CopyFileCut
  <1>2. "partial" \notin DirKinds \cup {"absent"}
    BY DEF DirKinds
  <1>3. PICK f : f = Pair(Head(work).from, Head(work).to)
    OBVIOUS
  <1>4. ~MustBeExact(f)'
    BY <1>1 DEF MustBeExact
  <1> QED BY <1>1, <1>2, <1>3, <1>4, PutWorks

\* When nothing is left to do, every file is in its place.
LEMMA FinishWorks ==
  ASSUME CopyInv, WorkInv, Finish
  PROVE  WorkInv'
  <1>1. /\ pc = "copy" /\ work = <<>> /\ Exit("ok")
        /\ UNCHANGED <<cmd, tree, interrupted, tree0>>
    BY DEF Finish
  <1>2. pc' = "exit"
    BY <1>1 DEF Exit
  <1>3. \A w : ~Among(w, work)
    BY <1>1, EmptySeq DEF Among
  <1>4. Named => \A f \in Denoted : Alone(f) => Placed(f)
    BY <1>1, <1>3 DEF WorkInv, Promised
  <1>5. Named' => \A f \in Denoted' : Alone(f)' => Placed(f)'
    BY <1>1, <1>4, StaticWork, PlacedSame
  <1>6. SuccessMeansCopied'
    BY <1>5 DEF SuccessMeansCopied, Named, Alone, Placed, Old
  <1> QED BY <1>2, <1>6 DEF WorkInv


\* What one argument adds to the list.
LEMMA AmongListed ==
  ASSUME CopyInv, NEW s \in Arg, NEW w
  PROVE  Among(w, Listed(s)) <=> \E p \in Expand(s) : w = Single(p)
  <1>1. Expand(s) \in SUBSET Path /\ IsFiniteSet(Expand(s))
    BY ExpandType
  <1>2. PICK ps : ps = Sorted(Expand(s))
    OBVIOUS
  <1>3. \A p : Among(p, ps) <=> p \in Expand(s)
    BY <1>1, <1>2, AmongSorted
  <1>4. Listed(s) = [i \in DOMAIN ps |-> Single(ps[i])]
    BY <1>2 DEF Listed
  <1>5. Among(w, Listed(s)) <=> \E p : Among(p, ps) /\ w = Single(p)
    BY <1>4 DEF Among
  <1> QED BY <1>3, <1>5

\* What all of them add.
LEMMA AmongListedAll ==
  ASSUME CopyInv, NEW w
  PROVE  Among(w, FlattenSeq(ListedAll)) <=>
           \E s \in ToSet(cmd.sources) : \E p \in Expand(s) : w = Single(p)
  <1>1. /\ DOMAIN cmd.sources = 1 .. Len(cmd.sources)
        /\ \A i \in 1 .. Len(cmd.sources) : cmd.sources[i] \in Arg
    BY ArgFacts DEF CopyInv, ControlInv
  <1>2. Among(w, FlattenSeq(ListedAll)) <=>
          \E i \in DOMAIN ListedAll : Among(w, ListedAll[i])
    BY ListedAllType, AmongFlatten
  <1>3. /\ DOMAIN ListedAll = DOMAIN cmd.sources
        /\ \A i \in DOMAIN cmd.sources : ListedAll[i] = Listed(cmd.sources[i])
    BY DEF ListedAll
  <1>4. \A i \in DOMAIN cmd.sources : Among(w, ListedAll[i]) <=>
          \E p \in Expand(cmd.sources[i]) : w = Single(p)
    BY <1>1, <1>3, AmongListed
  <1>5. Among(w, FlattenSeq(ListedAll)) <=>
          \E i \in DOMAIN cmd.sources : \E p \in Expand(cmd.sources[i]) : w = Single(p)
    BY <1>2, <1>3, <1>4
  <1> QED BY <1>5 DEF ToSet

\* An argument stands for what it names; a local pattern with -r for the files
\* below the directories that it matches.
LEMMA ExpandMeans ==
  ASSUME CopyInv, pc = "expand", NEW s \in ToSet(cmd.sources)
  PROVE  /\ s \in Arg /\ Roots(s) \subseteq Path
         /\ s.glob = {} \/ SrcRemote => Expand(s) = Roots(s)
         /\ s.glob # {} /\ ~SrcRemote =>
              \A q : q \in Expand(s) <=>
                \E r \in Roots(s) : IF cmd.recursive /\ IsDir(Old, r)
                                      THEN q \in FilesBelow(Old, r) ELSE q = r
  <1>1. s \in Arg
    BY ArgFacts DEF ToSet, CopyInv, ControlInv
  <1>2. s.path \in Path
    BY <1>1 DEF Arg, Path
  <1>3. tree[From] = Old /\ DOMAIN Old \subseteq Path
    BY OldFacts
  <1>4. Roots(s) \subseteq Path
    BY <1>2, <1>3 DEF Roots, Children
  <1>5. s.glob # {} => Matches(s) = Roots(s)
    BY <1>3 DEF Matches, Roots
  <1>6. s.glob = {} \/ SrcRemote => Expand(s) = Roots(s)
    BY <1>5 DEF Expand, ExpandLocal, ExpandRemote, Roots
  <1>7. ASSUME s.glob # {}, ~SrcRemote
        PROVE  \A q : q \in Expand(s) <=>
                \E r \in Roots(s) : IF cmd.recursive /\ IsDir(Old, r)
                                      THEN q \in FilesBelow(Old, r) ELSE q = r
    <2>1. tree.local = Old
      BY <1>3, <1>7, Sides
    <2>2. Expand(s) = UNION {IF cmd.recursive /\ IsDir(Old, r)
                               THEN FilesBelow(Old, r) ELSE {r} : r \in Roots(s)}
      BY <1>5, <1>7, <2>1 DEF Expand, ExpandLocal
    <2> QED BY <2>2
  <1> QED BY <1>1, <1>4, <1>6, <1>7

\* The list does what the arguments ask for, all of it and nothing else.
LEMMA ExpandWorks ==
  ASSUME CopyInv, WorkInv, ExpandSources
  PROVE  WorkInv'
  <1>1. UNCHANGED <<cmd, tree, faults, tree0>> /\ pc = "expand"
    BY DEF ExpandSources
  <1>2. CASE Exit("err")
    BY <1>2, Fails
  <1>3. CASE cmd.dryRun /\ Exit("ok")
    BY <1>1, <1>3 DEF Exit, WorkInv, SuccessMeansCopied
  <1>4. CASE /\ ~cmd.dryRun /\ pc' = "copy" /\ UNCHANGED outcome
             /\ work' = FlattenSeq(ListedAll)
    <2>1. outcome = "none" /\ outcome' = "none"
      BY <1>1, <1>4 DEF WorkInv
    <2>2. SuccessMeansCopied'
      BY <2>1 DEF SuccessMeansCopied
    <2>3. SUFFICES ASSUME Named
                   PROVE  SoundWork' /\ Promised' /\ Unspoilt'
      BY <1>1, <2>1, <2>2, StaticWork DEF WorkInv
    <2>4. cmd \in Commands /\ IsTree(Old) /\ DOMAIN Old \subseteq Path
      BY OldFacts DEF CopyInv, ControlInv
    <2>5. \A w : Among(w, work)' <=>
            \E s \in ToSet(cmd.sources) : \E p \in Expand(s) : w = Single(p)
      <3>1. \A w : Among(w, work)' <=> Among(w, FlattenSeq(ListedAll))
        BY <1>4 DEF Among
      <3> QED BY <3>1, AmongListedAll
    <2>6. \A p \in Path : Dest(p) \in Path
      BY <2>4, DestType
    <2>7. ASSUME NEW s \in ToSet(cmd.sources), NEW p \in Expand(s)
          PROVE  Doomed(Single(p)) \/ Sound(Single(p))
      <3>1. s \in Arg /\ p \in Path /\ Roots(s) \subseteq Path
        BY <1>1, ExpandMeans, ExpandType
      <3>2. PICK w : w = Single(p)
        OBVIOUS
      <3>3. w.op = "single" /\ w.from = p /\ Goal(w) = Dest(p)
        BY <2>3, <2>4, <3>1, <3>2, SingleGoal
      <3>4. CASE s.glob = {} \/ SrcRemote
        <4>1. p \in Roots(s)
          BY <1>1, <3>4, ExpandMeans
        <4>2. ASSUME NEW q \in FilesBelow(Old, p)
              PROVE  Pair(q, At(Dest(p), p, q)) \in Denoted
          <5>1. Denotes(s, p, q) /\ Aim(s, p, q) = At(Dest(p), p, q)
            BY <3>4, <4>1 DEF Denotes, Aim
          <5> QED BY <5>1, DenotedMeans
        <4> QED BY <3>2, <3>3, <4>2 DEF Sound
      <3>5. CASE s.glob # {} /\ ~SrcRemote
        <4>1. PICK r \in Roots(s) : IF cmd.recursive /\ IsDir(Old, r)
                                      THEN p \in FilesBelow(Old, r) ELSE p = r
          BY <1>1, <3>5, ExpandMeans
        <4>2. CASE ~IsDir(Old, p)
          <5>1. ASSUME NEW q \in FilesBelow(Old, p)
                PROVE  Pair(q, At(Dest(p), p, q)) \in Denoted
            <6>1. q \in DOMAIN Old /\ IsPrefix(p, q) /\ IsFile(Old, q)
              BY DEF FilesBelow
            <6>2. q = p
              BY <2>4, <3>1, <4>2, <6>1, FileAlone
            <6>3. p \in FilesBelow(Old, r)
              BY <4>1, <4>2, <5>1, <6>2
            <6>4. Denotes(s, r, p) /\ Aim(s, r, p) = Dest(p)
              BY <3>5, <6>3 DEF Denotes, Aim
            <6>5. Pair(p, Dest(p)) \in Denoted
              BY <6>4, DenotedMeans
            <6>6. At(Dest(p), p, p) = Dest(p)
              BY <2>6, <3>1, AtSelf
            <6> QED BY <6>2, <6>5, <6>6
          <5> QED BY <3>2, <3>3, <5>1 DEF Sound
        <4>3. CASE IsDir(Old, p)
          <5>1. ~cmd.recursive
            <6>1. p \notin FilesBelow(Old, r)
              BY <4>3 DEF FilesBelow, IsFile, IsDir
            <6> QED BY <4>1, <4>3, <6>1
          <5> QED BY <3>2, <3>3, <4>3, <5>1 DEF Doomed
        <4> QED BY <4>2, <4>3
      <3> QED BY <3>4, <3>5
    <2>8. SoundWork'
      BY <1>1, <2>5, <2>7, StaticWork DEF SoundWork
    <2>9. ASSUME NEW f \in Denoted
          PROVE  \E w : Among(w, work)' /\ (Doomed(w) \/ Covers(w, f))
      <3>1. PICK s, r, q : Denotes(s, r, q) /\ f = Pair(q, Aim(s, r, q))
        BY DenotedMeans
      <3>2. /\ s \in ToSet(cmd.sources) /\ r \in Roots(s) /\ q \in DOMAIN Old
            /\ IsPrefix(r, q) /\ IsFile(Old, q) /\ q \in FilesBelow(Old, r)
        BY <3>1 DEF Denotes, FilesBelow
      <3>3. r \in Path /\ q \in Path
        BY <1>1, <2>4, <3>2, ExpandMeans
      <3>4. PICK z : z = Aim(s, r, q)
        OBVIOUS
      <3>5. f.from = q /\ f.to = z
        BY <3>1, <3>4 DEF Pair
      <3>6. ASSUME NEW p \in Path, p \in Expand(s), IsPrefix(p, q),
                   z = At(Dest(p), p, q)
            PROVE  \E w : Among(w, work)' /\ (Doomed(w) \/ Covers(w, f))
        <4>1. PICK w : w = Single(p)
          OBVIOUS
        <4>2. w.op = "single" /\ w.from = p /\ Goal(w) = Dest(p)
          BY <2>3, <2>4, <4>1, SingleGoal
        <4>3. Covers(w, f)
          BY <3>5, <3>6, <4>2 DEF Covers
        <4>4. Among(w, work)'
          BY <2>5, <3>2, <3>6, <4>1
        <4> QED BY <4>3, <4>4
      <3>7. CASE s.glob = {} \/ SrcRemote
        <4>1. r \in Expand(s)
          BY <1>1, <3>2, <3>7, ExpandMeans
        <4>2. z = At(Dest(r), r, q)
          BY <3>4, <3>7 DEF Aim
        <4> QED BY <3>2, <3>3, <3>6, <4>1, <4>2
      <3>8. CASE s.glob # {} /\ ~SrcRemote
        <4>1. z = At(Dest(q), q, q) /\ IsPrefix(q, q)
          <5>1. z = Dest(q)
            BY <3>4, <3>8 DEF Aim
          <5> QED BY <2>6, <3>3, <5>1, AtSelf, PrefixReflexive
        <4>2. CASE cmd.recursive /\ IsDir(Old, r)
          <5>1. q \in Expand(s)
            BY <1>1, <3>2, <3>8, <4>2, ExpandMeans
          <5> QED BY <3>3, <3>6, <4>1, <5>1
        <4>3. CASE ~IsDir(Old, r)
          <5>1. q = r
            BY <2>4, <3>2, <3>3, <4>3, FileAlone
          <5>2. q \in Expand(s)
            BY <1>1, <3>2, <3>8, <4>3, <5>1, ExpandMeans
          <5> QED BY <3>3, <3>6, <4>1, <5>2
        <4>4. CASE ~cmd.recursive /\ IsDir(Old, r)
          <5>1. r \in Expand(s)
            BY <1>1, <3>2, <3>8, <4>4, ExpandMeans
          <5>2. PICK w : w = Single(r)
            OBVIOUS
          <5>3. w.op = "single" /\ w.from = r
            BY <2>3, <2>4, <3>3, <5>2, SingleGoal
          <5>4. Doomed(w)
            BY <4>4, <5>3 DEF Doomed
          <5>5. Among(w, work)'
            BY <2>5, <3>2, <5>1, <5>2
          <5> QED BY <5>4, <5>5
        <4> QED BY <4>2, <4>3, <4>4
      <3> QED BY <3>7, <3>8
    <2>10. Promised'
      BY <1>1, <2>9, StaticWork DEF Promised, Covers
    <2>11. Unspoilt'
      <3>1. tree' = tree0'
        BY <1>1 DEF CopyInv, ControlInv
      <3> QED BY <3>1 DEF Unspoilt, Clean
    <2> QED BY <2>8, <2>10, <2>11
  <1> QED BY <1>2, <1>3, <1>4, ExpandCases

\* Every step keeps the promise.
LEMMA WorkStep == CopyInv /\ WorkInv /\ [Next]_vars => WorkInv'
  <1> SUFFICES ASSUME CopyInv, WorkInv, [Next]_vars PROVE WorkInv'
    OBVIOUS
  <1>1. CASE UNCHANGED vars \/ Interrupt
    <2>1. /\ UNCHANGED <<cmd, tree, work, pc, outcome, tree0>>
          /\ interrupted => interrupted'
      BY <1>1 DEF vars, Interrupt
    <2>2. \A w : Among(w, work)' <=> Among(w, work)
      BY <2>1 DEF Among
    <2>3. SoundWork' <=> SoundWork
      BY <2>1, <2>2, StaticWork DEF SoundWork
    <2>4. \A f : (Placed(f) => Placed(f)') /\ (Clean(f) => Clean(f)')
      BY <2>1, PlacedSame
    <2>5. Promised => Promised'
      BY <2>1, <2>2, <2>4, StaticWork DEF Promised, Covers
    <2>6. Unspoilt => Unspoilt'
      BY <2>1, <2>4, StaticWork DEF Unspoilt
    <2>7. SuccessMeansCopied => SuccessMeansCopied'
      <3>1. SuccessMeansCopied <=>
              (outcome = "ok" /\ ~cmd.dryRun /\ Named =>
                 \A f \in Denoted : Alone(f) => Placed(f))
        BY DEF SuccessMeansCopied, Named, Alone, Placed, Old
      <3>2. SuccessMeansCopied' <=>
              (outcome' = "ok" /\ ~cmd'.dryRun /\ Named' =>
                 \A f \in Denoted' : Alone(f)' => Placed(f)')
        BY DEF SuccessMeansCopied, Named, Alone, Placed, Old
      <3> QED BY <2>1, <2>4, <3>1, <3>2, StaticWork
    <2> QED BY <2>1, <2>3, <2>5, <2>6, <2>7, StaticWork DEF WorkInv
  <1>2. StepFails \/ CopyFileFails => WorkInv'
    BY Fails DEF StepFails, CopyFileFails
  <1>3. CASE Next /\ ~Interrupt
    BY <1>2, <1>3, ExpandWorks, SingleWorks, WalkLocalWorks, WalkRemoteWorks,
       FileWorks, CutWorks, FinishWorks DEF Next
  <1> QED BY <1>1, <1>3

\* A cp that reports success has put a file where each file that its arguments
\* denote belongs, for every tree, pattern and destination (cp.go, glob.go,
\* cp_dir.go, cp_from_host_dir.go), with the content of the source if it has
\* compared the digests, and otherwise unless it was interrupted or has
\* uploaded over a longer file; but for files that belong in the same place
\* and several remote sources.
THEOREM EverythingCopied == Spec => []SuccessMeansCopied
  <1>1. Init => WorkInv
    BY DEF Init, WorkInv, SuccessMeansCopied
  <1>2. WorkInv => SuccessMeansCopied
    BY DEF WorkInv
  <1> QED BY <1>1, <1>2, CopyInvariant, WorkStep, PTL DEF Spec


-----------------------------------------------------------------------------
(* The plain cases: more about where a path goes                           *)

\* The parent of a path is its only prefix that is shorter by one.
LEMMA FrontUnique ==
  ASSUME NEW p \in Path, NEW q \in Path, IsPrefix(q, p), Len(q) = Len(p) - 1
  PROVE  p # <<>> /\ Front(p) = q
  <1>1. Len(p) \in Nat /\ Len(q) \in Nat
    BY PathFacts
  <1>2. p # <<>>
    BY <1>1, EmptySeq
  <1>3. PICK c : c = Front(p)
    OBVIOUS
  <1>4. c \in Path /\ Len(c) = Len(p) - 1 /\ Extends(c, p) /\ Extends(q, p)
    BY <1>2, <1>3, FrontFacts, PrefixMeans
  <1>5. c = q
    BY <1>1, <1>4, PathEqual DEF Extends
  <1> QED BY <1>2, <1>3, <1>5

\* What a path lies below, its parent is or lies below.
LEMMA PrefixFront ==
  ASSUME NEW p \in Path, NEW q \in Path, IsPrefix(q, p), q # p
  PROVE  p # <<>> /\ IsPrefix(q, Front(p))
  <1>1. Len(p) \in Nat /\ Len(q) \in Nat /\ Extends(q, p)
    BY PathFacts, PrefixMeans
  <1>2. Len(q) # Len(p)
    BY <1>1, PathEqual DEF Extends
  <1>3. Len(q) < Len(p)
    BY <1>1, <1>2 DEF Extends
  <1>4. p # <<>>
    BY <1>1, <1>3, EmptySeq
  <1>5. PICK c : c = Front(p)
    OBVIOUS
  <1>6. c \in Path /\ Len(c) = Len(p) - 1 /\ Extends(c, p)
    BY <1>4, <1>5, FrontFacts, PrefixMeans
  <1>7. Extends(q, c)
    BY <1>1, <1>3, <1>6 DEF Extends
  <1> QED BY <1>4, <1>5, <1>6, <1>7, PrefixMeans

\* Paths that are prefixes of each other are the same.
LEMMA PrefixAntisymmetric ==
  ASSUME NEW p \in Path, NEW q \in Path, IsPrefix(p, q), IsPrefix(q, p)
  PROVE  p = q
  <1>1. Extends(p, q) /\ Extends(q, p) /\ Len(p) \in Nat /\ Len(q) \in Nat
    BY PrefixMeans, PathFacts
  <1> QED BY <1>1, PathEqual DEF Extends

\* A place is at or below the one of the whole.
LEMMA AtBelow ==
  ASSUME NEW to \in Path, NEW s \in Path, NEW p \in Path, IsPrefix(s, p)
  PROVE  At(to, s, p) \in Path /\ IsPrefix(to, At(to, s, p))
  <1>1. PICK z : z = At(to, s, p)
    OBVIOUS
  <1>2. IsAt(z, to, s, p)
    BY <1>1, AtFacts
  <1>3. Len(to) \in Nat /\ Len(s) \in Nat /\ Len(p) \in Nat /\ Len(s) <= Len(p)
    BY PathFacts, PrefixMeans DEF Extends
  <1>4. z \in Path /\ Extends(to, z)
    BY <1>2, <1>3 DEF IsAt, Extends
  <1> QED BY <1>1, <1>4, PrefixMeans

\* Different paths have different places.
LEMMA AtInjective ==
  ASSUME NEW to \in Path, NEW s \in Path, NEW p \in Path, NEW q \in Path,
         IsPrefix(s, p), IsPrefix(s, q), At(to, s, p) = At(to, s, q)
  PROVE  p = q
  <1>1. PICK k, l, m, n : k = Len(to) /\ l = Len(s) /\ m = Len(p) /\ n = Len(q)
    OBVIOUS
  <1>2. /\ k \in Nat /\ l \in Nat /\ m \in Nat /\ n \in Nat /\ l <= m /\ l <= n
        /\ \A i \in 1 .. l : s[i] = p[i] /\ s[i] = q[i]
    BY <1>1, PathFacts, PrefixMeans DEF Extends
  <1>3. PICK z : z = At(to, s, p)
    OBVIOUS
  <1>4. IsAt(z, to, s, p) /\ IsAt(z, to, s, q)
    BY <1>3, AtFacts
  <1>5. /\ Len(z) = k + (m - l) /\ Len(z) = k + (n - l)
        /\ \A i \in 1 .. m - l : z[k + i] = p[l + i]
        /\ \A i \in 1 .. n - l : z[k + i] = q[l + i]
    BY <1>1, <1>4 DEF IsAt
  <1>6. m = n
    BY <1>2, <1>5
  <1>7. ASSUME NEW i \in 1 .. m
        PROVE  p[i] = q[i]
    <2>1. CASE i <= l
      BY <1>2, <2>1
    <2>2. CASE ~(i <= l)
      <3>1. i - l \in 1 .. m - l /\ l + (i - l) = i
        BY <1>2, <2>2
      <3>2. z[k + (i - l)] = p[l + (i - l)] /\ z[k + (i - l)] = q[l + (i - l)]
        BY <1>5, <1>6, <3>1
      <3> QED BY <3>1, <3>2
    <2> QED BY <2>1, <2>2
  <1> QED BY <1>1, <1>6, <1>7, PathEqual

\* What lies on the way to a place is on the way to the place of the whole, or
\* the place of what lies on the way.
LEMMA AtWay ==
  ASSUME NEW to \in Path, NEW s \in Path, NEW p \in Path, IsPrefix(s, p),
         NEW q \in Path, IsPrefix(q, At(to, s, p))
  PROVE  \/ IsPrefix(q, to) /\ q # to
         \/ \E r \in Path : /\ IsPrefix(s, r) /\ IsPrefix(r, p)
                            /\ q = At(to, s, r)
  <1>1. PICK j, k, l, m : j = Len(q) /\ k = Len(to) /\ l = Len(s) /\ m = Len(p)
    OBVIOUS
  <1>2. /\ j \in Nat /\ k \in Nat /\ l \in Nat /\ m \in Nat /\ l <= m
        /\ \A i \in 1 .. l : s[i] = p[i]
    BY <1>1, PathFacts, PrefixMeans DEF Extends
  <1>3. PICK z : z = At(to, s, p)
    OBVIOUS
  <1>4. /\ z \in Path /\ Len(z) = k + (m - l)
        /\ \A i \in 1 .. k : z[i] = to[i]
        /\ \A i \in 1 .. m - l : z[k + i] = p[l + i]
    <2>1. IsAt(z, to, s, p)
      BY <1>3, AtFacts
    <2> QED BY <1>1, <2>1 DEF IsAt
  <1>5. j <= k + (m - l) /\ \A i \in 1 .. j : q[i] = z[i]
    BY <1>1, <1>3, <1>4, PrefixMeans DEF Extends
  <1>6. CASE j < k
    <2>1. \A i \in 1 .. j : q[i] = to[i]
      BY <1>2, <1>4, <1>5, <1>6
    <2>2. Extends(q, to)
      BY <1>1, <1>2, <1>6, <2>1 DEF Extends
    <2>3. q # to
      BY <1>1, <1>2, <1>6
    <2> QED BY <2>2, <2>3, PrefixMeans
  <1>7. CASE ~(j < k)
    <2>1. PICK h : h = l + (j - k)
      OBVIOUS
    <2>2. h \in 0 .. m /\ l <= h /\ h - l = j - k
      BY <1>2, <1>5, <1>7, <2>1
    <2>3. PICK r : r = SubSeq(p, 1, h)
      OBVIOUS
    <2>4. r \in Path /\ Len(r) = h /\ \A i \in 1 .. h : r[i] = p[i]
      BY <1>1, <2>2, <2>3, CutFacts DEF IsCut
    <2>5. Extends(s, r) /\ Extends(r, p)
      BY <1>1, <1>2, <2>2, <2>4 DEF Extends
    <2>6. IsPrefix(s, r) /\ IsPrefix(r, p)
      BY <2>4, <2>5, PrefixMeans
    <2>7. \A i \in 1 .. k : q[i] = to[i]
      BY <1>2, <1>4, <1>5, <1>7
    <2>8. ASSUME NEW i \in 1 .. h - l
          PROVE  q[k + i] = r[l + i]
      <3>1. /\ k + i \in 1 .. j /\ i \in 1 .. m - l /\ l + i \in 1 .. h
        BY <1>2, <1>7, <2>2
      <3> QED BY <1>4, <1>5, <2>4, <3>1
    <2>9. j = k + (h - l)
      BY <1>2, <2>2
    <2>10. IsAt(q, to, s, r)
      BY <1>1, <2>4, <2>7, <2>8, <2>9 DEF IsAt
    <2>11. q = At(to, s, r)
      BY <2>4, <2>6, <2>10, AtUnique
    <2> QED BY <2>4, <2>6, <2>11
  <1> QED BY <1>6, <1>7

\* So the place of a path is on the way to the place of another only if the
\* path is on the way to the other.
LEMMA AtOrder ==
  ASSUME NEW to \in Path, NEW s \in Path, NEW p \in Path, NEW r \in Path,
         IsPrefix(s, p), IsPrefix(s, r), IsPrefix(At(to, s, r), At(to, s, p))
  PROVE  IsPrefix(r, p)
  <1>1. PICK q : q = At(to, s, r)
    OBVIOUS
  <1>2. q \in Path /\ IsPrefix(to, q)
    BY <1>1, AtBelow
  <1>3. ~(IsPrefix(q, to) /\ q # to)
    BY <1>2, PrefixAntisymmetric
  <1>4. PICK x \in Path : IsPrefix(s, x) /\ IsPrefix(x, p) /\ q = At(to, s, x)
    BY <1>1, <1>2, <1>3, AtWay
  <1>5. x = r
    BY <1>1, <1>4, AtInjective
  <1> QED BY <1>4, <1>5

\* The place of an entry is in the place of its directory.
LEMMA AtFront ==
  ASSUME NEW to \in Path, NEW s \in Path, NEW p \in Path, NEW c \in Path,
         IsPrefix(s, p), IsPrefix(p, c), Len(c) = Len(p) + 1
  PROVE  Front(At(to, s, c)) = At(to, s, p)
  <1>1. PICK k, l, m : k = Len(to) /\ l = Len(s) /\ m = Len(p)
    OBVIOUS
  <1>2. k \in Nat /\ l \in Nat /\ m \in Nat /\ l <= m
    BY <1>1, PathFacts, PrefixMeans DEF Extends
  <1>3. PICK y, z : y = At(to, s, p) /\ z = At(to, s, c)
    OBVIOUS
  <1>4. IsPrefix(s, c)
    BY PrefixTransitive
  <1>5. y \in Path /\ Len(y) = k + (m - l) /\ z \in Path /\ Len(z) = k + ((m + 1) - l)
    <2>1. IsAt(y, to, s, p) /\ IsAt(z, to, s, c)
      BY <1>3, <1>4, AtFacts
    <2> QED BY <1>1, <2>1 DEF IsAt
  <1>6. z = At(y, p, c)
    BY <1>3, AtCompose
  <1>7. IsPrefix(y, z)
    BY <1>5, <1>6, AtBelow
  <1>8. Len(y) = Len(z) - 1
    BY <1>2, <1>5
  <1>9. Front(z) = y
    BY <1>5, <1>7, <1>8, FrontUnique
  <1> QED BY <1>3, <1>9


-----------------------------------------------------------------------------
(* The plain cases: nothing stands in the way                              *)

\* The one source, and where it goes.
Top == cmd.sources[1].path

Home == Dest(Top)

Place(r) == At(Home, Top, r)

\* Nothing but directories that may be written on the way to p.
Clear(u, p) == \A q \in Prefixes(p) : Node(u, q) \in {"dir", "absent"}

\* Where a directory goes is such a directory or nothing, where a file goes
\* no directory.
Mirrored(u) ==
  \A r \in DOMAIN Old : IsPrefix(Top, r) =>
    IF IsDir(Old, r) THEN Node(u, Place(r)) \in {"dir", "absent"}
    ELSE Node(u, Place(r)) \notin DirKinds

Open(u) == ~SrcRemote \/ IsDir(Old, Top) => Clear(u, Front(Home))

\* The item takes a node of the source to its place.
Fit(w) ==
  /\ w.from \in DOMAIN Old /\ IsPrefix(Top, w.from) /\ Goal(w) = Place(w.from)
  /\ w.op = "single" => w.from = Top
  /\ w.op = "file" => IsFile(Old, w.from)

\* A download finds the directory of its target.
Ready(u, w) ==
  SrcRemote /\ IsFile(Old, w.from) => Node(u, Front(Goal(w))) = "dir"

\* Nothing longer is where a plain upload goes.
Unmixed(u) == ~SrcRemote => <<Node(u, Home), Node(Old, Top)>> \notin Longer

FeasInv ==
  Feasible /\ faults = 0 =>
    /\ outcome # "err" /\ ~interrupted
    /\ Mirrored(tree[To]) /\ Open(tree[To]) /\ Unmixed(tree[To])
    /\ \A w : Among(w, work) => Fit(w) /\ Ready(tree[To], w)

\* What the plain cases are.
LEMMA FeasFacts ==
  ASSUME CopyInv, Feasible
  PROVE  /\ Named /\ ~BadArgs /\ Top \in Path /\ Home \in Path /\ Home # <<>>
         /\ Top \in DOMAIN Old /\ Home \notin DOMAIN tree0[To]
         /\ ToSet(cmd.sources) = {cmd.sources[1]} /\ cmd.sources[1].glob = {}
         /\ IsDir(Old, Top) => /\ SrcRemote /\ cmd.recursive
                               /\ \A q \in DOMAIN Old :
                                    IsPrefix(Top, q) => Old[q] # "ro"
         /\ Open(tree0[To])
         /\ SrcRemote /\ IsFile(Old, Top) => Node(tree0[To], Front(Home)) = "dir"
  <1>1. cmd \in Commands /\ tree0 \in Worlds
    BY DEF CopyInv, ControlInv, TreesInv
  <1>2. /\ ~BadArgs /\ ~Multiple /\ cmd.sources[1].glob = {}
        /\ Home \notin DOMAIN tree0[To]
        /\ \/ /\ SrcRemote /\ cmd.recursive /\ IsDir(tree0.remote, Top)
              /\ \A q \in DOMAIN tree0.remote :
                   IsPrefix(Top, q) => tree0.remote[q] # "ro"
              /\ Clear(tree0.local, Home)
           \/ /\ SrcRemote /\ IsFile(tree0.remote, Top)
              /\ Node(tree0.local, Front(Home)) = "dir"
           \/ /\ ~SrcRemote /\ IsFile(tree0.local, Top)
              /\ Clear(tree0.remote, Front(Home))
    BY DEF Feasible, Top, Home, Clear
  <1>3. /\ cmd.sources # <<>> /\ Len(cmd.sources) \in Nat
        /\ DOMAIN cmd.sources = 1 .. Len(cmd.sources)
    BY <1>1, CopyAssumption, ArgFacts
  <1>4. Len(cmd.sources) = 1 /\ DOMAIN cmd.sources = {1}
    <2>1. Len(cmd.sources) # 0
      BY <1>1, <1>3, ArgFacts, EmptySeq
    <2>2. PICK n : n = Len(cmd.sources)
      OBVIOUS
    <2>3. ~(n > 1)
      BY <1>2, <2>2, Zenon DEF Multiple
    <2>4. n \in Nat /\ n # 0
      BY <1>3, <2>1, <2>2
    <2>5. n = 1
      BY <2>3, <2>4
    <2>6. DOMAIN cmd.sources = 1 .. n
      BY <1>3, <2>2
    <2> QED BY <2>2, <2>5, <2>6
  <1>5. ToSet(cmd.sources) = {cmd.sources[1]}
    BY <1>4 DEF ToSet
  <1>6. Top \in Path /\ Home \in Path
    <2>1. Top \in Path
      BY <1>1, <1>4, ArgFacts DEF Top
    <2> QED BY <1>1, <2>1, DestType DEF Home
  <1>7. Home # <<>>
    <2>1. <<>> \in DOMAIN tree0[To]
      BY <1>1, CopyAssumption, Sides
    <2> QED BY <1>2, <2>1
  <1>8. (SrcRemote => Old = tree0.remote /\ tree0[To] = tree0.local)
        /\ (~SrcRemote => Old = tree0.local /\ tree0[To] = tree0.remote)
    BY Sides DEF Old
  <1>9. ~(IsDir(Old, Top) /\ IsFile(Old, Top))
    BY DEF IsDir, IsFile
  <1>10. IsDir(Old, Top) \/ IsFile(Old, Top)
    BY <1>2, <1>8
  <1>11. Top \in DOMAIN Old
    BY <1>10 DEF IsDir, IsFile, Node, DirKinds
  <1>12. ASSUME Clear(tree0[To], Home)
         PROVE  Clear(tree0[To], Front(Home))
    <2>1. Front(Home) \in Path /\ IsPrefix(Front(Home), Home)
      BY <1>6, <1>7, FrontFacts
    <2>2. \A q \in Prefixes(Front(Home)) : q \in Prefixes(Home)
      BY <1>6, <2>1, PrefixesMean, PrefixTransitive
    <2> QED BY <1>12, <2>2 DEF Clear
  <1>13. IsDir(Old, Top) => /\ SrcRemote /\ cmd.recursive
                            /\ \A q \in DOMAIN Old :
                                 IsPrefix(Top, q) => Old[q] # "ro"
                            /\ Clear(tree0[To], Home)
    BY <1>2, <1>8, <1>9
  <1>14. ~SrcRemote => Clear(tree0[To], Front(Home))
    BY <1>2, <1>8
  <1>15. Open(tree0[To])
    BY <1>12, <1>13, <1>14 DEF Open
  <1>16. SrcRemote /\ IsFile(Old, Top) => Node(tree0[To], Front(Home)) = "dir"
    BY <1>2, <1>8, <1>9
  <1>17. Named
    BY <1>2 DEF Named
  <1> QED BY <1>2, <1>5, <1>6, <1>7, <1>11, <1>13, <1>15, <1>16, <1>17

\* The arguments and the first trees decide them.
LEMMA StaticFeas ==
  ASSUME UNCHANGED <<cmd, tree0>>
  PROVE  /\ Feasible' = Feasible /\ To' = To
         /\ \A u : Mirrored(u)' = Mirrored(u)
         /\ \A u : Open(u)' = Open(u)
         /\ \A u : Unmixed(u)' = Unmixed(u)
         /\ \A w : Fit(w)' = Fit(w)
         /\ \A u, w : Ready(u, w)' = Ready(u, w)
  <1>1. Old' = Old /\ To' = To /\ SrcRemote' = SrcRemote
    BY DEF Old, From, To, SrcRemote
  <1>2. Top' = Top /\ Home' = Home
    BY DEF Top, Home, Dest, AsDirectory, Multiple
  <1>3. \A r : Place(r)' = Place(r)
    BY <1>2 DEF Place
  <1>4. Feasible' = Feasible
    BY <1>1 DEF Feasible, BadArgs, Multiple, Dest, AsDirectory, SrcRemote
  <1>5. \A u : Mirrored(u)' = Mirrored(u)
    BY <1>1, <1>2, <1>3 DEF Mirrored
  <1>6. \A u : Open(u)' = Open(u)
    BY <1>1, <1>2 DEF Open
  <1>7. \A w : Fit(w)' = Fit(w)
    BY <1>1, <1>2, <1>3 DEF Fit
  <1>8. \A u, w : Ready(u, w)' = Ready(u, w)
    BY <1>1 DEF Ready
  <1>9. \A u : Unmixed(u)' = Unmixed(u)
    BY <1>1, <1>2 DEF Unmixed
  <1> QED BY <1>1, <1>4, <1>5, <1>6, <1>7, <1>8, <1>9

\* The place of a node.
LEMMA PlaceFacts ==
  ASSUME CopyInv, Feasible, NEW r \in DOMAIN Old, IsPrefix(Top, r)
  PROVE  /\ r \in Path /\ Place(r) \in Path /\ IsPrefix(Home, Place(r))
         /\ Place(r) # <<>>
  <1>1. r \in Path /\ Top \in Path /\ Home \in Path /\ Home # <<>>
    BY OldFacts, FeasFacts
  <1>2. Place(r) \in Path /\ IsPrefix(Home, Place(r))
    BY <1>1, AtBelow DEF Place
  <1>3. Place(r) # <<>>
    <2>1. SUFFICES ASSUME Place(r) = <<>>
                   PROVE  FALSE
      OBVIOUS
    <2>2. Extends(Home, Place(r)) /\ Len(Home) \in Nat /\ Len(Home) > 0
      BY <1>1, <1>2, PrefixMeans, PathFacts
    <2>3. Len(Place(r)) = 0
      BY <2>1, EmptySeq
    <2> QED BY <2>2, <2>3 DEF Extends
  <1> QED BY <1>1, <1>2, <1>3


\* Both worlds are trees at the start.
LEMMA WorldTrees ==
  ASSUME tree0 \in Worlds, NEW side \in {"local", "remote"}
  PROVE  IsTree(tree0[side])
  <1>1. /\ DOMAIN tree0[side] \subseteq Path
        /\ \A p \in DOMAIN tree0[side] : tree0[side][p] # "absent"
        /\ \A p \in DOMAIN tree0[side] :
             p # <<>> => /\ Front(p) \in DOMAIN tree0[side]
                         /\ tree0[side][Front(p)] \in DirKinds
    BY CopyAssumption DEF Path
  <1> QED BY <1>1 DEF IsTree, IsDir, Node

\* Nothing is at or below a place that does not exist.
LEMMA MirroredAtFirst ==
  ASSUME CopyInv, Feasible
  PROVE  Mirrored(tree0[To])
  <1>1. /\ IsTree(tree0[To]) /\ Home \in Path /\ Home \notin DOMAIN tree0[To]
    BY WorldTrees, FeasFacts, Sides DEF CopyInv, TreesInv
  <1>2. ASSUME NEW r \in DOMAIN Old, IsPrefix(Top, r)
        PROVE  Place(r) \notin DOMAIN tree0[To]
    <2>1. SUFFICES ASSUME Place(r) \in DOMAIN tree0[To]
                   PROVE  FALSE
      OBVIOUS
    <2>2. IsPrefix(Home, Place(r))
      BY <1>2, PlaceFacts
    <2>3. Home # Place(r)
      BY <1>1, <2>1
    <2>4. IsDir(tree0[To], Home)
      BY <1>1, <2>1, <2>2, <2>3, TreePrefix
    <2> QED BY <1>1, <2>4 DEF IsDir, Node, DirKinds
  <1>3. \A r \in DOMAIN Old : IsPrefix(Top, r) =>
          Node(tree0[To], Place(r)) = "absent"
    BY <1>2 DEF Node
  <1>4. "absent" \notin DirKinds
    BY DEF DirKinds
  <1> QED BY <1>3, <1>4 DEF Mirrored

\* The way to the place of a directory is clear.
LEMMA WayClear ==
  ASSUME CopyInv, Feasible, NEW u, Mirrored(u), Open(u),
         NEW p \in DOMAIN Old, IsPrefix(Top, p), IsDir(Old, p)
  PROVE  Clear(u, Place(p))
  <1>1. /\ IsTree(Old) /\ Top \in Path /\ Home \in Path /\ p \in Path
        /\ Place(p) \in Path /\ Home # <<>>
    BY OldFacts, FeasFacts, PlaceFacts
  <1>2. IsDir(Old, Top)
    BY <1>1, TreePrefix
  <1>3. Clear(u, Front(Home))
    BY <1>2 DEF Open
  <1>4. ASSUME NEW q \in Prefixes(Place(p))
        PROVE  Node(u, q) \in {"dir", "absent"}
    <2>1. q \in Path /\ IsPrefix(q, At(Home, Top, p))
      BY <1>1, PrefixesMean DEF Place
    <2>2. CASE IsPrefix(q, Home) /\ q # Home
      <3>1. IsPrefix(q, Front(Home)) /\ Front(Home) \in Path
        BY <1>1, <2>1, <2>2, PrefixFront, FrontFacts
      <3>2. q \in Prefixes(Front(Home))
        BY <2>1, <3>1, PrefixesMean
      <3> QED BY <1>3, <3>2 DEF Clear
    <2>3. CASE \E r \in Path : /\ IsPrefix(Top, r) /\ IsPrefix(r, p)
                               /\ q = At(Home, Top, r)
      <3>1. PICK r \in Path : /\ IsPrefix(Top, r) /\ IsPrefix(r, p)
                              /\ q = At(Home, Top, r)
        BY <2>3
      <3>2. IsDir(Old, r)
        BY <1>1, <3>1, TreePrefix
      <3>3. r \in DOMAIN Old
        BY <3>2 DEF IsDir, Node, DirKinds
      <3> QED BY <3>1, <3>2, <3>3 DEF Mirrored, Place
    <2> QED BY <1>1, <2>1, <2>2, <2>3, AtWay
  <1> QED BY <1>4 DEF Clear

\* os.MkdirAll succeeds on it,
LEMMA ClearCan ==
  ASSUME NEW u, NEW p \in Path, Clear(u, p)
  PROVE  CanMkdirAll(u, p)
  <1>1. \A q \in Prefixes(p) : Node(u, q) \in {"dir", "absent"}
    BY DEF Clear
  <1>2. ASSUME NEW q \in Prefixes(p), q # <<>>
        PROVE  Node(u, Front(q)) # "ro"
    <2>1. q \in Path /\ IsPrefix(q, p)
      BY PrefixesMean
    <2>2. Front(q) \in Path /\ IsPrefix(Front(q), q)
      BY <1>2, <2>1, FrontFacts
    <2>3. Front(q) \in Prefixes(p)
      BY <2>1, <2>2, PrefixTransitive, PrefixesMean
    <2> QED BY <1>1, <2>3
  <1> QED BY <1>1, <1>2 DEF CanMkdirAll, DirKinds

\* and then there are directories all the way.
LEMMA MkdirNodes ==
  ASSUME NEW u, IsTree(u), NEW p \in Path, Clear(u, p), NEW z
  PROVE  Node(MkdirAll(u, p), z) = IF z \in Prefixes(p) THEN "dir" ELSE Node(u, z)
  <1>1. PICK v : v = MkdirAll(u, p)
    OBVIOUS
  <1>2. /\ DOMAIN v = DOMAIN u \cup Prefixes(p)
        /\ \A q \in DOMAIN u : v[q] = u[q]
        /\ \A q \in Prefixes(p) : q \notin DOMAIN u => v[q] = "dir"
    BY <1>1 DEF MkdirAll
  <1>3. CASE z \in Prefixes(p)
    <2>1. CASE z \in DOMAIN u
      <3>1. u[z] # "absent" /\ Node(u, z) \in {"dir", "absent"} /\ Node(u, z) = u[z]
        BY <1>3, <2>1 DEF IsTree, Clear, Node
      <3>2. v[z] = "dir" /\ z \in DOMAIN v
        BY <1>2, <2>1, <3>1
      <3> QED BY <1>1, <1>3, <3>2 DEF Node
    <2>2. CASE z \notin DOMAIN u
      <3>1. v[z] = "dir" /\ z \in DOMAIN v
        BY <1>2, <1>3, <2>2
      <3> QED BY <1>1, <1>3, <3>1 DEF Node
    <2> QED BY <2>1, <2>2
  <1>4. CASE z \notin Prefixes(p)
    BY <1>1, <1>2, <1>4 DEF Node
  <1> QED BY <1>3, <1>4

\* The directories on the way to the place of a directory change nothing for
\* the rest.
LEMMA MkdirMirrors ==
  ASSUME CopyInv, Feasible, NEW u, Mirrored(u), Open(u),
         NEW p \in DOMAIN Old, IsPrefix(Top, p), IsDir(Old, p), NEW v,
         \A z : Node(v, z) = IF z \in Prefixes(Place(p)) THEN "dir" ELSE Node(u, z)
  PROVE  /\ Mirrored(v) /\ Open(v)
         /\ \A z : Node(u, z) = "dir" => Node(v, z) = "dir"
  <1>1. /\ IsTree(Old) /\ Top \in Path /\ Home \in Path /\ p \in Path
        /\ Place(p) \in Path
    BY OldFacts, FeasFacts, PlaceFacts
  <1>2. ASSUME NEW r \in DOMAIN Old, IsPrefix(Top, r), Place(r) \in Prefixes(Place(p))
        PROVE  IsDir(Old, r)
    <2>1. r \in Path
      BY <1>2, PlaceFacts
    <2>2. IsPrefix(Place(r), Place(p))
      BY <1>1, <1>2, PrefixesMean
    <2>3. IsPrefix(r, p)
      BY <1>1, <1>2, <2>1, <2>2, AtOrder DEF Place
    <2> QED BY <1>1, <2>1, <2>3, TreePrefix
  <1>3. \A r \in DOMAIN Old : IsPrefix(Top, r) =>
          IF IsDir(Old, r) THEN Node(v, Place(r)) \in {"dir", "absent"}
          ELSE Node(v, Place(r)) \notin DirKinds
    BY <1>2 DEF Mirrored
  <1>4. Open(v)
    BY DEF Open, Clear
  <1> QED BY <1>3, <1>4 DEF Mirrored

\* Nor does a file in its place, or the directories on the way to it.
LEMMA PutMirrors ==
  ASSUME CopyInv, Feasible, NEW u, Mirrored(u), Open(u),
         NEW p \in DOMAIN Old, IsPrefix(Top, p), IsFile(Old, p), NEW v,
         Node(v, Place(p)) \notin DirKinds,
         \A z : z # Place(p) =>
           \/ Node(v, z) = Node(u, z)
           \/ z \in Prefixes(Front(Home)) /\ Node(v, z) = "dir"
  PROVE  /\ Mirrored(v) /\ Open(v)
         /\ \A z : Node(u, z) = "dir" => Node(v, z) = "dir"
  <1>1. /\ Top \in Path /\ Home \in Path /\ p \in Path /\ Place(p) \in Path
        /\ Home # <<>>
    BY FeasFacts, PlaceFacts
  <1>2. ~IsDir(Old, p)
    BY DEF IsFile, IsDir
  <1>3. ASSUME NEW r \in DOMAIN Old, IsPrefix(Top, r)
        PROVE  Place(r) \notin Prefixes(Front(Home))
    <2>1. SUFFICES ASSUME Place(r) \in Prefixes(Front(Home))
                   PROVE  FALSE
      OBVIOUS
    <2>2. PICK y : y = Front(Home)
      OBVIOUS
    <2>3. /\ y \in Path /\ Len(y) = Len(Home) - 1 /\ Len(Home) \in Nat
      BY <1>1, <2>2, FrontFacts, PathFacts
    <2>4. Place(r) \in Path /\ IsPrefix(Home, Place(r)) /\ IsPrefix(Place(r), y)
      BY <1>3, <2>1, <2>2, <2>3, PlaceFacts, PrefixesMean
    <2>5. IsPrefix(Home, y)
      BY <1>1, <2>3, <2>4, PrefixTransitive
    <2>6. Len(Home) <= Len(y)
      BY <1>1, <2>3, <2>5, PrefixMeans DEF Extends
    <2> QED BY <2>3, <2>6
  <1>4. ASSUME NEW r \in DOMAIN Old, IsPrefix(Top, r)
        PROVE  IF IsDir(Old, r) THEN Node(v, Place(r)) \in {"dir", "absent"}
               ELSE Node(v, Place(r)) \notin DirKinds
    <2>1. CASE Place(r) = Place(p)
      <3>1. r = p
        BY <1>1, <1>4, <2>1, PlaceFacts, AtInjective DEF Place
      <3> QED BY <1>2, <3>1
    <2>2. CASE Place(r) # Place(p)
      <3>1. Node(v, Place(r)) = Node(u, Place(r))
        BY <1>3, <1>4, <2>2
      <3> QED BY <1>4, <3>1 DEF Mirrored
    <2> QED BY <2>1, <2>2
  <1>5. Mirrored(v)
    BY <1>4 DEF Mirrored
  <1>6. Open(v)
    <2>1. ASSUME Clear(u, Front(Home)), NEW q \in Prefixes(Front(Home))
          PROVE  Node(v, q) \in {"dir", "absent"}
      <3>1. q # Place(p)
        BY <1>3
      <3> QED BY <2>1, <3>1 DEF Clear
    <2> QED BY <2>1 DEF Open, Clear
  <1>7. ASSUME NEW z, Node(u, z) = "dir"
        PROVE  Node(v, z) = "dir"
    <2>1. Node(u, Place(p)) \notin DirKinds
      BY <1>2 DEF Mirrored
    <2>2. z # Place(p)
      BY <1>7, <2>1 DEF DirKinds
    <2> QED BY <1>7, <2>2
  <1> QED BY <1>5, <1>6, <1>7


\* The next item is replaced by others, and nothing is in their way.
LEMMA FeasAdvance ==
  ASSUME CopyInv, FeasInv, Feasible, faults = 0, work # <<>>,
         UNCHANGED <<cmd, tree0, interrupted>>, outcome' # "err",
         NEW new \in Seq(Todo), work' = new \o Tail(work),
         NEW u, tree'[To] = u, Mirrored(u), Open(u), Unmixed(u),
         \A z : Node(tree[To], z) = "dir" => Node(u, z) = "dir",
         \A v : Among(v, new) => Fit(v) /\ Ready(u, v)
  PROVE  FeasInv'
  <1>1. \A w : Among(w, work) => Fit(w) /\ Ready(tree[To], w)
    BY DEF FeasInv
  <1>2. \A w : Among(w, work)' => Among(w, new) \/ Among(w, work)
    <2>1. PICK t, z : t = Tail(work) /\ z = new \o t
      OBVIOUS
    <2>2. t \in Seq(Todo)
      BY <2>1, WorkFacts DEF CopyInv
    <2>3. \A w : Among(w, z) <=> Among(w, new) \/ Among(w, t)
      BY <2>1, <2>2, AmongJoin
    <2>4. \A w : Among(w, t) => Among(w, work)
      BY <2>1, AmongTail DEF CopyInv
    <2>5. work' = z
      BY <2>1
    <2>6. \A w : Among(w, work)' <=> Among(w, z)
      BY <2>5 DEF Among
    <2> QED BY <2>3, <2>4, <2>6
  <1>3. \A w : Ready(tree[To], w) => Ready(u, w)
    BY DEF Ready
  <1>4. \A w : Among(w, work)' => Fit(w) /\ Ready(u, w)
    BY <1>1, <1>2, <1>3
  <1>5. tree'[To'] = u /\ Mirrored(u)' /\ Open(u)' /\ Unmixed(u)'
        /\ \A w : Among(w, work)' => Fit(w)' /\ Ready(u, w)'
    BY <1>4, StaticFeas
  <1>6. Mirrored(tree[To])' /\ Open(tree[To])' /\ Unmixed(tree[To])'
    BY <1>5 DEF Mirrored, Open, Unmixed
  <1>7. \A w : Among(w, work)' => Fit(w)' /\ Ready(tree[To], w)'
    BY <1>5 DEF Ready
  <1> QED BY <1>6, <1>7 DEF FeasInv

\* The next item.
LEMMA FeasHead ==
  ASSUME CopyInv, FeasInv, Feasible, faults = 0, work # <<>>
  PROVE  /\ Head(work) \in Todo /\ Fit(Head(work)) /\ Ready(tree[To], Head(work))
         /\ outcome # "err" /\ Mirrored(tree[To]) /\ Open(tree[To])
         /\ Unmixed(tree[To]) /\ ~interrupted /\ IsTree(tree[To])
  <1>1. Among(Head(work), work)
    BY AmongTail DEF CopyInv
  <1>2. IsTree(tree[To])
    BY Sides DEF CopyInv, TreesInv
  <1> QED BY <1>1, <1>2, WorkFacts DEF FeasInv, CopyInv

\* The one source is the list.
LEMMA FeasExpand ==
  ASSUME CopyInv, FeasInv, Feasible, faults = 0, ExpandSources, pc = "expand",
         outcome = "none"
  PROVE  FeasInv'
  <1>1. UNCHANGED <<cmd, tree, faults, interrupted, tree0>> /\ tree = tree0
    BY DEF ExpandSources, CopyInv, ControlInv
  <1>2. PICK s : s = cmd.sources[1]
    OBVIOUS
  <1>3. /\ ~BadArgs /\ ToSet(cmd.sources) = {s} /\ s.glob = {} /\ s.path = Top
    BY <1>2, FeasFacts DEF Top
  <1>4. Expand(s) = {Top}
    BY <1>3 DEF Expand, ExpandLocal, ExpandRemote
  <1>5. ~(\/ BadArgs
          \/ \E x \in ToSet(cmd.sources) : x.glob # {} /\ Matches(x) = {}
          \/ \A x \in ToSet(cmd.sources) : Expand(x) = {})
    BY <1>3, <1>4
  <1>6. outcome' # "err" /\ (work' = <<>> \/ work' = FlattenSeq(ListedAll))
    <2>1. \/ Exit("ok")
          \/ UNCHANGED outcome /\ work' = FlattenSeq(ListedAll)
      BY <1>5 DEF ExpandSources, ListedAll, Listed
    <2> QED BY <2>1 DEF Exit
  <1>7. \A w : Among(w, work)' => w = Single(Top)
    <2>1. CASE work' = <<>>
      BY <2>1, EmptySeq DEF Among
    <2>2. CASE work' = FlattenSeq(ListedAll)
      <3>1. \A w : Among(w, work)' <=> Among(w, FlattenSeq(ListedAll))
        BY <2>2 DEF Among
      <3> QED BY <1>3, <1>4, <3>1, AmongListedAll
    <2> QED BY <1>6, <2>1, <2>2
  <1>8. PICK w : w = Single(Top)
    OBVIOUS
  <1>9. /\ w.op = "single" /\ w.from = Top /\ Goal(w) = Home
    BY <1>8, FeasFacts, SingleGoal DEF CopyInv, ControlInv, Home
  <1>10. Fit(w) /\ Ready(tree[To], w)
    <2>1. Place(Top) = Home /\ IsPrefix(Top, Top) /\ Top \in DOMAIN Old
      BY FeasFacts, AtSelf, PrefixReflexive DEF Place
    <2>2. Fit(w)
      BY <1>9, <2>1 DEF Fit
    <2>3. Ready(tree[To], w)
      BY <1>1, <1>9, FeasFacts DEF Ready
    <2> QED BY <2>2, <2>3
  <1>11. PICK u : u = tree[To]
    OBVIOUS
  <1>12. Mirrored(u) /\ Open(u) /\ Unmixed(u) /\ Ready(u, w) /\ Fit(w)
    BY <1>10, <1>11 DEF FeasInv
  <1>13. /\ tree'[To'] = u /\ Mirrored(u)' /\ Open(u)' /\ Unmixed(u)'
         /\ Fit(w)' /\ Ready(u, w)'
    BY <1>1, <1>11, <1>12, StaticFeas
  <1>14. Mirrored(tree[To])' /\ Open(tree[To])' /\ Unmixed(tree[To])'
         /\ ~interrupted'
    BY <1>1, <1>13 DEF Mirrored, Open, Unmixed, FeasInv
  <1>15. \A x : Among(x, work)' => Fit(x)' /\ Ready(tree[To], x)'
    BY <1>7, <1>8, <1>13 DEF Ready
  <1> QED BY <1>6, <1>14, <1>15 DEF FeasInv

\* The router finds a file, or a directory and -r.
LEMMA FeasSingle ==
  ASSUME CopyInv, FeasInv, Feasible, faults = 0, CopySingle
  PROVE  FeasInv'
  <1>1. /\ work # <<>> /\ Head(work).op = "single"
        /\ UNCHANGED <<cmd, tree, faults, interrupted, tree0>>
    BY DEF CopySingle, Current
  <1>2. PICK w : w = Head(work)
    OBVIOUS
  <1>3. PICK u : u = tree[To]
    OBVIOUS
  <1>4. /\ Fit(w) /\ Ready(u, w) /\ outcome # "err" /\ Mirrored(u) /\ Open(u)
        /\ Unmixed(u)
    BY <1>1, <1>2, <1>3, FeasHead
  <1>5. w.from = Top /\ w.from \in DOMAIN Old
    BY <1>1, <1>2, <1>4 DEF Fit
  <1>6. ~(IsDir(Old, w.from) /\ ~cmd.recursive)
    BY <1>5, FeasFacts
  <1>7. PICK v \in Todo : work' = <<v>> \o Tail(work) /\ Turned(v, w)
    BY <1>2, <1>6, SingleTurns
  <1>8. UNCHANGED outcome
    BY <1>2, <1>6, SingleTurns
  <1>9. IsDir(Old, w.from) \/ IsFile(Old, w.from)
    <2>1. Old[w.from] # "absent"
      BY <1>5, OldFacts DEF IsTree
    <2> QED BY <1>5, <2>1 DEF IsDir, IsFile, Node
  <1>10. Fit(v) /\ Ready(u, v)
    <2>1. Fit(v)
      BY <1>4, <1>7, <1>9 DEF Fit, Turned
    <2>2. Ready(u, v)
      BY <1>4, <1>7 DEF Ready, Turned
    <2> QED BY <2>1, <2>2
  <1>11. PICK new : new = <<v>>
    OBVIOUS
  <1>12. new \in Seq(Todo) /\ work' = new \o Tail(work) /\ \A x : Among(x, new) => x = v
    BY <1>7, <1>11 DEF Among
  <1>13. tree'[To] = u /\ \A z : Node(tree[To], z) = "dir" => Node(u, z) = "dir"
    BY <1>1, <1>3
  <1>14. \A x : Among(x, new) => Fit(x) /\ Ready(u, x)
    BY <1>10, <1>12
  <1> QED BY <1>1, <1>4, <1>8, <1>12, <1>13, <1>14, FeasAdvance

\* A plain upload is of a file, which no walk comes to.
LEMMA FeasWalkLocal ==
  ASSUME CopyInv, FeasInv, Feasible, faults = 0, WalkLocal
  PROVE  FALSE
  <1>1. work # <<>> /\ Head(work).op = "walk" /\ ~SrcRemote
    BY DEF WalkLocal, Current
  <1>2. PICK w : w = Head(work)
    OBVIOUS
  <1>3. w \in Todo /\ w.from \in DOMAIN Old /\ IsPrefix(Top, w.from)
    BY <1>1, <1>2, FeasHead DEF Fit
  <1>4. IsDir(Old, w.from)
    BY <1>1, <1>2, <1>3, ItemFacts DEF Old
  <1>5. ~IsDir(Old, Top) /\ Top \in Path
    BY <1>1, FeasFacts
  <1>6. w.from = Top
    BY <1>3, <1>5, FileAlone, OldFacts
  <1> QED BY <1>4, <1>5, <1>6

\* A walk can make its directory, and its entries find it.
LEMMA FeasWalkRemote ==
  ASSUME CopyInv, FeasInv, Feasible, faults = 0, WalkRemote
  PROVE  FeasInv'
  <1>1. /\ work # <<>> /\ Head(work).op = "walk" /\ SrcRemote
        /\ UNCHANGED <<cmd, faults, interrupted, tree0>>
    BY DEF WalkRemote, Current
  <1>2. PICK w : w = Head(work)
    OBVIOUS
  <1>3. PICK t, p, to : t = tree["local"] /\ p = w.from /\ to = w.to
    OBVIOUS
  <1>4. To = "local" /\ From = "remote" /\ tree[To] = t /\ To \in DOMAIN tree
    BY <1>1, <1>3, Sides DEF CopyInv, TreesInv
  <1>5. /\ w \in Todo /\ Fit(w) /\ outcome # "err" /\ Mirrored(t) /\ Open(t)
        /\ IsTree(t)
    BY <1>1, <1>2, <1>4, FeasHead
  <1>6. /\ p \in DOMAIN Old /\ IsPrefix(Top, p) /\ to = Place(p) /\ w.op = "walk"
        /\ to \in Path /\ p \in Path /\ IsPrefix(cmd.dst.path, to) /\ IsDir(Old, p)
    BY <1>1, <1>2, <1>3, <1>5, GoalType, ItemFacts, OldFacts DEF Fit, Old
  <1>7. Clear(t, to)
    BY <1>5, <1>6, WayClear
  <1>8. CanMkdirAll(t, to)
    BY <1>6, <1>7, ClearCan
  <1>9. tree.remote[p] = "dir"
    <2>1. tree.remote = Old
      BY <1>4, OldFacts
    <2>2. Old[p] # "ro" /\ Old[p] \in DirKinds
      <3>1. IsDir(Old, Top)
        BY <1>6, FeasFacts, TreePrefix, OldFacts
      <3>2. Old[p] # "ro"
        BY <1>6, <3>1, FeasFacts
      <3> QED BY <1>6, <3>2 DEF IsDir, Node
    <2> QED BY <2>1, <2>2 DEF DirKinds
  <1>10. PICK x, u : x = MkdirAll(t, to) /\ u = With(x, to, "dir")
    OBVIOUS
  <1>11. /\ tree' = [tree EXCEPT !["local"] = u] /\ Descend(p, to)
         /\ UNCHANGED <<pc, outcome>>
    BY <1>2, <1>3, <1>8, <1>9, <1>10 DEF WalkRemote
  <1>12. tree'[To] = u
    BY <1>4, <1>11
  <1>13. \A z : Node(u, z) = IF z \in Prefixes(to) THEN "dir" ELSE Node(t, z)
    <2>1. \A z : Node(x, z) = IF z \in Prefixes(to) THEN "dir" ELSE Node(t, z)
      BY <1>5, <1>6, <1>7, <1>10, MkdirNodes
    <2>2. \A z : Node(u, z) = IF z = to THEN "dir" ELSE Node(x, z)
      BY <1>10 DEF With, Node
    <2>3. to \in Prefixes(to)
      BY <1>6, PrefixesMean, PrefixReflexive
    <2> QED BY <2>1, <2>2, <2>3
  <1>14. /\ Mirrored(u) /\ Open(u)
         /\ \A z : Node(t, z) = "dir" => Node(u, z) = "dir"
    BY <1>5, <1>6, <1>13, MkdirMirrors
  <1>15. Node(u, to) = "dir"
    BY <1>6, <1>13, PrefixesMean, PrefixReflexive
  <1>16. PICK new \in Seq(Todo) :
           /\ work' = new \o Tail(work)
           /\ \A v : Among(v, new) <=> \E c \in Children(Old, p) : v = Entry(c, to)
    BY <1>1, <1>6, <1>11, DescendEntries
  <1>17. ASSUME NEW c \in Children(Old, p)
         PROVE  Fit(Entry(c, to)) /\ Ready(u, Entry(c, to))
    <2>1. PICK v : v = Entry(c, to)
      OBVIOUS
    <2>2. /\ c \in DOMAIN Old /\ c \in Path /\ IsPrefix(p, c)
          /\ v.from = c /\ Goal(v) = At(to, p, c)
          /\ v.op = IF IsDir(Old, c) THEN "walk" ELSE "file"
      BY <1>6, <2>1, EntryFacts
    <2>3. Len(c) = Len(p) + 1 /\ Top \in Path /\ Home \in Path
      BY FeasFacts DEF Children
    <2>4. IsPrefix(Top, c) /\ At(to, p, c) = Place(c)
      BY <1>6, <2>2, <2>3, PrefixTransitive, AtCompose DEF Place
    <2>5. Front(Place(c)) = to
      BY <1>6, <2>2, <2>3, AtFront DEF Place
    <2>6. IsDir(Old, c) \/ IsFile(Old, c)
      <3>1. Old[c] # "absent"
        BY <2>2, OldFacts DEF IsTree
      <3> QED BY <2>2, <3>1 DEF IsDir, IsFile, Node
    <2>7. Fit(v)
      BY <2>2, <2>4, <2>6 DEF Fit
    <2>8. Ready(u, v)
      BY <1>15, <2>2, <2>4, <2>5 DEF Ready
    <2> QED BY <2>1, <2>7, <2>8
  <1>18. \A v : Among(v, new) => Fit(v) /\ Ready(u, v)
    BY <1>16, <1>17
  <1>19. \A z : Node(tree[To], z) = "dir" => Node(u, z) = "dir"
    BY <1>4, <1>14
  <1>20. outcome' # "err" /\ new \in Seq(Todo) /\ work' = new \o Tail(work)
    BY <1>5, <1>11, <1>16
  <1>21. Unmixed(u)
    BY <1>1 DEF Unmixed
  <1> QED BY <1>1, <1>12, <1>14, <1>18, <1>19, <1>20, <1>21, FeasAdvance

\* A transfer can put its file.
LEMMA FeasFile ==
  ASSUME CopyInv, FeasInv, Feasible, faults = 0, Current("file"),
         CopyFile \/ CopyFileFails
  PROVE  FeasInv'
  <1>1. /\ work # <<>> /\ Head(work).op = "file"
        /\ UNCHANGED <<cmd, faults, interrupted, tree0>>
    BY DEF CopyFile, CopyFileFails, Current
  <1>2. PICK w : w = Head(work)
    OBVIOUS
  <1>3. PICK t, p, to : t = tree[To] /\ p = w.from /\ to = w.to
    OBVIOUS
  <1>4. /\ w \in Todo /\ Fit(w) /\ Ready(t, w) /\ outcome # "err" /\ Mirrored(t)
        /\ Open(t) /\ Unmixed(t) /\ IsTree(t)
    BY <1>1, <1>2, <1>3, FeasHead
  <1>5. Goal(w) = to /\ to \in Path /\ p \in Path
    BY <1>1, <1>2, <1>3, <1>4, GoalType, ItemFacts
  <1>6. /\ p \in DOMAIN Old /\ IsPrefix(Top, p) /\ to = Place(p) /\ to # <<>>
        /\ IsFile(Old, p)
    BY <1>1, <1>2, <1>3, <1>4, <1>5, PlaceFacts DEF Fit
  <1>7. Node(t, to) \notin DirKinds
    BY <1>4, <1>6 DEF Mirrored, IsFile, IsDir
  <1>8. SrcRemote => Node(t, Front(to)) = "dir"
    BY <1>3, <1>4, <1>5, <1>6 DEF Ready
  <1>9. ~SrcRemote => /\ to = Home /\ p = Top /\ Clear(t, Front(Home))
                      /\ CanMkdirAll(t, Front(to)) /\ Node(t, Front(to)) # "ro"
    <2> SUFFICES ASSUME ~SrcRemote
                 PROVE  /\ to = Home /\ p = Top /\ Clear(t, Front(Home))
                        /\ CanMkdirAll(t, Front(to)) /\ Node(t, Front(to)) # "ro"
      OBVIOUS
    <2>1. ~IsDir(Old, Top) /\ Top \in Path /\ Home \in Path /\ Home # <<>>
      BY FeasFacts
    <2>2. p = Top
      BY <1>6, <2>1, FileAlone, OldFacts
    <2>3. to = Home
      BY <1>6, <2>1, <2>2, AtSelf DEF Place
    <2>4. Clear(t, Front(Home))
      BY <1>4 DEF Open
    <2>5. Node(t, Front(Home)) # "ro"
      <3>1. Front(Home) \in Prefixes(Front(Home))
        BY <2>1, FrontFacts, PrefixesMean, PrefixReflexive
      <3> QED BY <2>4, <3>1 DEF Clear
    <2> QED BY <2>1, <2>2, <2>3, <2>4, <2>5, FrontFacts, ClearCan
  <1>10. CanPut(to)
    <2>1. CASE SrcRemote
      <3>1. t = tree.local
        BY <1>3, <2>1, Sides
      <3>2. "dir" \in DirKinds /\ "dir" # "ro"
        BY DEF DirKinds
      <3> QED BY <1>7, <1>8, <2>1, <3>1, <3>2 DEF CanPut, IsDir
    <2>2. CASE ~SrcRemote
      <3>1. t = tree.remote
        BY <1>3, <2>2, Sides
      <3> QED BY <1>6, <1>7, <1>9, <2>2, <3>1 DEF CanPut, CanCreate, IsDir
    <2> QED BY <2>1, <2>2
  <1>11. tree[From] = Old /\ To \in DOMAIN tree
    BY OldFacts, Sides DEF CopyInv, TreesInv
  <1>12. PICK n, x : n = Old[p] /\ x = IF SrcRemote THEN t ELSE Create(t, to)
    OBVIOUS
  <1>13. PICK u : u = With(x, to, n)
    OBVIOUS
  <1>14. /\ tree' = [tree EXCEPT ![To] = u] /\ work' = Tail(work)
         /\ UNCHANGED <<pc, outcome>>
    <2>1. Transferring /\ CopyFile
      BY <1>2, <1>3, <1>6, <1>10, <1>11 DEF Transferring, CopyFileFails
    <2>2. n = Node(tree[From], p)
      BY <1>6, <1>11, <1>12 DEF IsFile, Node
    <2>3. Written(to, n) = n
      <3>1. ~SrcRemote => <<Node(tree.remote, to), n>> \notin Longer
        BY <1>3, <1>4, <1>9, <1>11, <2>2, Sides DEF Unmixed
      <3> QED BY <3>1 DEF Written
    <2>4. Put(to, n) /\ work' = Tail(work) /\ UNCHANGED <<pc, outcome>>
      BY <1>2, <1>3, <2>1, <2>2, <2>3 DEF CopyFile
    <2> QED BY <1>3, <1>12, <1>13, <2>4 DEF Put
  <1>15. tree'[To] = u
    BY <1>11, <1>14
  <1>16. Node(u, to) = n /\ n \notin DirKinds
    <2>1. Node(u, to) = n
      BY <1>13 DEF With, Node
    <2>2. n \notin DirKinds
      BY <1>6, <1>12 DEF IsFile, Node
    <2> QED BY <2>1, <2>2
  <1>17. ASSUME NEW z, z # to
         PROVE  \/ Node(u, z) = Node(t, z)
                \/ z \in Prefixes(Front(Home)) /\ Node(u, z) = "dir"
    <2>1. Node(u, z) = Node(x, z)
      BY <1>13, <1>17 DEF With, Node
    <2>2. CASE SrcRemote
      BY <1>12, <2>1, <2>2
    <2>3. CASE ~SrcRemote
      <3>1. PICK y : y = MkdirAll(t, Front(to))
        OBVIOUS
      <3>2. to = Home /\ Clear(t, Front(Home)) /\ Front(Home) \in Path
        BY <1>5, <1>6, <1>9, <2>3, FrontFacts
      <3>3. Node(y, z) = IF z \in Prefixes(Front(Home)) THEN "dir" ELSE Node(t, z)
        BY <1>4, <3>1, <3>2, MkdirNodes
      <3>4. x = OpenFile(y, to)
        BY <1>12, <2>3, <3>1 DEF Create
      <3>5. Node(x, z) = Node(y, z)
        BY <1>17, <3>4 DEF OpenFile, With, Node
      <3> QED BY <2>1, <3>3, <3>5
    <2> QED BY <2>2, <2>3
  <1>18. /\ Mirrored(u) /\ Open(u)
         /\ \A z : Node(t, z) = "dir" => Node(u, z) = "dir"
    <2>1. Node(u, Place(p)) \notin DirKinds
      BY <1>6, <1>16
    <2>2. \A z : z # Place(p) =>
            \/ Node(u, z) = Node(t, z)
            \/ z \in Prefixes(Front(Home)) /\ Node(u, z) = "dir"
      BY <1>6, <1>17
    <2> QED BY <1>4, <1>6, <2>1, <2>2, PutMirrors
  <1>19. PICK new : new = <<>>
    OBVIOUS
  <1>20. /\ new \in Seq(Todo) /\ work' = new \o Tail(work)
         /\ \A v : Among(v, new) => Fit(v) /\ Ready(u, v)
    <2>1. new \in Seq(Todo) /\ \A v : ~Among(v, new)
      BY <1>19, EmptySeq DEF Among
    <2>2. work' = new \o Tail(work)
      BY <1>1, <1>14, <1>19, WorkFacts, ConcatEmptySeq DEF CopyInv
    <2> QED BY <2>1, <2>2
  <1>21. \A z : Node(tree[To], z) = "dir" => Node(u, z) = "dir"
    BY <1>3, <1>18
  <1>22. outcome' # "err"
    BY <1>4, <1>14
  <1>23. Unmixed(u)
    <2>1. \A m : <<m, m>> \notin Longer
      BY CopyAssumption
    <2>2. ~SrcRemote => Node(u, Home) = Node(Old, Top)
      BY <1>6, <1>9, <1>12, <1>16 DEF IsFile, Node
    <2> QED BY <2>1, <2>2 DEF Unmixed
  <1> QED BY <1>1, <1>15, <1>18, <1>20, <1>21, <1>22, <1>23, FeasAdvance


\* Every step keeps it: a fault is the only way to fail.
LEMMA FeasStep == CopyInv /\ WorkInv /\ FeasInv /\ [Next]_vars => FeasInv'
  <1> SUFFICES ASSUME CopyInv, WorkInv, FeasInv, [Next]_vars PROVE FeasInv'
    OBVIOUS
  <1>1. UNCHANGED <<cmd, tree0>>
    BY DEF Next, vars, ExpandSources, CopySingle, WalkLocal, WalkRemote, CopyFile,
           CopyFileFails, CopyFileCut, Finish, StepFails, Interrupt
  <1>2. Feasible' = Feasible
    BY <1>1, StaticFeas
  <1>3. faults \in Nat
    BY CopyAssumption DEF CopyInv, ControlInv
  <1>4. faults' = faults \/ faults' = faults + 1
    BY DEF Next, vars, ExpandSources, CopySingle, WalkLocal, WalkRemote, CopyFile,
           CopyFileFails, CopyFileCut, Finish, StepFails, Interrupt
  <1>5. CASE ~Feasible \/ faults # 0
    <2>1. ~Feasible' \/ faults' # 0
      BY <1>2, <1>3, <1>4, <1>5
    <2> QED BY <2>1 DEF FeasInv
  <1>6. CASE Feasible /\ faults = 0
    <2>1. StepFails \/ Interrupt => FeasInv'
      <3>1. StepFails \/ Interrupt => faults' # 0
        BY <1>6 DEF StepFails, Interrupt, FeasInv
      <3> QED BY <3>1 DEF FeasInv
    <2>2. ExpandSources => FeasInv'
      BY <1>6, FeasExpand DEF ExpandSources, WorkInv
    <2>3. ASSUME UNCHANGED <<tree, interrupted>>, outcome' # "err",
                 work' = work \/ work' = <<>>
          PROVE  FeasInv'
      <3>1. PICK u : u = tree[To]
        OBVIOUS
      <3>2. \A w : Among(w, work)' => Among(w, work)
        BY <2>3, EmptySeq DEF Among
      <3>3. /\ Mirrored(u) /\ Open(u) /\ Unmixed(u) /\ ~interrupted'
            /\ \A w : Among(w, work)' => Fit(w) /\ Ready(u, w)
        BY <1>6, <2>3, <3>1, <3>2 DEF FeasInv
      <3>4. /\ tree'[To'] = u /\ Mirrored(u)' /\ Open(u)' /\ Unmixed(u)'
            /\ \A w : Among(w, work)' => Fit(w)' /\ Ready(u, w)'
        BY <1>1, <2>3, <3>1, <3>3, StaticFeas
      <3>5. Mirrored(tree[To])' /\ Open(tree[To])' /\ Unmixed(tree[To])'
        BY <3>4 DEF Mirrored, Open, Unmixed
      <3>6. \A w : Among(w, work)' => Fit(w)' /\ Ready(tree[To], w)'
        BY <3>4 DEF Ready
      <3> QED BY <2>3, <3>3, <3>5, <3>6 DEF FeasInv
    <2>4. Finish => FeasInv'
      <3>1. Finish => UNCHANGED <<tree, interrupted>> /\ outcome' # "err" /\ work' = <<>>
        BY DEF Finish, Exit
      <3> QED BY <2>3, <3>1
    <2>5. UNCHANGED vars => FeasInv'
      <3>1. outcome # "err"
        BY <1>6 DEF FeasInv
      <3>2. UNCHANGED vars => UNCHANGED <<tree, interrupted>> /\ outcome' # "err" /\ work' = work
        BY <3>1 DEF vars
      <3> QED BY <2>3, <3>2
    <2>6. CopyFile \/ CopyFileFails => FeasInv'
      <3>1. CopyFile \/ CopyFileFails => Current("file")
        BY DEF CopyFile, CopyFileFails, Transferring
      <3> QED BY <1>6, <3>1, FeasFile
    <2>7. ~CopyFileCut
      BY <1>6 DEF CopyFileCut, FeasInv
    <2> QED BY <1>6, <2>1, <2>2, <2>4, <2>5, <2>6, <2>7, FeasSingle,
               FeasWalkLocal, FeasWalkRemote DEF Next
  <1> QED BY <1>5, <1>6

\* And it holds at the start.
LEMMA FeasInit == Init => FeasInv
  <1> SUFFICES ASSUME Init, Feasible PROVE FeasInv
    BY DEF FeasInv
  <1>1. CopyInv
    BY InitCopy
  <1>2. tree = tree0 /\ work = <<>> /\ outcome = "none" /\ ~interrupted
    BY DEF Init
  <1>3. \A w : ~Among(w, work)
    BY <1>2, EmptySeq DEF Among
  <1>4. Mirrored(tree[To]) /\ Open(tree[To])
    BY <1>1, <1>2, MirroredAtFirst, FeasFacts
  <1>5. Unmixed(tree[To])
    <2>1. Node(tree[To], Home) = "absent"
      BY <1>1, <1>2, FeasFacts DEF Node
    <2>2. \A m : <<"absent", m>> \notin Longer
      BY CopyAssumption
    <2> QED BY <2>1, <2>2 DEF Unmixed
  <1> QED BY <1>2, <1>3, <1>4, <1>5 DEF FeasInv

\* A cp of one source that exists to a place that does not exist, whose parents
\* may be made or written, fails only if a connection, a disk or a verification
\* does (cp.go, cp_from_host_dir.go): the walk has made every directory before
\* it comes to what is in it, and never stands in its own way.
THEOREM PlainCopiesSucceed == Spec => []FeasibleSucceeds
  <1>1. Init => WorkInv
    BY DEF Init, WorkInv, SuccessMeansCopied
  <1>2. CopyInv /\ FeasInv => FeasibleSucceeds
    <2> SUFFICES ASSUME CopyInv, FeasInv, outcome = "err", Feasible
                 PROVE  faults > 0
      BY DEF FeasibleSucceeds
    <2>1. faults \in Nat /\ faults # 0
      BY CopyAssumption DEF CopyInv, ControlInv, FeasInv
    <2> QED BY <2>1
  <1> QED BY <1>1, <1>2, CopyInvariant, WorkStep, FeasInit, FeasStep, PTL DEF Spec
=============================================================================
