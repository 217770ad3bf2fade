-------------------------- MODULE MergeMeaning_proofs --------------------------
(***************************************************************************)
(* That domain.xml means what MergeMeaning says it is to mean, whatever    *)
(* trees crun-vm generates and is given, of whatever depth: all that is    *)
(* assumed is that they are trees, and that merge calls itself for the     *)
(* children.                                                               *)
(***************************************************************************)
EXTENDS MergeMeaning, DomainMerge_proofs, WellFoundedInduction,
        SequenceTheorems

-----------------------------------------------------------------------------
(* Induction                                                               *)

\* Every set of numbers has a least.
LEMMA Least ==
  ASSUME NEW T, T \subseteq Nat, T # {}
  PROVE  \E n \in T : \A m \in T : n <= m
<1> DEFINE R == OpToRel(<, Nat)
<1>1. IsWellFoundedOn(R, Nat)
  BY NatLessThanWellFounded
<1>2. \A m, n \in Nat : m < n => <<m, n>> \in R
  BY DEF OpToRel
<1> HIDE DEF R
<1>3. PICK n \in T : \A m \in T : ~(<<m, n>> \in R)
  BY <1>1, WFMin
<1>4. \A m \in T : m \in Nat /\ n \in Nat
  BY <1>3
<1>5. \A m \in T : ~(m < n)
  BY <1>2, <1>3, <1>4
<1>6. \A m \in T : n <= m
  BY <1>4, <1>5
<1> QED  BY <1>3, <1>6

\* What holds of 0, and of each number's successor, holds of all.
LEMMA Induction ==
  ASSUME NEW T, 0 \in T, \A n \in Nat : n \in T => n + 1 \in T
  PROVE  Nat \subseteq T
<1> SUFFICES ASSUME Nat \ T # {} PROVE FALSE
  OBVIOUS
<1>1. PICK n \in Nat \ T : \A m \in Nat \ T : n <= m
  <2> DEFINE S == Nat \ T
  <2>1. S \subseteq Nat /\ S # {}
    OBVIOUS
  <2> HIDE DEF S
  <2>2. \E n \in S : \A m \in S : n <= m
    BY <2>1, Least
  <2> QED  BY <2>2 DEF S
<1>2. n # 0
  OBVIOUS
<1>3. n - 1 \in Nat /\ ~(n <= n - 1) /\ (n - 1) + 1 = n
  BY <1>2
<1>4. n - 1 \notin T
  BY <1>3
<1> QED  BY <1>1, <1>3, <1>4

\* Whether f begins with x, and goes on as g says for each step.
Follows(f, x, g, N) ==
  f[0] = x /\ \A k \in 1..N : f[k] = g[k][f[k - 1]]

\* A function that is told by where it begins, and by how each step goes on from
\* the last, exists, and stays where it begins.
LEMMA Iteration ==
  ASSUME NEW S, NEW x \in S, NEW N \in Nat, NEW g \in [1..N -> [S -> S]]
  PROVE  \E f \in [0..N -> S] : Follows(f, x, g, N)
<1> DEFINE F(n) == [0..n -> S]
           Is(f, n) == f[0] = x /\ \A k \in 1..n : f[k] = g[k][f[k - 1]]
           T == {n \in Nat : n <= N => \E f \in F(n) : Is(f, n)}
<1>1. 0 \in T
  <2> DEFINE f == [k \in 0..0 |-> x]
  <2>1. f \in F(0) /\ Is(f, 0)
    OBVIOUS
  <2> QED  BY <2>1
<1>2. ASSUME NEW n \in Nat, n \in T PROVE n + 1 \in T
  <2> SUFFICES ASSUME n + 1 <= N PROVE \E f \in F(n + 1) : Is(f, n + 1)
    OBVIOUS
  <2>1. PICK f \in F(n) : Is(f, n)
    BY <1>2
  <2> DEFINE h == [k \in 0..(n + 1) |->
                     IF k = n + 1 THEN g[n + 1][f[n]] ELSE f[k]]
  <2>2. f[n] \in S /\ g[n + 1] \in [S -> S] /\ g[n + 1][f[n]] \in S
    BY <2>1
  <2>3. h \in F(n + 1)
    BY <2>1, <2>2
  <2>4. \A k \in 0..n : h[k] = f[k]
    OBVIOUS
  <2>5. h[n + 1] = g[n + 1][f[n]]
    OBVIOUS
  <2> HIDE DEF h
  <2>6. \A k \in 1..n : h[k] = g[k][h[k - 1]]
    BY <2>1, <2>4
  <2>7. Is(h, n + 1)
    BY <2>1, <2>4, <2>5, <2>6
  <2> QED  BY <2>3, <2>7
<1>3. N \in T
  <2> HIDE DEF T
  <2> QED  BY <1>1, <1>2, Induction
<1> QED  BY <1>3 DEF Follows

\* Whether two functions begin alike, and go on alike from what is alike.
SameSteps(f, h, N) ==
  f[0] = h[0] /\ \A k \in 1..N : f[k - 1] = h[k - 1] => f[k] = h[k]

\* And there is only one.
LEMMA OneIteration ==
  ASSUME NEW N \in Nat, NEW f, NEW h, SameSteps(f, h, N)
  PROVE  \A k \in 0..N : f[k] = h[k]
<1> DEFINE T == {k \in Nat : k <= N => f[k] = h[k]}
<1>1. 0 \in T
  BY DEF SameSteps
<1>2. ASSUME NEW k \in Nat, k \in T PROVE k + 1 \in T
  <2> SUFFICES ASSUME k + 1 <= N PROVE f[k + 1] = h[k + 1]
    OBVIOUS
  <2>1. f[k] = h[k] /\ k + 1 \in 1..N /\ (k + 1) - 1 = k
    BY <1>2
  <2> QED  BY <2>1 DEF SameSteps
<1>3. Nat \subseteq T
  <2> HIDE DEF T
  <2> QED  BY <1>1, <1>2, Induction
<1> QED  BY <1>3

-----------------------------------------------------------------------------
(* The places of a tree                                                    *)

\* What the definitions of ways and counterparts say of them, step by step, and
\* that they stay among the trees U.
IsWay(w, e, p, U) ==
  /\ w[0] = e
  /\ \A k \in 1..Len(p) : w[k] = ChildAt(w[k - 1], p[k])
  /\ \A k \in 0..Len(p) : w[k] \in U \cup {Absent}

IsWayByNames(w, e, n, U) ==
  /\ w[0] = e
  /\ \A k \in 1..Len(n) : w[k] = ChildCalled(w[k - 1], n[k])
  /\ \A k \in 0..Len(n) : w[k] \in U \cup {Absent}

AreCounterparts(w, os, e, p, U) ==
  /\ w[0] = os
  /\ \A k \in 1..Len(p) : w[k] = AllCalled(w[k - 1], Way(e, p)[k].name)
  /\ \A k \in 0..Len(p) : w[k] \in SUBSET U

\* A way through a tree leads through its elements, until there are no more.
LEMMA WayIs ==
  ASSUME NEW U, MergedAllTheWay(U), NEW e \in U, NEW p \in Seq(Nat)
  PROVE  IsWay(Way(e, p), e, p, U)
<1> DEFINE S == U \cup {Absent}
           N == Len(p)
           g == [k \in 1..N |-> [s \in S |-> ChildAt(s, p[k])]]
           W(f) == [k \in 0..N |-> IF k = 0 THEN e ELSE ChildAt(f[k - 1], p[k])]
<1>1. \A s \in S : \A i : ChildAt(s, i) \in S
  <2>1. \A s \in U : s.elements \in Seq(U)
    BY DEF MergedAllTheWay
  <2> QED  BY <2>1 DEF ChildAt
<1>2. g \in [1..N -> [S -> S]]
  BY <1>1
<1>3. N \in Nat /\ e \in S
  OBVIOUS
<1>4. \A k \in 1..N, s \in S : g[k][s] = ChildAt(s, p[k])
  OBVIOUS
<1>5. Way(e, p) = CHOOSE h : h = W(h)
  BY DEF Way
<1> HIDE DEF S, N, g
<1>6. PICK f \in [0..N -> S] : Follows(f, e, g, N)
  BY <1>2, <1>3, Iteration
<1>7. \A k \in 0..N : k # 0 => k \in 1..N /\ k - 1 \in 0..N /\ f[k - 1] \in S
  BY <1>3, <1>6
<1>8. \A k \in 0..N : k # 0 => g[k][f[k - 1]] = ChildAt(f[k - 1], p[k])
  BY <1>4, <1>7
<1>9. f = W(f)
  BY <1>3, <1>6, <1>7, <1>8 DEF Follows
<1>10. Way(e, p) = W(Way(e, p))
  BY <1>5, <1>9
<1> DEFINE w == Way(e, p)
<1> HIDE DEF w
<1>11. w = W(w)
  BY <1>10 DEF w
<1>12. /\ w[0] = e /\ f[0] = e
       /\ \A k \in 1..N : /\ w[k] = ChildAt(w[k - 1], p[k])
                          /\ f[k] = ChildAt(f[k - 1], p[k])
  BY <1>3, <1>9, <1>11
<1>13. w = [k \in 0..N |-> w[k]] /\ f = [k \in 0..N |-> f[k]]
  BY <1>6, <1>11
<1>14. SameSteps(w, f, N)
  BY <1>12 DEF SameSteps
<1>15. w = f
  <2>1. \A k \in 0..N : w[k] = f[k]
    BY <1>3, <1>14, OneIteration
  <2> QED  BY <1>13, <2>1
<1>16. \A k \in 0..N : w[k] \in S
  BY <1>6, <1>15
<1> QED  BY <1>12, <1>16 DEF w, S, N, IsWay

\* The first of the children of a name is one of them.
LEMMA ChildIs ==
  ASSUME NEW U, NEW e, e.elements \in Seq(U), NEW name, HasChild(e, name)
  PROVE  \E i \in DOMAIN e.elements :
           /\ e.elements[i] = Child(e, name)
           /\ e.elements[i].name = name
           /\ \A j \in DOMAIN e.elements : e.elements[j].name = name => i <= j
<1> DEFINE T == Named(e, name)
           Is(i) == i \in T /\ \A j \in T : i <= j
<1>1. T \subseteq Nat /\ T # {}
  BY DEF Named, HasChild
<1> HIDE DEF T
<1>2. PICK i \in T : \A j \in T : i <= j
  BY <1>1, Least
<1> DEFINE m == CHOOSE k \in T : \A j \in T : k <= j
<1>3. m \in T /\ \A j \in T : m <= j
  BY <1>2
<1>4. Child(e, name) = e.elements[m]
  BY DEF Child, T
<1> QED  BY <1>3, <1>4 DEF T, Named

\* So does a way by names.
LEMMA NameWayIs ==
  ASSUME NEW U, MergedAllTheWay(U), NEW e \in U, NEW n, Len(n) \in Nat
  PROVE  IsWayByNames(WayByNames(e, n), e, n, U)
<1> DEFINE S == U \cup {Absent}
           N == Len(n)
           g == [k \in 1..N |-> [s \in S |-> ChildCalled(s, n[k])]]
           W(f) ==
             [k \in 0..N |-> IF k = 0 THEN e ELSE ChildCalled(f[k - 1], n[k])]
<1>1. \A s \in S : \A i : ChildCalled(s, i) \in S
  <2> SUFFICES ASSUME NEW s \in U, NEW i, HasChild(s, i) PROVE Child(s, i) \in U
    BY DEF ChildCalled
  <2>1. s.elements \in Seq(U)
    BY DEF MergedAllTheWay
  <2>2. PICK j \in DOMAIN s.elements : s.elements[j] = Child(s, i)
    BY <2>1, ChildIs
  <2> QED  BY <2>1, <2>2
<1>2. g \in [1..N -> [S -> S]]
  BY <1>1
<1>3. N \in Nat /\ e \in S
  OBVIOUS
<1>4. \A k \in 1..N, s \in S : g[k][s] = ChildCalled(s, n[k])
  OBVIOUS
<1>5. WayByNames(e, n) = CHOOSE h : h = W(h)
  BY DEF WayByNames
<1> HIDE DEF S, N, g
<1>6. PICK f \in [0..N -> S] : Follows(f, e, g, N)
  BY <1>2, <1>3, Iteration
<1>7. \A k \in 0..N : k # 0 => k \in 1..N /\ k - 1 \in 0..N /\ f[k - 1] \in S
  BY <1>3, <1>6
<1>8. \A k \in 0..N : k # 0 => g[k][f[k - 1]] = ChildCalled(f[k - 1], n[k])
  BY <1>4, <1>7
<1>9. f = W(f)
  BY <1>3, <1>6, <1>7, <1>8 DEF Follows
<1>10. WayByNames(e, n) = W(WayByNames(e, n))
  BY <1>5, <1>9
<1> DEFINE w == WayByNames(e, n)
<1> HIDE DEF w
<1>11. w = W(w)
  BY <1>10 DEF w
<1>12. /\ w[0] = e /\ f[0] = e
       /\ \A k \in 1..N : /\ w[k] = ChildCalled(w[k - 1], n[k])
                          /\ f[k] = ChildCalled(f[k - 1], n[k])
  BY <1>3, <1>9, <1>11
<1>13. w = [k \in 0..N |-> w[k]] /\ f = [k \in 0..N |-> f[k]]
  BY <1>6, <1>11
<1>14. SameSteps(w, f, N)
  BY <1>12 DEF SameSteps
<1>15. w = f
  <2>1. \A k \in 0..N : w[k] = f[k]
    BY <1>3, <1>14, OneIteration
  <2> QED  BY <1>13, <2>1
<1>16. \A k \in 0..N : w[k] \in S
  BY <1>6, <1>15
<1> QED  BY <1>12, <1>16 DEF w, S, N, IsWayByNames

\* The children of elements of a tree are elements of the tree.
LEMMA AllCalledIn ==
  ASSUME NEW U, MergedAllTheWay(U), NEW os \in SUBSET U, NEW name
  PROVE  /\ AllCalled(os, name) \in SUBSET U
         /\ \A o \in os : \A i \in DOMAIN o.elements :
              o.elements[i].name = name => o.elements[i] \in AllCalled(os, name)
         /\ \A c \in AllCalled(os, name) :
              \E o \in os : \E i \in DOMAIN o.elements :
                c = o.elements[i] /\ c.name = name
<1>1. \A o \in os : o.elements \in Seq(U)
  BY DEF MergedAllTheWay
<1>2. \A o \in os : \A i \in DOMAIN o.elements : o.elements[i] \in U
  BY <1>1
<1> QED  BY <1>2 DEF AllCalled, Named

\* The counterparts of the elements on a way are elements of the trees.
LEMMA CounterpartsAre ==
  ASSUME NEW U, MergedAllTheWay(U), NEW os \in SUBSET U, NEW e,
         NEW p \in Seq(Nat)
  PROVE  AreCounterparts(Counterparts(os, e, p), os, e, p, U)
<1> DEFINE S == SUBSET U
           N == Len(p)
           Name(k) == Way(e, p)[k].name
           g == [k \in 1..N |-> [s \in S |-> AllCalled(s, Name(k))]]
           W(f) ==
             [k \in 0..N |-> IF k = 0 THEN os ELSE AllCalled(f[k - 1], Name(k))]
<1>1. \A s \in S : \A i : AllCalled(s, i) \in S
  BY AllCalledIn
<1>2. g \in [1..N -> [S -> S]]
  BY <1>1
<1>3. N \in Nat /\ os \in S
  OBVIOUS
<1>4. \A k \in 1..N, s \in S : g[k][s] = AllCalled(s, Name(k))
  OBVIOUS
<1>5. Counterparts(os, e, p) = CHOOSE h : h = W(h)
  BY DEF Counterparts
<1> HIDE DEF S, N, g, Name
<1>6. PICK f \in [0..N -> S] : Follows(f, os, g, N)
  BY <1>2, <1>3, Iteration
<1>7. \A k \in 0..N : k # 0 => k \in 1..N /\ k - 1 \in 0..N /\ f[k - 1] \in S
  BY <1>3, <1>6
<1>8. \A k \in 0..N : k # 0 => g[k][f[k - 1]] = AllCalled(f[k - 1], Name(k))
  BY <1>4, <1>7
<1>9. f = W(f)
  BY <1>3, <1>6, <1>7, <1>8 DEF Follows
<1>10. Counterparts(os, e, p) = W(Counterparts(os, e, p))
  BY <1>5, <1>9
<1> DEFINE w == Counterparts(os, e, p)
<1> HIDE DEF w
<1>11. w = W(w)
  BY <1>10 DEF w
<1>12. /\ w[0] = os /\ f[0] = os
       /\ \A k \in 1..N : /\ w[k] = AllCalled(w[k - 1], Name(k))
                          /\ f[k] = AllCalled(f[k - 1], Name(k))
  BY <1>3, <1>9, <1>11
<1>13. w = [k \in 0..N |-> w[k]] /\ f = [k \in 0..N |-> f[k]]
  BY <1>6, <1>11
<1>14. SameSteps(w, f, N)
  BY <1>12 DEF SameSteps
<1>15. w = f
  <2>1. \A k \in 0..N : w[k] = f[k]
    BY <1>3, <1>14, OneIteration
  <2> QED  BY <1>13, <2>1
<1>16. \A k \in 0..N : w[k] \in S
  BY <1>6, <1>15
<1> QED  BY <1>12, <1>16 DEF w, S, N, Name, AreCounterparts

-----------------------------------------------------------------------------
(* merge, one element of each                                              *)

\* What is added is the overlay's that the base has nothing to merge with; and
\* of several of one name, the overlay's first is the first.
AddedRight(added, b, o, n) ==
  /\ \A j \in DOMAIN added : \E i \in 1..n :
       added[j] = o.elements[i] /\ ~HasChild(b, o.elements[i].name)
  /\ \A i \in 1..n :
       /\ ~HasChild(b, o.elements[i].name)
       /\ \A l \in 1..(i - 1) : o.elements[l].name # o.elements[i].name
       => \E j \in DOMAIN added :
            /\ added[j] = o.elements[i]
            /\ \A l \in DOMAIN added : added[l].name = added[j].name => j <= l

LEMMA AddedStep ==
  ASSUME NEW U, NEW b, NEW o, o.elements \in Seq(U),
         NEW n \in Nat, n < Len(o.elements),
         NEW added \in Seq(U), AddedRight(added, b, o, n)
  PROVE  AddedRight(IF HasChild(b, o.elements[n + 1].name) THEN added
                    ELSE Append(added, o.elements[n + 1]), b, o, n + 1)
<1> DEFINE c == o.elements[n + 1]
           new == IF HasChild(b, c.name) THEN added ELSE Append(added, c)
<1>1. c \in U /\ n + 1 \in 1..(n + 1) /\ \A i \in 1..(n + 1) : i \in 1..n \/ i = n + 1
  OBVIOUS
<1> HIDE DEF c
<1>2. CASE HasChild(b, c.name)
  <2>1. new = added
    BY <1>2
  <2> HIDE DEF new
  <2>2. \A i \in 1..n : i \in 1..(n + 1)
    OBVIOUS
  <2>3. AddedRight(added, b, o, n + 1)
    BY <1>1, <1>2, <2>2 DEF AddedRight, c
  <2> QED  BY <2>1, <2>3 DEF new, c
<1>3. CASE ~HasChild(b, c.name)
  <2>1. /\ DOMAIN added = 1..Len(added) /\ Len(added) \in Nat
        /\ DOMAIN new = 1..(Len(added) + 1)
        /\ \A j \in DOMAIN added : new[j] = added[j]
        /\ new[Len(added) + 1] = c
    BY <1>1, <1>3
  <2> HIDE DEF new
  <2>2. \A j \in DOMAIN new : j \in DOMAIN added \/ j = Len(added) + 1
    BY <2>1
  <2>3. ASSUME NEW j \in DOMAIN new
        PROVE  \E i \in 1..(n + 1) :
                 new[j] = o.elements[i] /\ ~HasChild(b, o.elements[i].name)
    <3>1. CASE j \in DOMAIN added
      BY <2>1, <3>1 DEF AddedRight
    <3>2. CASE j = Len(added) + 1
      BY <1>1, <1>3, <2>1, <3>2 DEF c
    <3> QED  BY <2>2, <3>1, <3>2
  <2>4. ASSUME NEW i \in 1..(n + 1), ~HasChild(b, o.elements[i].name),
               \A l \in 1..(i - 1) : o.elements[l].name # o.elements[i].name
        PROVE  \E j \in DOMAIN new :
                 /\ new[j] = o.elements[i]
                 /\ \A l \in DOMAIN new : new[l].name = new[j].name => j <= l
    <3>1. CASE i \in 1..n
      <4>1. PICK j \in DOMAIN added :
              /\ added[j] = o.elements[i]
              /\ \A l \in DOMAIN added : added[l].name = added[j].name => j <= l
        BY <2>4, <3>1 DEF AddedRight
      <4>2. j \in DOMAIN new /\ new[j] = added[j]
        BY <2>1
      <4>3. \A l \in DOMAIN new : new[l].name = new[j].name => j <= l
        BY <2>1, <2>2, <4>1, <4>2
      <4> QED  BY <4>1, <4>2, <4>3
    <3>2. CASE i = n + 1
      <4> DEFINE j == Len(added) + 1
      <4>1. j \in DOMAIN new /\ new[j] = o.elements[i]
        BY <2>1, <3>2 DEF c
      <4>2. ASSUME NEW l \in DOMAIN added, added[l].name = c.name
            PROVE  FALSE
        <5>1. PICK m \in 1..n : added[l] = o.elements[m]
          BY DEF AddedRight
        <5>2. m \in 1..(i - 1)
          BY <3>2
        <5> QED  BY <2>4, <3>2, <4>2, <5>1, <5>2 DEF c
      <4>3. \A l \in DOMAIN new : new[l].name = new[j].name => j <= l
        BY <2>1, <2>2, <4>2
      <4> QED  BY <4>1, <4>3
    <3> QED  BY <1>1, <3>1, <3>2
  <2>5. AddedRight(new, b, o, n + 1)
    BY <2>3, <2>4 DEF AddedRight
  <2> QED  BY <2>5 DEF new, c
<1> QED  BY <1>2, <1>3

LEMMA AddedIs ==
  ASSUME NEW U, NEW b, NEW o, o.elements \in Seq(U)
  PROVE  /\ Added(b, o) \in Seq(U)
         /\ AddedRight(Added(b, o), b, o, Len(o.elements))
<1> DEFINE S == Seq(U)
           N == Len(o.elements)
           Has(k) == HasChild(b, o.elements[k].name)
           To(s, k) == IF Has(k) THEN s ELSE Append(s, o.elements[k])
           g == [k \in 1..N |-> [s \in S |-> To(s, k)]]
           W(f) == [k \in 0..N |->
                      IF k = 0 THEN <<>>
                      ELSE IF HasChild(b, o.elements[k].name) THEN f[k - 1]
                      ELSE Append(f[k - 1], o.elements[k])]
<1>1. \A k \in 1..N : \A s \in S : To(s, k) \in S
  OBVIOUS
<1>2. N \in Nat /\ <<>> \in S
  OBVIOUS
<1>3. Added(b, o) = (CHOOSE h : h = W(h))[N]
  BY DEF Added
<1>4. \A f, k : To(f[k - 1], k) =
                  IF HasChild(b, o.elements[k].name) THEN f[k - 1]
                  ELSE Append(f[k - 1], o.elements[k])
  OBVIOUS
<1> HIDE DEF To
<1>5. g \in [1..N -> [S -> S]]
  BY <1>1
<1>6. \A k \in 1..N, s \in S : g[k][s] = To(s, k)
  OBVIOUS
<1> HIDE DEF S, N, g
<1>7. PICK f \in [0..N -> S] : Follows(f, <<>>, g, N)
  BY <1>2, <1>5, Iteration
<1>8. \A k \in 0..N : k # 0 => k \in 1..N /\ k - 1 \in 0..N /\ f[k - 1] \in S
  BY <1>2, <1>7
<1>9. f[0] = <<>> /\ \A k \in 1..N : f[k] = To(f[k - 1], k)
  BY <1>2, <1>6, <1>7, <1>8 DEF Follows
<1>10. f = W(f)
  BY <1>2, <1>4, <1>7, <1>8, <1>9
<1> DEFINE w == CHOOSE h : h = W(h)
<1>11. w = W(w)
  BY <1>10
<1> HIDE DEF w
<1>12. w[0] = <<>> /\ \A k \in 1..N : w[k] = To(w[k - 1], k)
  <2>1. 0 \in 0..N /\ \A k \in 1..N : k \in 0..N /\ k # 0
    BY <1>2
  <2>2. w[0] = <<>>
    BY <1>11, <2>1
  <2>3. ASSUME NEW k \in 1..N PROVE w[k] = To(w[k - 1], k)
    <3>1. k \in 0..N /\ k # 0
      BY <2>1
    <3>2. w[k] = IF HasChild(b, o.elements[k].name) THEN w[k - 1]
                 ELSE Append(w[k - 1], o.elements[k])
      BY <1>11, <3>1
    <3> QED  BY <1>4, <3>2
  <2> QED  BY <2>2, <2>3
<1>13. SameSteps(w, f, N)
  BY <1>9, <1>12 DEF SameSteps
<1>14. \A k \in 0..N : w[k] = f[k]
  BY <1>2, <1>13, OneIteration
<1>15. w[N] \in S
  BY <1>2, <1>7, <1>14
<1> DEFINE T == {k \in Nat : k <= N => AddedRight(w[k], b, o, k)}
<1>16. 0 \in T
  BY <1>12 DEF AddedRight
<1>17. ASSUME NEW k \in Nat, k \in T PROVE k + 1 \in T
  <2> SUFFICES ASSUME k + 1 <= N PROVE AddedRight(w[k + 1], b, o, k + 1)
    OBVIOUS
  <2>1. k < Len(o.elements) /\ k \in 0..N /\ k + 1 \in 1..N /\ (k + 1) - 1 = k
    BY <1>2 DEF N
  <2>2. w[k] \in Seq(U) /\ AddedRight(w[k], b, o, k)
    BY <1>7, <1>14, <1>17, <2>1 DEF S
  <2>3. AddedRight(IF HasChild(b, o.elements[k + 1].name) THEN w[k]
                   ELSE Append(w[k], o.elements[k + 1]), b, o, k + 1)
    BY <2>1, <2>2, AddedStep
  <2>4. w[k + 1] = To(w[k], k + 1)
    BY <1>12, <2>1
  <2> QED  BY <2>3, <2>4 DEF To
<1>18. Nat \subseteq T
  <2> HIDE DEF T
  <2> QED  BY <1>16, <1>17, Induction
<1>19. AddedRight(w[N], b, o, N)
  BY <1>2, <1>18
<1> QED  BY <1>3, <1>15, <1>19 DEF w, S, N

\* One who finds a child of the name before which there is no other has found
\* the first.
LEMMA FirstFound ==
  ASSUME NEW U, NEW e, e.elements \in Seq(U), NEW name,
         NEW i \in DOMAIN e.elements, e.elements[i].name = name,
         \A j \in DOMAIN e.elements : e.elements[j].name = name => i <= j
  PROVE  HasChild(e, name) /\ Child(e, name) = e.elements[i]
<1>1. HasChild(e, name)
  BY DEF HasChild, Named
<1>2. PICK k \in DOMAIN e.elements :
        /\ e.elements[k] = Child(e, name)
        /\ e.elements[k].name = name
        /\ \A j \in DOMAIN e.elements : e.elements[j].name = name => k <= j
  BY <1>1, ChildIs
<1>3. i <= k /\ k <= i /\ i \in Nat /\ k \in Nat
  BY <1>2
<1> QED  BY <1>1, <1>2, <1>3

LEMMA ChildIn ==
  ASSUME NEW U, MergedAllTheWay(U), NEW e \in U, NEW name, HasChild(e, name)
  PROVE  Child(e, name) \in U /\ Child(e, name).name = name
<1>1. e.elements \in Seq(U)
  BY DEF MergedAllTheWay
<1>2. PICK i \in DOMAIN e.elements :
        e.elements[i] = Child(e, name) /\ e.elements[i].name = name
  BY <1>1, ChildIs
<1> QED  BY <1>1, <1>2

\* What merge makes of two elements.
LEMMA MergeIs ==
  ASSUME NEW U, MergedAllTheWay(U), NEW b \in U, NEW o \in U
  PROVE  /\ MergeElement(b, o) \in U
         /\ MergeElement(b, o).name = b.name
         /\ MergeElement(b, o).attrs = Attributes(b, o)
         /\ MergeElement(b, o).text = TextOf(b, o)
         /\ MergeElement(b, o).elements \in Seq(U)
         /\ b.elements \in Seq(U) /\ o.elements \in Seq(U)
         /\ Added(b, o) \in Seq(U)
         /\ Len(MergeElement(b, o).elements) = Len(b.elements) + Len(Added(b, o))
         /\ \A i \in DOMAIN b.elements :
              MergeElement(b, o).elements[i] =
                IF HasChild(o, b.elements[i].name)
                THEN MergeElement(b.elements[i], Child(o, b.elements[i].name))
                ELSE b.elements[i]
         /\ \A j \in DOMAIN Added(b, o) :
              MergeElement(b, o).elements[Len(b.elements) + j] = Added(b, o)[j]
<1> DEFINE new == MergeElement(b, o)
           merged == [i \in ToMerge(b, o) |->
                        MergeChild(b.elements[i], Counterpart(b, o, i))]
           kept == Kept(b, o, merged)
           added == Added(b, o)
<1>1. new \in U /\ new.elements \in Seq(U)
  BY DEF MergedAllTheWay
<1>2. b.elements \in Seq(U) /\ o.elements \in Seq(U)
  BY DEF MergedAllTheWay
<1>3. added \in Seq(U)
  BY <1>2, AddedIs
<1>4. /\ new.name = b.name /\ new.attrs = Attributes(b, o)
      /\ new.text = TextOf(b, o) /\ new.elements = kept \o added
  BY DEF MergeElement, MergeWith
<1>5. ASSUME NEW i \in DOMAIN b.elements
      PROVE  /\ kept[i] = IF HasChild(o, b.elements[i].name)
                          THEN MergeElement(b.elements[i],
                                            Child(o, b.elements[i].name))
                          ELSE b.elements[i]
             /\ kept[i] \in U
  <2>1. b.elements[i] \in U
    BY <1>2
  <2>2. CASE HasChild(o, b.elements[i].name)
    <3>1. i \in ToMerge(b, o)
      BY <2>2 DEF ToMerge
    <3>2. kept[i] = MergeChild(b.elements[i], Counterpart(b, o, i))
      BY <3>1 DEF Kept
    <3>3. Counterpart(b, o, i) = Child(o, b.elements[i].name)
      BY DEF Counterpart
    <3>4. Child(o, b.elements[i].name) \in U
      BY <2>2, ChildIn
    <3>5. kept[i] = MergeElement(b.elements[i], Child(o, b.elements[i].name))
          /\ kept[i] \in U
      BY <2>1, <3>2, <3>3, <3>4 DEF MergedAllTheWay
    <3> QED  BY <2>2, <3>5
  <2>3. CASE ~HasChild(o, b.elements[i].name)
    <3>1. i \notin ToMerge(b, o)
      BY <2>3 DEF ToMerge
    <3>2. kept[i] = b.elements[i]
      BY <3>1 DEF Kept
    <3> QED  BY <2>1, <2>3, <3>2
  <2> QED  BY <2>2, <2>3
<1>6. DOMAIN b.elements = 1..Len(b.elements) /\ Len(b.elements) \in Nat
  BY <1>2
<1>7. kept = [i \in 1..Len(b.elements) |-> kept[i]]
  BY <1>6 DEF Kept
<1> HIDE DEF kept, added, new
<1>8. kept \in Seq(U) /\ Len(kept) = Len(b.elements)
  <2>1. kept \in [1..Len(b.elements) -> U]
    BY <1>5, <1>6, <1>7
  <2>2. kept \in Seq(U)
    BY <1>6, <2>1, SeqDef
  <2>3. 1..Len(kept) = 1..Len(b.elements) /\ Len(kept) \in Nat
    BY <2>1, <2>2, LenProperties
  <2>4. Len(kept) = Len(b.elements)
    BY <1>6, <2>3
  <2> QED  BY <2>2, <2>4
<1>9. /\ Len(new.elements) = Len(b.elements) + Len(added)
      /\ \A i \in DOMAIN b.elements : new.elements[i] = kept[i]
      /\ \A j \in DOMAIN added : new.elements[Len(b.elements) + j] = added[j]
  <2>1. \A i \in DOMAIN b.elements : i \in 1..Len(kept)
    BY <1>6, <1>8
  <2>2. /\ Len(added) \in Nat /\ DOMAIN added = 1..Len(added)
        /\ Len(kept) \in Nat
    BY <1>3, <1>8
  <2>3. /\ Len(kept \o added) = Len(kept) + Len(added)
        /\ \A i \in 1..(Len(kept) + Len(added)) :
             (kept \o added)[i] = IF i <= Len(kept) THEN kept[i]
                                  ELSE added[i - Len(kept)]
    BY <1>3, <1>8, ConcatProperties
  <2>4. \A i \in 1..Len(kept) : (kept \o added)[i] = kept[i]
    BY <2>2, <2>3
  <2>5. \A j \in 1..Len(added) : (kept \o added)[Len(kept) + j] = added[j]
    <3> TAKE j \in 1..Len(added)
    <3>1. /\ Len(kept) + j \in 1..(Len(kept) + Len(added))
          /\ ~(Len(kept) + j <= Len(kept)) /\ (Len(kept) + j) - Len(kept) = j
      BY <2>2
    <3> QED  BY <2>3, <3>1
  <2> QED  BY <1>4, <1>8, <2>1, <2>2, <2>3, <2>4, <2>5
<1>10. \A i \in DOMAIN b.elements :
         new.elements[i] = IF HasChild(o, b.elements[i].name)
                           THEN MergeElement(b.elements[i],
                                             Child(o, b.elements[i].name))
                           ELSE b.elements[i]
  BY <1>5, <1>9
<1> QED  BY <1>1, <1>2, <1>3, <1>4, <1>9, <1>10 DEF new, added

\* Whether that became of e by merging nothing or one of those elements into it.
MergedWithOne(new, e, os) ==
  new = e \/ \E c \in os : new = MergeElement(e, c)

\* A child of the base stays at its place, and if it is merged, then with a child
\* of its name.
LEMMA MergedChildAt ==
  ASSUME NEW U, MergedAllTheWay(U), NEW b \in U, NEW o \in U, NEW i,
         ChildAt(b, i) # Absent
  PROVE  MergedWithOne(ChildAt(MergeElement(b, o), i), ChildAt(b, i),
                       AllCalled({o}, ChildAt(b, i).name))
<1> DEFINE new == MergeElement(b, o)
           name == b.elements[i].name
           c == Child(o, name)
<1>1. i \in DOMAIN b.elements /\ ChildAt(b, i) = b.elements[i]
  BY DEF ChildAt
<1>2. /\ new \in U /\ b.elements \in Seq(U) /\ o.elements \in Seq(U)
      /\ new.elements \in Seq(U) /\ Len(b.elements) <= Len(new.elements)
      /\ new.elements[i] = IF HasChild(o, b.elements[i].name)
                           THEN MergeElement(b.elements[i], c)
                           ELSE b.elements[i]
  BY <1>1, MergeIs
<1>3. ChildAt(new, i) = new.elements[i]
  BY <1>1, <1>2 DEF ChildAt, MergedAllTheWay
<1>4. CASE HasChild(o, name)
  <2>1. /\ HasChild(o, name) /\ o.elements \in Seq(U)
        /\ {o} \in SUBSET U /\ o \in {o}
    BY <1>2, <1>4
  <2>2. c \in AllCalled({o}, name)
    <3> HIDE DEF name
    <3>1. PICK j \in DOMAIN o.elements :
            o.elements[j] = Child(o, name) /\ o.elements[j].name = name
      BY <2>1, ChildIs
    <3> QED  BY <3>1 DEF AllCalled, Named
  <2> QED  BY <1>1, <1>2, <1>3, <1>4, <2>2 DEF MergedWithOne
<1>5. CASE ~HasChild(o, b.elements[i].name)
  BY <1>1, <1>2, <1>3, <1>5 DEF MergedWithOne
<1> QED  BY <1>4, <1>5

\* What is the first child of a name after merging.
LEMMA MergedChildCalled ==
  ASSUME NEW U, MergedAllTheWay(U), NEW b \in U, NEW o \in U, NEW name
  PROVE  ChildCalled(MergeElement(b, o), name) =
           IF ~HasChild(b, name) THEN ChildCalled(o, name)
           ELSE IF ~HasChild(o, name) THEN ChildCalled(b, name)
           ELSE MergeElement(ChildCalled(b, name), ChildCalled(o, name))
<1> DEFINE new == MergeElement(b, o)
           L == Len(b.elements)
<1>1. /\ new \in U /\ b.elements \in Seq(U) /\ o.elements \in Seq(U)
      /\ new.elements \in Seq(U) /\ Added(b, o) \in Seq(U)
      /\ Len(new.elements) = L + Len(Added(b, o))
      /\ \A i \in DOMAIN b.elements :
           new.elements[i] =
             IF HasChild(o, b.elements[i].name)
             THEN MergeElement(b.elements[i], Child(o, b.elements[i].name))
             ELSE b.elements[i]
      /\ \A j \in DOMAIN Added(b, o) : new.elements[L + j] = Added(b, o)[j]
  BY MergeIs
<1>2. Absent \notin U
  BY DEF MergedAllTheWay
<1>3. AddedRight(Added(b, o), b, o, Len(o.elements))
  BY <1>1, AddedIs
<1>4. /\ L \in Nat /\ DOMAIN b.elements = 1..L
      /\ DOMAIN Added(b, o) = 1..Len(Added(b, o)) /\ Len(Added(b, o)) \in Nat
      /\ DOMAIN new.elements = 1..(L + Len(Added(b, o)))
  BY <1>1
<1>5. \A i \in DOMAIN b.elements : new.elements[i].name = b.elements[i].name
  <2> TAKE i \in DOMAIN b.elements
  <2>1. b.elements[i] \in U
    BY <1>1
  <2>2. CASE HasChild(o, b.elements[i].name)
    <3>1. Child(o, b.elements[i].name) \in U
      BY <2>2, ChildIn
    <3> QED  BY <1>1, <2>1, <2>2, <3>1, MergeIs
  <2>3. CASE ~HasChild(o, b.elements[i].name)
    BY <1>1, <2>3
  <2> QED  BY <2>2, <2>3
<1>6. \A l \in DOMAIN new.elements :
        \/ l \in DOMAIN b.elements
        \/ /\ l > L /\ l - L \in DOMAIN Added(b, o)
           /\ new.elements[l] = Added(b, o)[l - L]
  <2> TAKE l \in DOMAIN new.elements
  <2>1. CASE l <= L
    BY <1>4, <2>1
  <2>2. CASE l > L
    <3>1. l - L \in DOMAIN Added(b, o) /\ L + (l - L) = l
      BY <1>4, <2>2
    <3> QED  BY <1>1, <2>2, <3>1
  <2> QED  BY <1>4, <2>1, <2>2
<1> HIDE DEF new, L
<1>7. CASE HasChild(b, name)
  <2>1. PICK i \in DOMAIN b.elements :
          /\ b.elements[i] = Child(b, name) /\ b.elements[i].name = name
          /\ \A j \in DOMAIN b.elements : b.elements[j].name = name => i <= j
    BY <1>1, <1>7, ChildIs
  <2>2. i \in DOMAIN new.elements /\ new.elements[i].name = name /\ i <= L
    BY <1>4, <1>5, <2>1
  <2>3. \A l \in DOMAIN new.elements : new.elements[l].name = name => i <= l
    <3> SUFFICES ASSUME NEW l \in DOMAIN new.elements,
                        new.elements[l].name = name
                 PROVE  i <= l
      OBVIOUS
    <3>1. CASE l \in DOMAIN b.elements
      BY <1>5, <2>1, <3>1
    <3>2. CASE l > L
      BY <1>4, <2>1, <2>2, <3>2
    <3> QED  BY <1>6, <3>1, <3>2
  <2>4. HasChild(new, name) /\ Child(new, name) = new.elements[i]
    <3>1. new.elements \in Seq(U)
      BY <1>1
    <3> QED  BY <2>2, <2>3, <3>1, FirstFound
  <2>5. ChildCalled(new, name) = new.elements[i]
        /\ ChildCalled(b, name) = b.elements[i]
    BY <1>1, <1>2, <1>7, <2>1, <2>4 DEF ChildCalled
  <2>6. CASE HasChild(o, name)
    <3>1. ChildCalled(o, name) = Child(o, name)
      BY <1>2, <2>6 DEF ChildCalled
    <3> QED  BY <1>1, <1>7, <2>1, <2>5, <2>6, <3>1 DEF new
  <2>7. CASE ~HasChild(o, name)
    BY <1>1, <1>7, <2>1, <2>5, <2>7 DEF new
  <2> QED  BY <2>6, <2>7
<1>8. CASE ~HasChild(b, name) /\ HasChild(o, name)
  <2>1. PICK m \in DOMAIN o.elements :
          /\ o.elements[m] = Child(o, name) /\ o.elements[m].name = name
          /\ \A j \in DOMAIN o.elements : o.elements[j].name = name => m <= j
    BY <1>1, <1>8, ChildIs
  <2>2. /\ m \in 1..Len(o.elements) /\ ~HasChild(b, o.elements[m].name)
        /\ \A l \in 1..(m - 1) : o.elements[l].name # o.elements[m].name
    <3>1. m \in 1..Len(o.elements) /\ Len(o.elements) \in Nat
          /\ DOMAIN o.elements = 1..Len(o.elements)
      BY <1>1
    <3>2. \A l \in 1..(m - 1) : l \in DOMAIN o.elements /\ ~(m <= l)
      BY <3>1
    <3> QED  BY <1>8, <2>1, <3>1, <3>2
  <2>3. PICK j \in DOMAIN Added(b, o) :
          /\ Added(b, o)[j] = o.elements[m]
          /\ \A l \in DOMAIN Added(b, o) :
               Added(b, o)[l].name = Added(b, o)[j].name => j <= l
    BY <1>3, <2>2 DEF AddedRight
  <2>4. /\ L + j \in DOMAIN new.elements
        /\ new.elements[L + j] = o.elements[m]
    BY <1>1, <1>4, <2>3
  <2>5. \A l \in DOMAIN new.elements : new.elements[l].name = name => L + j <= l
    <3> SUFFICES ASSUME NEW l \in DOMAIN new.elements,
                        new.elements[l].name = name
                 PROVE  L + j <= l
      OBVIOUS
    <3>1. l \notin DOMAIN b.elements
      BY <1>5, <1>8 DEF HasChild, Named
    <3>2. l - L \in DOMAIN Added(b, o) /\ new.elements[l] = Added(b, o)[l - L]
      BY <1>6, <3>1
    <3>3. j <= l - L
      BY <2>1, <2>3, <3>2
    <3> QED  BY <1>4, <3>3
  <2>6. HasChild(new, name) /\ Child(new, name) = new.elements[L + j]
    <3> DEFINE k == L + j
    <3>1. /\ new.elements \in Seq(U)
          /\ k \in DOMAIN new.elements /\ new.elements[k].name = name
          /\ \A l \in DOMAIN new.elements : new.elements[l].name = name => k <= l
      BY <1>1, <2>1, <2>4, <2>5
    <3> HIDE DEF k
    <3>2. HasChild(new, name) /\ Child(new, name) = new.elements[k]
      BY <3>1, FirstFound
    <3> QED  BY <3>2 DEF k
  <2> QED  BY <1>1, <1>2, <1>8, <2>1, <2>4, <2>6 DEF ChildCalled, new
<1>9. CASE ~HasChild(b, name) /\ ~HasChild(o, name)
  <2>1. ASSUME NEW l \in DOMAIN new.elements, new.elements[l].name = name
        PROVE  FALSE
    <3>1. l \notin DOMAIN b.elements
      BY <1>5, <1>9, <2>1 DEF HasChild, Named
    <3>2. l - L \in DOMAIN Added(b, o) /\ new.elements[l] = Added(b, o)[l - L]
      BY <1>6, <3>1
    <3>3. PICK i \in 1..Len(o.elements) : Added(b, o)[l - L] = o.elements[i]
      BY <1>3, <3>2 DEF AddedRight
    <3>4. i \in DOMAIN o.elements
      BY <1>1
    <3> QED  BY <1>9, <2>1, <3>2, <3>3, <3>4 DEF HasChild, Named
  <2>2. ~HasChild(new, name)
    BY <2>1 DEF HasChild, Named
  <2> QED  BY <1>9, <2>2 DEF ChildCalled, new
<1> QED  BY <1>7, <1>8, <1>9

-----------------------------------------------------------------------------
(* Nothing gets lost, and all comes from where it is said                  *)

\* Where there is a child, there is an element whose child it is.
LEMMA StepBack ==
  ASSUME NEW U, MergedAllTheWay(U), NEW e \in U, NEW p \in Seq(Nat),
         NEW k \in Nat, k + 1 <= Len(p), Way(e, p)[k + 1] # Absent
  PROVE  /\ Way(e, p)[k] \in U
         /\ Way(e, p)[k + 1] \in U
         /\ ChildAt(Way(e, p)[k], p[k + 1]) = Way(e, p)[k + 1]
<1>1. Len(p) \in Nat /\ k \in 0..Len(p) /\ k + 1 \in 1..Len(p)
      /\ k + 1 \in 0..Len(p) /\ (k + 1) - 1 = k
  OBVIOUS
<1>2. /\ Way(e, p)[k] \in U \cup {Absent} /\ Way(e, p)[k + 1] \in U \cup {Absent}
      /\ Way(e, p)[k + 1] = ChildAt(Way(e, p)[k], p[k + 1])
  <2>1. IsWay(Way(e, p), e, p, U)
    BY WayIs
  <2> QED  BY <1>1, <2>1 DEF IsWay
<1> QED  BY <1>2 DEF ChildAt

\* More files have more counterparts.
LEMMA CounterpartsGrow ==
  ASSUME NEW U, MergedAllTheWay(U), NEW os \in SUBSET U, NEW more \in SUBSET U,
         os \subseteq more, NEW e, NEW p \in Seq(Nat)
  PROVE  \A k \in 0..Len(p) :
           Counterparts(os, e, p)[k] \subseteq Counterparts(more, e, p)[k]
<1> DEFINE N == Len(p)
           v == Counterparts(os, e, p)
           w == Counterparts(more, e, p)
           T == {k \in Nat : k <= N => v[k] \subseteq w[k]}
<1>1. /\ v[0] = os /\ w[0] = more
      /\ \A k \in 1..N : /\ v[k] = AllCalled(v[k - 1], Way(e, p)[k].name)
                         /\ w[k] = AllCalled(w[k - 1], Way(e, p)[k].name)
  <2>1. AreCounterparts(v, os, e, p, U) /\ AreCounterparts(w, more, e, p, U)
    BY CounterpartsAre
  <2> QED  BY <2>1 DEF AreCounterparts
<1> HIDE DEF v, w
<1>2. 0 \in T
  BY <1>1
<1>3. ASSUME NEW k \in Nat, k \in T PROVE k + 1 \in T
  <2> SUFFICES ASSUME k + 1 <= N PROVE v[k + 1] \subseteq w[k + 1]
    OBVIOUS
  <2> DEFINE name == Way(e, p)[k + 1].name
  <2>1. k + 1 \in 1..N /\ (k + 1) - 1 = k /\ v[k] \subseteq w[k]
    BY <1>3
  <2>2. v[k + 1] = AllCalled(v[k], name) /\ w[k + 1] = AllCalled(w[k], name)
    BY <1>1, <2>1
  <2> HIDE DEF name
  <2>3. AllCalled(v[k], name) \subseteq AllCalled(w[k], name)
    BY <2>1 DEF AllCalled
  <2> QED  BY <2>2, <2>3
<1>4. Nat \subseteq T
  <2> HIDE DEF T
  <2> QED  BY <1>2, <1>3, Induction
<1>5. N \in Nat /\ \A k \in 0..N : v[k] \subseteq w[k]
  BY <1>4
<1> QED  BY <1>5 DEF v, w

\* Merging loses nothing of an element, and takes what it takes from the other.
LEMMA MergedExtends ==
  ASSUME NEW U, MergedAllTheWay(U), NEW d \in U, NEW c \in U, NEW b,
         Extends(d, b)
  PROVE  Extends(MergeElement(d, c), b)
<1>1. /\ MergeElement(d, c) \in U /\ MergeElement(d, c).name = d.name
      /\ MergeElement(d, c).attrs = Attributes(d, c)
      /\ MergeElement(d, c).text = TextOf(d, c)
  BY MergeIs
<1>2. MergeElement(d, c) # Absent
  BY <1>1 DEF MergedAllTheWay
<1>3. DOMAIN Attributes(d, c) = DOMAIN d.attrs \cup DOMAIN c.attrs
  BY DEF Attributes
<1>4. HasText(d) => HasText(MergeElement(d, c))
  BY <1>1 DEF TextOf, HasText
<1> QED  BY <1>1, <1>2, <1>3, <1>4 DEF Extends

LEMMA MergedComesFrom ==
  ASSUME NEW U, MergedAllTheWay(U), NEW d \in U, NEW c \in U,
         NEW os, NEW more, ComesFrom(d, os), os \subseteq more, c \in more
  PROVE  ComesFrom(MergeElement(d, c), more)
<1>1. /\ MergeElement(d, c).attrs = Attributes(d, c)
      /\ MergeElement(d, c).text = TextOf(d, c)
  BY MergeIs
<1>2. ASSUME NEW a \in DOMAIN Attributes(d, c)
      PROVE  \E o \in more :
               a \in DOMAIN o.attrs /\ Attributes(d, c)[a] = o.attrs[a]
  <2>1. CASE a \in DOMAIN c.attrs
    <3>1. Attributes(d, c)[a] = c.attrs[a]
      BY <2>1 DEF Attributes
    <3> QED  BY <2>1, <3>1
  <2>2. CASE a \notin DOMAIN c.attrs
    <3>1. a \in DOMAIN d.attrs /\ Attributes(d, c)[a] = d.attrs[a]
      BY <2>2 DEF Attributes
    <3>2. PICK o \in os : a \in DOMAIN o.attrs /\ d.attrs[a] = o.attrs[a]
      BY <3>1 DEF ComesFrom
    <3> QED  BY <3>1, <3>2
  <2> QED  BY <2>1, <2>2
<1>3. \E o \in more : TextOf(d, c) = o.text
  <2>1. PICK o \in os : d.text = o.text
    BY DEF ComesFrom
  <2> QED  BY <2>1 DEF TextOf
<1> QED  BY <1>1, <1>2, <1>3 DEF ComesFrom

\* Wherever b has an element, d has one there too, that extends it, and is made
\* of it and its counterparts in os.
Derives(d, b, os) ==
  \A p \in Seq(Nat) : \A k \in 0..Len(p) :
    Way(b, p)[k] # Absent =>
      /\ Extends(Way(d, p)[k], Way(b, p)[k])
      /\ ComesFrom(Way(d, p)[k],
                   {Way(b, p)[k]} \cup Counterparts(os, b, p)[k])

\* Wherever b has an element, merging left the one of d as it is, or merged it
\* with a counterpart.
LEMMA MergedWay ==
  ASSUME NEW U, MergedAllTheWay(U), NEW b \in U, NEW d \in U, NEW o \in U,
         NEW old, Derives(d, b, old),
         NEW os \in SUBSET U, o \in os, NEW p \in Seq(Nat)
  PROVE  \A k \in 0..Len(p) :
           Way(b, p)[k] # Absent =>
             MergedWithOne(Way(MergeElement(d, o), p)[k], Way(d, p)[k],
                           Counterparts(os, b, p)[k])
<1> DEFINE N == Len(p)
           new == MergeElement(d, o)
           wb == Way(b, p)
           wd == Way(d, p)
           wn == Way(new, p)
           cs == Counterparts(os, b, p)
           T == {k \in Nat : k <= N /\ wb[k] # Absent =>
                               MergedWithOne(wn[k], wd[k], cs[k])}
<1>1. N \in Nat /\ new \in U
  BY MergeIs
<1>2. IsWay(wd, d, p, U) /\ IsWay(wn, new, p, U)
  BY <1>1, WayIs
<1>3. AreCounterparts(cs, os, b, p, U)
  BY CounterpartsAre
<1>4. ASSUME NEW k \in Nat, k + 1 <= N, wb[k + 1] # Absent
      PROVE  wb[k] # Absent
  <2>1. Way(b, p)[k] \in U
    BY <1>4, StepBack
  <2> QED  BY <2>1 DEF MergedAllTheWay
<1>5. \A k \in 0..N : wb[k] # Absent => wd[k] # Absent /\ wd[k].name = wb[k].name
  BY DEF Derives, Extends
<1>6. \A k \in 1..N : cs[k] = AllCalled(cs[k - 1], wb[k].name)
  BY <1>3 DEF AreCounterparts
<1> HIDE DEF N, new, wb, wd, wn, cs
<1>7. 0 \in T
  <2>1. wd[0] = d /\ wn[0] = new /\ cs[0] = os
    BY <1>2, <1>3 DEF IsWay, AreCounterparts
  <2> QED  BY <2>1 DEF MergedWithOne, new
<1>8. ASSUME NEW k \in Nat, k \in T PROVE k + 1 \in T
  <2> DEFINE i == p[k + 1]
             v == wd[k]
             x == wd[k + 1]
  <2> SUFFICES ASSUME k + 1 <= N, wb[k + 1] # Absent
               PROVE  MergedWithOne(wn[k + 1], x, cs[k + 1])
    OBVIOUS
  <2>1. k \in 0..N /\ k + 1 \in 1..N /\ k + 1 \in 0..N /\ (k + 1) - 1 = k
    BY <1>1
  <2>2. v # Absent /\ x # Absent /\ x.name = wb[k + 1].name
    BY <1>4, <1>5, <2>1
  <2>3. v \in U /\ cs[k] \in SUBSET U
    BY <1>2, <1>3, <2>1, <2>2 DEF IsWay, AreCounterparts, N
  <2>4. /\ x = ChildAt(v, i) /\ wn[k + 1] = ChildAt(wn[k], i)
        /\ cs[k + 1] = AllCalled(cs[k], x.name)
    BY <1>2, <1>6, <2>1, <2>2 DEF IsWay, N
  <2>5. MergedWithOne(wn[k], v, cs[k])
    BY <1>4, <1>8, <2>1
  <2> HIDE DEF i, v, x
  <2>6. CASE wn[k] = v
    BY <2>4, <2>6 DEF MergedWithOne
  <2>7. CASE wn[k] # v
    <3>1. PICK c \in cs[k] : wn[k] = MergeElement(v, c)
      BY <2>5, <2>7 DEF MergedWithOne
    <3>2. c \in U /\ ChildAt(v, i) # Absent
      BY <2>2, <2>3, <2>4
    <3>3. MergedWithOne(ChildAt(MergeElement(v, c), i), ChildAt(v, i),
                        AllCalled({c}, ChildAt(v, i).name))
      BY <2>3, <3>2, MergedChildAt
    <3>4. MergedWithOne(wn[k + 1], x, AllCalled({c}, x.name))
      BY <2>4, <3>1, <3>3
    <3>5. AllCalled({c}, x.name) \subseteq cs[k + 1]
      BY <2>4 DEF AllCalled
    <3> QED  BY <3>4, <3>5 DEF MergedWithOne
  <2> QED  BY <2>6, <2>7
<1>9. Nat \subseteq T
  <2> HIDE DEF T
  <2> QED  BY <1>7, <1>8, Induction
<1>10. \A k \in 0..N : wb[k] # Absent => MergedWithOne(wn[k], wd[k], cs[k])
  BY <1>1, <1>9
<1> QED  BY <1>10 DEF N, wb, wd, wn, cs, new

\* One more file is merged.
LEMMA DerivesStep ==
  ASSUME NEW U, MergedAllTheWay(U), NEW b \in U, NEW d \in U, NEW o \in U,
         NEW os \in SUBSET U, Derives(d, b, os)
  PROVE  Derives(MergeElement(d, o), b, os \cup {o})
<1> DEFINE more == os \cup {o}
           new == MergeElement(d, o)
<1> SUFFICES ASSUME NEW p \in Seq(Nat), NEW k \in 0..Len(p), Way(b, p)[k] # Absent
             PROVE  /\ Extends(Way(new, p)[k], Way(b, p)[k])
                    /\ ComesFrom(Way(new, p)[k],
                                 {Way(b, p)[k]} \cup Counterparts(more, b, p)[k])
  BY DEF Derives
<1> DEFINE vb == Way(b, p)[k]
           vd == Way(d, p)[k]
           vn == Way(new, p)[k]
           c1 == Counterparts(os, b, p)[k]
           c2 == Counterparts(more, b, p)[k]
           all1 == {vb} \cup c1
           all2 == {vb} \cup c2
<1>1. more \in SUBSET U /\ o \in more /\ os \subseteq more
  OBVIOUS
<1>2. Extends(vd, vb) /\ ComesFrom(vd, all1)
  BY DEF Derives
<1>3. vd \in U
  <2>1. IsWay(Way(d, p), d, p, U)
    BY WayIs
  <2> QED  BY <1>2, <2>1 DEF Extends, IsWay
<1> HIDE DEF more
<1>4. c1 \subseteq c2 /\ c2 \in SUBSET U
  <2>1. c1 \subseteq c2
    BY <1>1, CounterpartsGrow
  <2>2. AreCounterparts(Counterparts(more, b, p), more, b, p, U)
    BY <1>1, CounterpartsAre
  <2> QED  BY <2>1, <2>2 DEF AreCounterparts
<1>5. MergedWithOne(vn, vd, c2)
  BY <1>1, MergedWay
<1> HIDE DEF vb, vd, vn, c1, c2, new
<1>6. all1 \subseteq all2 /\ c2 \subseteq all2
  BY <1>4
<1> HIDE DEF all1, all2
<1>7. Extends(vn, vb) /\ ComesFrom(vn, all2)
  <2>1. CASE vn = vd
    BY <1>2, <1>6, <2>1 DEF ComesFrom
  <2>2. CASE vn # vd
    <3>1. PICK c \in c2 : vn = MergeElement(vd, c)
      BY <1>5, <2>2 DEF MergedWithOne
    <3>2. c \in U /\ c \in all2
      BY <1>4, <1>6
    <3>3. Extends(vn, vb)
      BY <1>2, <1>3, <3>1, <3>2, MergedExtends
    <3>4. ComesFrom(vn, all2)
      BY <1>2, <1>3, <1>6, <3>1, <3>2, MergedComesFrom
    <3> QED  BY <3>3, <3>4
  <2> QED  BY <2>1, <2>2
<1> QED  BY <1>7 DEF vb, vn, c2, all2, new, more

\* What nothing is merged into is what it is.
LEMMA DerivesItself ==
  ASSUME NEW U, MergedAllTheWay(U), NEW b \in U
  PROVE  Derives(b, b, {})
<1> SUFFICES ASSUME NEW p \in Seq(Nat), NEW k \in 0..Len(p), Way(b, p)[k] # Absent
             PROVE  /\ Extends(Way(b, p)[k], Way(b, p)[k])
                    /\ ComesFrom(Way(b, p)[k],
                                 {Way(b, p)[k]} \cup Counterparts({}, b, p)[k])
  BY DEF Derives
<1> QED  BY DEF Extends, ComesFrom

-----------------------------------------------------------------------------
(* The last of the files that says something wins                          *)

\* Whether that is both, merged, or the one that there is.
MergedIfBoth(new, b, o) ==
  new = IF b = Absent THEN o ELSE IF o = Absent THEN b ELSE MergeElement(b, o)

\* What names lead to after merging is what they led to in both.
LEMMA MergedCalled ==
  ASSUME NEW U, MergedAllTheWay(U), NEW b \in U, NEW o \in U,
         NEW n, Len(n) \in Nat
  PROVE  MergedIfBoth(Called(MergeElement(b, o), n), Called(b, n), Called(o, n))
<1> DEFINE N == Len(n)
           new == MergeElement(b, o)
           wb == WayByNames(b, n)
           wo == WayByNames(o, n)
           wn == WayByNames(new, n)
           T == {k \in Nat : k <= N => MergedIfBoth(wn[k], wb[k], wo[k])}
<1>1. N \in Nat /\ new \in U /\ Absent \notin U
  BY MergeIs DEF MergedAllTheWay
<1>2. /\ IsWayByNames(wb, b, n, U) /\ IsWayByNames(wo, o, n, U)
      /\ IsWayByNames(wn, new, n, U)
  BY <1>1, NameWayIs
<1> HIDE DEF N, new, wb, wo, wn
<1>3. 0 \in T
  <2>1. wb[0] = b /\ wo[0] = o /\ wn[0] = new
    BY <1>2 DEF IsWayByNames
  <2> QED  BY <1>1, <2>1 DEF MergedIfBoth, new
<1>4. ASSUME NEW k \in Nat, k \in T PROVE k + 1 \in T
  <2> DEFINE i == n[k + 1]
             v == wb[k]
             c == wo[k]
             m == wn[k]
  <2> SUFFICES ASSUME k + 1 <= N
               PROVE  MergedIfBoth(wn[k + 1], wb[k + 1], wo[k + 1])
    OBVIOUS
  <2>1. k \in 0..N /\ k + 1 \in 1..N /\ (k + 1) - 1 = k
    BY <1>1
  <2>2. /\ v \in U \cup {Absent} /\ c \in U \cup {Absent}
        /\ wb[k + 1] = ChildCalled(v, i) /\ wo[k + 1] = ChildCalled(c, i)
        /\ wn[k + 1] = ChildCalled(m, i)
    BY <1>2, <2>1 DEF IsWayByNames, N
  <2>3. MergedIfBoth(m, v, c)
    BY <1>4, <2>1
  <2> HIDE DEF i, v, c, m
  <2>4. MergedIfBoth(ChildCalled(m, i), ChildCalled(v, i), ChildCalled(c, i))
    <3>1. CASE v = Absent
      <4>1. ChildCalled(v, i) = Absent /\ m = c
        BY <2>3, <3>1 DEF ChildCalled, MergedIfBoth
      <4> QED  BY <4>1 DEF MergedIfBoth
    <3>2. CASE v # Absent /\ c = Absent
      <4>1. ChildCalled(c, i) = Absent /\ m = v
        BY <2>3, <3>2 DEF ChildCalled, MergedIfBoth
      <4> QED  BY <4>1 DEF MergedIfBoth
    <3>3. CASE v # Absent /\ c # Absent
      <4>1. m = MergeElement(v, c) /\ v \in U /\ c \in U
        BY <2>2, <2>3, <3>3 DEF MergedIfBoth
      <4>2. ChildCalled(m, i) =
              IF ~HasChild(v, i) THEN ChildCalled(c, i)
              ELSE IF ~HasChild(c, i) THEN ChildCalled(v, i)
              ELSE MergeElement(ChildCalled(v, i), ChildCalled(c, i))
        BY <4>1, MergedChildCalled
      <4>3. HasChild(v, i) => Child(v, i) \in U
        BY <4>1, ChildIn
      <4>4. HasChild(c, i) => Child(c, i) \in U
        BY <4>1, ChildIn
      <4>5. /\ HasChild(v, i) <=> ChildCalled(v, i) # Absent
            /\ HasChild(c, i) <=> ChildCalled(c, i) # Absent
        BY <1>1, <3>3, <4>3, <4>4 DEF ChildCalled
      <4> QED  BY <4>2, <4>5 DEF MergedIfBoth
    <3> QED  BY <3>1, <3>2, <3>3
  <2> QED  BY <2>2, <2>4
<1>5. Nat \subseteq T
  <2> HIDE DEF T
  <2> QED  BY <1>3, <1>4, Induction
<1>6. MergedIfBoth(wn[N], wb[N], wo[N])
  BY <1>1, <1>5
<1> QED  BY <1>6 DEF wn, wb, wo, N, new, Called

\* What one element says after merging in what the next file says of it.
LEMMA LastWinsStep ==
  ASSUME NEW U, MergedAllTheWay(U), NEW e \in U \cup {Absent},
         NEW ks \in SUBSET Nat, NEW found, \A k \in ks : found[k] \in U,
         NEW m \in Nat, \A k \in ks : k < m, found[m] \in U \cup {Absent},
         LastWins(e, found, ks),
         NEW new, MergedIfBoth(new, e, found[m])
  PROVE  LastWins(new, found, IF found[m] = Absent THEN ks ELSE ks \cup {m})
<1> DEFINE c == found[m]
           all == ks \cup {m}
<1>1. Absent \notin U /\ (e # Absent <=> ks # {})
  BY DEF MergedAllTheWay, LastWins
<1>2. CASE c = Absent
  <2>1. new = e
    BY <1>2 DEF MergedIfBoth
  <2> QED  BY <1>2, <2>1
<1>3. CASE c # Absent /\ e = Absent
  <2>1. new = c /\ ks = {} /\ c \in U
    BY <1>1, <1>3 DEF MergedIfBoth
  <2>2. LastWins(c, found, {m})
    <3>1. ComesFrom(c, {c})
      BY DEF ComesFrom
    <3> QED  BY <1>3, <3>1 DEF LastWins
  <2> QED  BY <1>3, <2>1, <2>2
<1>4. CASE c # Absent /\ e # Absent
  <2>1. new = MergeElement(e, c) /\ e \in U /\ c \in U
    BY <1>4 DEF MergedIfBoth
  <2>2. /\ new \in U /\ new.attrs = Attributes(e, c) /\ new.text = TextOf(e, c)
    BY <2>1, MergeIs
  <2>3. /\ DOMAIN new.attrs = DOMAIN e.attrs \cup DOMAIN c.attrs
        /\ \A a \in DOMAIN c.attrs : new.attrs[a] = c.attrs[a]
        /\ \A a \in DOMAIN e.attrs \ DOMAIN c.attrs : new.attrs[a] = e.attrs[a]
    BY <2>2 DEF Attributes
  <2>4. new # Absent /\ all # {}
    BY <1>1, <2>2
  <2>5. ASSUME NEW k \in all, NEW a \in DOMAIN found[k].attrs
        PROVE  /\ a \in DOMAIN new.attrs
               /\ (\A j \in all : j > k => a \notin DOMAIN found[j].attrs) =>
                    new.attrs[a] = found[k].attrs[a]
    <3>1. CASE k = m
      BY <2>3, <2>5, <3>1
    <3>2. CASE k \in ks
      <4>1. /\ a \in DOMAIN e.attrs
            /\ (\A j \in ks : j > k => a \notin DOMAIN found[j].attrs) =>
                 e.attrs[a] = found[k].attrs[a]
        BY <2>5, <3>2 DEF LastWins
      <4>2. m \in all /\ m > k
        BY <3>2
      <4> QED  BY <2>3, <4>1, <4>2
    <3> QED  BY <3>1, <3>2
  <2>6. ASSUME NEW k \in all, HasText(found[k]),
               \A j \in all : j > k => ~HasText(found[j])
        PROVE  new.text = found[k].text
    <3>1. CASE k = m
      BY <2>2, <2>6, <3>1 DEF TextOf
    <3>2. CASE k \in ks
      <4>1. e.text = found[k].text
        BY <2>6, <3>2 DEF LastWins
      <4>2. m \in all /\ m > k
        BY <3>2
      <4>3. ~HasText(c)
        BY <2>6, <4>2
      <4> QED  BY <2>2, <4>1, <4>3 DEF TextOf
    <3> QED  BY <3>1, <3>2
  <2>7. ComesFrom(new, {found[k] : k \in all})
    <3> DEFINE os == {found[k] : k \in ks}
               more == {found[k] : k \in all}
    <3>1. ComesFrom(e, os)
      BY <1>4 DEF LastWins
    <3>2. os \subseteq more /\ c \in more
      OBVIOUS
    <3> HIDE DEF os, more, c
    <3>3. ComesFrom(MergeElement(e, c), more)
      BY <2>1, <3>1, <3>2, MergedComesFrom
    <3> QED  BY <2>1, <3>3 DEF more
  <2>8. LastWins(new, found, all)
    <3> HIDE DEF all
    <3> QED  BY <2>4, <2>5, <2>6, <2>7 DEF LastWins
  <2> QED  BY <1>4, <2>8
<1> QED  BY <1>2, <1>3, <1>4

-----------------------------------------------------------------------------
(* Merging again what is merged changes nothing                            *)

\* Whether that is c itself, or c was merged into it.
Has(v, c, U) == v = c \/ \E b \in U : v = MergeElement(b, c)

\* Where names tell the children apart, who looks for one by its name finds it.
LEMMA UnambiguousChild ==
  ASSUME NEW U, MergedAllTheWay(U), NEW c \in U, Unambiguous(c),
         NEW l \in DOMAIN c.elements
  PROVE  /\ c.elements[l] \in U
         /\ HasChild(c, c.elements[l].name)
         /\ Child(c, c.elements[l].name) = c.elements[l]
<1> DEFINE name == c.elements[l].name
<1>1. c.elements \in Seq(U)
  BY DEF MergedAllTheWay
<1>2. HasChild(c, name)
  BY DEF HasChild, Named
<1>3. c.elements[l] \in U
  BY <1>1
<1> HIDE DEF name
<1>4. PICK i \in DOMAIN c.elements :
        c.elements[i] = Child(c, name) /\ c.elements[i].name = name
  BY <1>1, <1>2, ChildIs
<1>5. i = l
  BY <1>4 DEF Unambiguous, name
<1> QED  BY <1>2, <1>3, <1>4, <1>5 DEF name

\* So does merging again the children of what has c.
LEMMA AgainBelow ==
  ASSUME NEW U, MergedAllTheWay(U), NEW v \in U, NEW c \in U, Unambiguous(c),
         Has(v, c, U), NEW i, ChildAt(v, i) # Absent
  PROVE  LET x == ChildAt(v, i)
             y == ChildAt(MergeElement(v, c), i)
         IN \/ y = x
            \/ \E d \in AllCalled({c}, x.name) :
                 y = MergeElement(x, d) /\ Has(x, d, U)
<1> DEFINE x == v.elements[i]
           w == MergeElement(v, c)
<1>1. i \in DOMAIN v.elements /\ ChildAt(v, i) = x
  BY DEF ChildAt
<1>2. Absent \notin U /\ c.elements \in Seq(U) /\ v.elements \in Seq(U)
  BY DEF MergedAllTheWay
<1>3. /\ w \in U /\ w.elements \in Seq(U)
      /\ Len(w.elements) = Len(v.elements) + Len(Added(v, c))
      /\ Added(v, c) \in Seq(U)
      /\ w.elements[i] = IF HasChild(c, x.name)
                         THEN MergeElement(x, Child(c, x.name)) ELSE x
  BY <1>1, MergeIs
<1>4. ChildAt(w, i) = w.elements[i]
  BY <1>1, <1>2, <1>3 DEF ChildAt
<1>5. ASSUME HasChild(c, x.name), Has(x, Child(c, x.name), U)
      PROVE  \E d \in AllCalled({c}, x.name) :
               ChildAt(w, i) = MergeElement(x, d) /\ Has(x, d, U)
  <2> DEFINE name == x.name
  <2> HIDE DEF name
  <2>1. HasChild(c, name)
    BY <1>5 DEF name
  <2>2. PICK j \in DOMAIN c.elements :
          c.elements[j] = Child(c, name) /\ c.elements[j].name = name
    BY <1>2, <2>1, ChildIs
  <2>3. Child(c, name) \in AllCalled({c}, name)
    BY <2>2 DEF AllCalled, Named
  <2> QED  BY <1>3, <1>4, <1>5, <2>3 DEF name
<1>6. ASSUME NEW l \in DOMAIN c.elements, x = c.elements[l]
      PROVE  HasChild(c, x.name) /\ Has(x, Child(c, x.name), U)
  BY <1>6, UnambiguousChild DEF Has
<1>7. CASE v = c
  BY <1>1, <1>5, <1>6, <1>7
<1>8. CASE v # c
  <2>1. PICK b \in U : v = MergeElement(b, c)
    BY <1>8 DEF Has
  <2>2. /\ b.elements \in Seq(U) /\ Added(b, c) \in Seq(U)
        /\ Len(v.elements) = Len(b.elements) + Len(Added(b, c))
        /\ \A k \in DOMAIN b.elements :
             v.elements[k] =
               IF HasChild(c, b.elements[k].name)
               THEN MergeElement(b.elements[k], Child(c, b.elements[k].name))
               ELSE b.elements[k]
        /\ \A j \in DOMAIN Added(b, c) :
             v.elements[Len(b.elements) + j] = Added(b, c)[j]
    BY <2>1, MergeIs
  <2> DEFINE L == Len(b.elements)
             M == Len(Added(b, c))
  <2>3. /\ L \in Nat /\ M \in Nat /\ i \in 1..(L + M)
        /\ DOMAIN b.elements = 1..L /\ DOMAIN Added(b, c) = 1..M
    BY <1>1, <1>2, <2>2
  <2> HIDE DEF x, w
  <2>4. CASE i \in 1..L
    <3> DEFINE z == b.elements[i]
    <3>1. /\ z \in U
          /\ x = IF HasChild(c, z.name) THEN MergeElement(z, Child(c, z.name))
                 ELSE z
      BY <2>2, <2>3, <2>4 DEF x
    <3> HIDE DEF z
    <3>2. CASE HasChild(c, z.name)
      <4>1. Child(c, z.name) \in U
        BY <3>2, ChildIn
      <4>2. x = MergeElement(z, Child(c, z.name)) /\ x.name = z.name
        BY <3>1, <3>2, <4>1, MergeIs
      <4>3. HasChild(c, x.name) /\ Has(x, Child(c, x.name), U)
        BY <3>1, <3>2, <4>2 DEF Has
      <4> QED  BY <1>1, <1>5, <4>3 DEF x, w
    <3>3. CASE ~HasChild(c, z.name)
      <4>1. x = z /\ ~HasChild(c, x.name)
        BY <3>1, <3>3
      <4>2. ChildAt(w, i) = x
        BY <1>3, <1>4, <4>1 DEF x, w
      <4> QED  BY <1>1, <4>2 DEF x, w
    <3> QED  BY <3>2, <3>3
  <2>5. CASE i \notin 1..L
    <3>1. i - L \in 1..M /\ L + (i - L) = i
      BY <2>3, <2>5
    <3>2. x = Added(b, c)[i - L]
      BY <2>2, <2>3, <3>1 DEF x
    <3>3. PICK l \in 1..Len(c.elements) : x = c.elements[l]
      <4> DEFINE j == i - L
      <4>1. j \in DOMAIN Added(b, c) /\ x = Added(b, c)[j]
        BY <2>3, <3>1, <3>2
      <4> HIDE DEF j
      <4>2. AddedRight(Added(b, c), b, c, Len(c.elements))
        BY <1>2, AddedIs
      <4> QED  BY <4>1, <4>2 DEF AddedRight
    <3>4. l \in DOMAIN c.elements
      BY <1>2
    <3>5. HasChild(c, x.name) /\ Has(x, Child(c, x.name), U)
      BY <1>6, <3>3, <3>4 DEF x
    <3> QED  BY <1>1, <1>5, <3>5 DEF x, w
  <2> QED  BY <2>4, <2>5
<1> QED  BY <1>7, <1>8

\* Nor does it change the element itself.
LEMMA AgainSame ==
  ASSUME NEW U, MergedAllTheWay(U), NEW v \in U, NEW c \in U, Has(v, c, U)
  PROVE  Same(MergeElement(v, c), v)
<1> DEFINE w == MergeElement(v, c)
<1>1. /\ w \in U /\ w.name = v.name /\ w.attrs = Attributes(v, c)
      /\ w.text = TextOf(v, c)
      /\ Len(w.elements) = Len(v.elements) + Len(Added(v, c))
      /\ Added(v, c) \in Seq(U) /\ c.elements \in Seq(U) /\ v.elements \in Seq(U)
  BY MergeIs
<1>2. /\ Absent \notin U
      /\ v.attrs = [a \in DOMAIN v.attrs |-> v.attrs[a]]
  BY DEF MergedAllTheWay
<1>3. /\ DOMAIN c.attrs \subseteq DOMAIN v.attrs
      /\ \A a \in DOMAIN c.attrs : v.attrs[a] = c.attrs[a]
      /\ HasText(c) => v.text = c.text
      /\ \A name : HasChild(c, name) => HasChild(v, name)
  <2>1. CASE v = c
    BY <2>1
  <2>2. CASE v # c
    <3>1. PICK b \in U : v = MergeElement(b, c)
      BY <2>2 DEF Has
    <3>2. v.attrs = Attributes(b, c) /\ v.text = TextOf(b, c)
      BY <3>1, MergeIs
    <3>3. /\ DOMAIN c.attrs \subseteq DOMAIN v.attrs
          /\ \A a \in DOMAIN c.attrs : v.attrs[a] = c.attrs[a]
          /\ HasText(c) => v.text = c.text
      BY <3>2 DEF Attributes, TextOf
    <3>4. ASSUME NEW name, HasChild(c, name) PROVE HasChild(v, name)
      <4>1. ChildCalled(v, name) =
              IF ~HasChild(b, name) THEN ChildCalled(c, name)
              ELSE IF ~HasChild(c, name) THEN ChildCalled(b, name)
              ELSE MergeElement(ChildCalled(b, name), ChildCalled(c, name))
        BY <3>1, MergedChildCalled
      <4>2. ChildCalled(c, name) \in U
        BY <1>2, <3>4, ChildIn DEF ChildCalled
      <4>3. HasChild(b, name) => ChildCalled(b, name) \in U
        BY <1>2, ChildIn DEF ChildCalled
      <4>4. ChildCalled(v, name) \in U
        BY <3>4, <4>1, <4>2, <4>3, MergeIs
      <4> QED  BY <1>2, <4>4 DEF ChildCalled
    <3> QED  BY <3>3, <3>4
  <2> QED  BY <2>1, <2>2
<1>4. Attributes(v, c) = v.attrs
  <2>1. DOMAIN v.attrs \cup DOMAIN c.attrs = DOMAIN v.attrs
    BY <1>3
  <2>2. Attributes(v, c) = [a \in DOMAIN v.attrs |-> v.attrs[a]]
    BY <1>3, <2>1 DEF Attributes
  <2> QED  BY <1>2, <2>2
<1>5. TextOf(v, c) = v.text
  BY <1>3 DEF TextOf
<1>6. Len(Added(v, c)) = 0
  <2> SUFFICES ASSUME Len(Added(v, c)) # 0 PROVE FALSE
    OBVIOUS
  <2>1. 1 \in DOMAIN Added(v, c)
    BY <1>1
  <2>2. PICK i \in 1..Len(c.elements) : ~HasChild(v, c.elements[i].name)
    BY <1>1, <2>1, AddedIs DEF AddedRight
  <2>3. HasChild(c, c.elements[i].name)
    BY <1>1 DEF HasChild, Named
  <2> QED  BY <1>3, <2>2, <2>3
<1>7. Len(v.elements) \in Nat
  BY <1>1
<1> QED  BY <1>1, <1>2, <1>4, <1>5, <1>6, <1>7 DEF Same

\* Wherever names tell the elements of o apart, a document that has o is the same
\* with o merged into it again.
LEMMA Again ==
  ASSUME NEW U, MergedAllTheWay(U), NEW d \in U, NEW o \in U, Has(d, o, U),
         NEW p \in Seq(Nat), At(d, p) # Absent,
         \A k \in 0..Len(p) : \A c \in Counterparts({o}, d, p)[k] : Unambiguous(c)
  PROVE  Same(At(MergeElement(d, o), p), At(d, p))
<1> DEFINE N == Len(p)
           new == MergeElement(d, o)
           v == Way(d, p)
           w == Way(new, p)
           cs == Counterparts({o}, d, p)
           Is(k) == \/ w[k] = v[k]
                    \/ \E c \in cs[k] :
                         w[k] = MergeElement(v[k], c) /\ Has(v[k], c, U)
           T == {k \in Nat : k <= N /\ v[k] # Absent => Is(k)}
<1>1. N \in Nat /\ new \in U /\ {o} \in SUBSET U /\ Absent \notin U
  BY MergeIs DEF MergedAllTheWay
<1>2. IsWay(v, d, p, U) /\ IsWay(w, new, p, U)
  BY <1>1, WayIs
<1>3. AreCounterparts(cs, {o}, d, p, U)
  BY <1>1, CounterpartsAre
<1>4. \A k \in 1..N : cs[k] = AllCalled(cs[k - 1], v[k].name)
  BY <1>3 DEF AreCounterparts
<1>5. ASSUME NEW k \in Nat, k + 1 <= N, v[k + 1] # Absent
      PROVE  v[k] \in U
  BY <1>5, StepBack
<1>6. \A k \in 0..N : \A c \in cs[k] : Unambiguous(c)
  OBVIOUS
<1> HIDE DEF N, new, v, w, cs
<1>7. 0 \in T
  <2>1. v[0] = d /\ w[0] = new /\ cs[0] = {o}
    BY <1>2, <1>3 DEF IsWay, AreCounterparts
  <2> QED  BY <2>1 DEF new
<1>8. ASSUME NEW k \in Nat, k \in T PROVE k + 1 \in T
  <2> DEFINE i == p[k + 1]
             e == v[k]
  <2> SUFFICES ASSUME k + 1 <= N, v[k + 1] # Absent
               PROVE  Is(k + 1)
    OBVIOUS
  <2>1. k \in 0..N /\ k + 1 \in 1..N /\ (k + 1) - 1 = k /\ k <= N
    BY <1>1
  <2>2. e \in U /\ e # Absent
    BY <1>1, <1>5
  <2>3. cs[k] \in SUBSET U
    BY <1>3, <2>1 DEF AreCounterparts, N
  <2>4. v[k + 1] = ChildAt(e, i) /\ w[k + 1] = ChildAt(w[k], i)
    BY <1>2, <2>1 DEF IsWay, N
  <2>5. cs[k + 1] = AllCalled(cs[k], v[k + 1].name)
    BY <1>4, <2>1
  <2>6. Is(k)
    BY <1>8, <2>1, <2>2
  <2>7. CASE w[k] = e
    BY <2>4, <2>7
  <2>8. CASE w[k] # e
    <3>1. PICK c \in cs[k] : w[k] = MergeElement(e, c) /\ Has(e, c, U)
      BY <2>6, <2>8
    <3>2. c \in U /\ Unambiguous(c) /\ ChildAt(e, i) # Absent
      BY <1>6, <2>1, <2>3, <2>4
    <3> HIDE DEF e, i
    <3> DEFINE x == ChildAt(e, i)
               y == ChildAt(MergeElement(e, c), i)
    <3>3. \/ y = x
          \/ \E a \in AllCalled({c}, x.name) :
               y = MergeElement(x, a) /\ Has(x, a, U)
      BY <2>2, <3>1, <3>2, AgainBelow
    <3>4. v[k + 1] = x /\ w[k + 1] = y
      BY <2>4, <3>1
    <3>5. AllCalled({c}, x.name) \subseteq cs[k + 1]
      BY <2>5, <3>4 DEF AllCalled
    <3> HIDE DEF x, y
    <3> QED  BY <3>3, <3>4, <3>5
  <2> QED  BY <2>7, <2>8
<1>9. Nat \subseteq T
  <2> HIDE DEF T
  <2> QED  BY <1>7, <1>8, Induction
<1>10. v[N] # Absent /\ N <= N /\ N \in 0..N
  BY <1>1 DEF v, N, At
<1>11. Is(N)
  BY <1>1, <1>9, <1>10
<1>12. v[N] \in U
  BY <1>2, <1>10 DEF IsWay, N
<1>13. Same(w[N], v[N])
  <2>1. CASE w[N] = v[N]
    BY <1>10, <2>1 DEF Same
  <2>2. CASE w[N] # v[N]
    <3>1. PICK c \in cs[N] : w[N] = MergeElement(v[N], c) /\ Has(v[N], c, U)
      BY <1>11, <2>2
    <3>2. c \in U
      BY <1>3, <1>10 DEF AreCounterparts, N
    <3> QED  BY <1>12, <3>1, <3>2, AgainSame
  <2> QED  BY <2>1, <2>2
<1> QED  BY <1>13 DEF w, v, N, At, new

-----------------------------------------------------------------------------
(* What merge_overlays has so far                                          *)

\* All that is ever merged is among the trees U.
InputsAmong(U) ==
  \A i \in Inputs : i[1] \subseteq U /\ \A s \in i[2] : ToSet(s) \subseteq U

AllAmong(U) ==
  /\ base \in U
  /\ overlays \in Seq(U)
  /\ pc \in {"merge", "done"} => doc \in U

MergedSoFar == {overlays[i] : i \in 1..(next - 1)}

LEMMA AmongInitially ==
  ASSUME NEW U, MergedAllTheWay(U), InputsAmong(U)
  PROVE  Init => AllAmong(U)
<1> SUFFICES ASSUME Init PROVE AllAmong(U)
  OBVIOUS
<1>1. PICK i \in Inputs : base \in i[1] /\ overlays \in i[2]
  BY DEF Init
<1>2. base \in U /\ ToSet(overlays) \subseteq U
  BY <1>1 DEF InputsAmong
<1>3. overlays \in Seq(ToSet(overlays))
  BY <1>1, InputsAssumption
<1>4. overlays \in Seq(U)
  <2> DEFINE S == ToSet(overlays)
  <2> HIDE DEF S
  <2> QED  BY <1>2, <1>3 DEF S
<1> QED  BY <1>2, <1>4 DEF Init, AllAmong

LEMMA AmongStep ==
  ASSUME NEW U, MergedAllTheWay(U), InputsAmong(U)
  PROVE  IInv /\ AllAmong(U) /\ [Next]_vars => AllAmong(U)'
<1> SUFFICES ASSUME IInv, AllAmong(U), [Next]_vars PROVE AllAmong(U)'
  OBVIOUS
<1>1. next \in Nat /\ next >= 1
  BY DEF IInv, TypeOK, AllAmong
<1>2. CASE Generate
  BY <1>2 DEF Generate, AllAmong
<1>3. CASE Load
  BY <1>3 DEF Load, AllAmong, IInv, Written
<1>4. CASE MergeOverlay
  <2>1. overlays[next] \in U
    BY <1>1, <1>4 DEF MergeOverlay, AllAmong
  <2>2. MergeElement(doc, overlays[next]) \in U
    BY <1>4, <2>1, MergeIs DEF MergeOverlay, AllAmong
  <2> QED  BY <1>4, <2>2 DEF MergeOverlay, AllAmong
<1>5. CASE RefuseOverlay
  BY <1>5 DEF RefuseOverlay, AllAmong
<1>6. CASE Save
  BY <1>6 DEF Save, AllAmong
<1>7. CASE UNCHANGED vars
  BY <1>7 DEF vars, AllAmong
<1> QED  BY <1>2, <1>3, <1>4, <1>5, <1>6, <1>7 DEF Next

\* All that is merged is trees that merging keeps among.
LEMMA Among ==
  ASSUME NEW CONSTANT U, MergedAllTheWay(U), InputsAmong(U)
  PROVE  Spec => []AllAmong(U)
<1>1. Init => AllAmong(U)
  BY AmongInitially
<1>2. IInv /\ AllAmong(U) /\ [Next]_vars => AllAmong(U)'
  BY AmongStep
<1> QED  BY <1>1, <1>2, Invariance, PTL DEF Spec

\* The document extends the base, and is made of it and what has been merged.
DocDerives == pc \in {"merge", "done"} => Derives(doc, base, MergedSoFar)

LEMMA DocDerivesStep ==
  ASSUME NEW U, MergedAllTheWay(U)
  PROVE  IInv /\ AllAmong(U) /\ DocDerives /\ [Next]_vars => DocDerives'
<1> SUFFICES ASSUME IInv, AllAmong(U), DocDerives, [Next]_vars PROVE DocDerives'
  OBVIOUS
<1>1. next \in Nat /\ next >= 1 /\ base \in U /\ overlays \in Seq(U)
  BY DEF IInv, TypeOK, AllAmong
<1>2. CASE Generate
  BY <1>2 DEF Generate, DocDerives
<1>3. CASE Load
  <2>1. doc' = base /\ base' = base /\ overlays' = overlays /\ next' = 1
    BY <1>3 DEF Load, IInv, Written
  <2>2. MergedSoFar' = {}
    BY <2>1 DEF MergedSoFar
  <2>3. Derives(base, base, {})
    BY <1>1, DerivesItself
  <2> QED  BY <2>1, <2>2, <2>3 DEF DocDerives
<1>4. CASE MergeOverlay
  <2> DEFINE o == overlays[next]
  <2>1. /\ pc = "merge" /\ next <= Len(overlays) /\ next' = next + 1
        /\ doc' = MergeElement(doc, o) /\ base' = base /\ overlays' = overlays
    BY <1>4 DEF MergeOverlay
  <2>2. o \in U /\ doc \in U
    BY <1>1, <2>1 DEF AllAmong
  <2>3. MergedSoFar \in SUBSET U
    BY <1>1, <2>1 DEF MergedSoFar
  <2>4. MergedSoFar' = MergedSoFar \cup {o}
    <3>1. 1..(next' - 1) = (1..(next - 1)) \cup {next}
      BY <1>1, <2>1
    <3> QED  BY <2>1, <3>1 DEF MergedSoFar
  <2>5. Derives(doc, base, MergedSoFar)
    BY <2>1 DEF DocDerives
  <2> HIDE DEF o
  <2>6. Derives(MergeElement(doc, o), base, MergedSoFar \cup {o})
    BY <1>1, <2>2, <2>3, <2>5, DerivesStep
  <2> QED  BY <2>1, <2>4, <2>6 DEF DocDerives
<1>5. CASE RefuseOverlay
  BY <1>5 DEF RefuseOverlay, DocDerives
<1>6. CASE Save
  BY <1>6 DEF Save, DocDerives, MergedSoFar
<1>7. CASE UNCHANGED vars
  BY <1>7 DEF vars, DocDerives, MergedSoFar
<1> QED  BY <1>2, <1>3, <1>4, <1>5, <1>6, <1>7 DEF Next

LEMMA DocAlwaysDerives ==
  ASSUME NEW CONSTANT U, MergedAllTheWay(U), InputsAmong(U)
  PROVE  Spec => []DocDerives
<1>1. Init => DocDerives
  BY DEF Init, DocDerives
<1>2. IInv /\ AllAmong(U) /\ DocDerives /\ [Next]_vars => DocDerives'
  BY DocDerivesStep
<1>3. Spec => []AllAmong(U)
  BY Among
<1> QED  BY <1>1, <1>2, <1>3, Invariance, PTL DEF Spec

\* What each of the sources has where those names lead, which of the first m files
\* have something there, and that the document says what they say.
FoundIn(n) == [k \in 0..Len(overlays) |-> Called(Source(k), n)]
Among1st(n, m) == {k \in 0..m : Called(Source(k), n) # Absent}
DocSays ==
  pc \in {"merge", "done"} =>
    \A n \in Seq(STRING) :
      LastWins(Called(doc, n), FoundIn(n), Among1st(n, next - 1))

\* What names lead to is among the trees, or not there.
LEMMA CalledIn ==
  ASSUME NEW U, MergedAllTheWay(U), NEW e \in U, NEW n \in Seq(STRING)
  PROVE  Called(e, n) \in U \cup {Absent}
<1>1. Len(n) \in Nat /\ Len(n) \in 0..Len(n)
  OBVIOUS
<1>2. IsWayByNames(WayByNames(e, n), e, n, U)
  BY <1>1, NameWayIs
<1> QED  BY <1>1, <1>2 DEF IsWayByNames, Called

LEMMA DocSaysStep ==
  ASSUME NEW U, MergedAllTheWay(U)
  PROVE  IInv /\ AllAmong(U) /\ DocSays /\ [Next]_vars => DocSays'
<1> SUFFICES ASSUME IInv, AllAmong(U), DocSays, [Next]_vars PROVE DocSays'
  OBVIOUS
<1>1. /\ next \in Nat /\ next >= 1 /\ base \in U /\ overlays \in Seq(U)
      /\ Len(overlays) \in Nat /\ Absent \notin U
  BY DEF IInv, TypeOK, AllAmong, MergedAllTheWay
<1>2. base' = base /\ overlays' = overlays
  BY DEF Next, Generate, Load, MergeOverlay, RefuseOverlay, Save, vars
<1>3. \A n : FoundIn(n)' = FoundIn(n)
  BY <1>2 DEF FoundIn, Source
<1>4. \A n, m : Among1st(n, m)' = Among1st(n, m)
  BY <1>2 DEF Among1st, Source
<1>5. CASE UNCHANGED <<doc, next>> /\ (pc' \in {"merge", "done"} =>
                                        pc \in {"merge", "done"})
  <2>1. ASSUME NEW n PROVE Among1st(n, next - 1)' = Among1st(n, next - 1)
    BY <1>2, <1>5 DEF Among1st, Source
  <2>2. \A n : Called(doc, n)' = Called(doc, n)
    BY <1>5
  <2> QED  BY <1>3, <1>5, <2>1, <2>2 DEF DocSays
<1>6. CASE Load
  <2>1. doc' = base /\ next' = 1 /\ next' - 1 = 0
    BY <1>6 DEF Load, IInv, Written
  <2>2. ASSUME NEW n \in Seq(STRING)
        PROVE  LastWins(Called(base, n), FoundIn(n), Among1st(n, 0))
    <3> DEFINE e == Called(base, n)
               found == FoundIn(n)
    <3>1. found[0] = e /\ Called(Source(0), n) = e /\ 0..0 = {0}
      BY <1>1 DEF FoundIn, Source
    <3>2. Among1st(n, 0) = IF e = Absent THEN {} ELSE {0}
      BY <3>1 DEF Among1st
    <3>3. ComesFrom(e, {e})
      BY DEF ComesFrom
    <3> DEFINE ks == Among1st(n, 0)
    <3> HIDE DEF e, found, ks
    <3>4. CASE e = Absent
      <4>1. ks = {}
        BY <3>2, <3>4 DEF ks
      <4> QED  BY <3>4, <4>1 DEF LastWins, e, found, ks
    <3>5. CASE e # Absent
      <4>1. ks = {0} /\ found[0] = e
        BY <3>1, <3>2, <3>5 DEF ks
      <4>2. {found[k] : k \in ks} = {e}
        BY <4>1
      <4>3. LastWins(e, found, ks)
        BY <3>3, <3>5, <4>1, <4>2 DEF LastWins
      <4> QED  BY <4>3 DEF e, found, ks
    <3> QED  BY <3>4, <3>5
  <2>3. \A n : Among1st(n, next - 1)' = Among1st(n, 0)
    BY <1>2, <2>1 DEF Among1st, Source
  <2>4. \A n : Called(doc, n)' = Called(base, n)
    BY <2>1
  <2> QED  BY <1>3, <2>2, <2>3, <2>4 DEF DocSays
<1>7. CASE MergeOverlay
  <2> DEFINE o == overlays[next]
  <2>1. /\ pc = "merge" /\ next <= Len(overlays) /\ next' = next + 1
        /\ doc' = MergeElement(doc, o)
    BY <1>7 DEF MergeOverlay
  <2>2. o \in U /\ doc \in U /\ next' - 1 = next
    BY <1>1, <2>1 DEF AllAmong
  <2>3. ASSUME NEW n \in Seq(STRING)
        PROVE  LastWins(Called(MergeElement(doc, o), n), FoundIn(n),
                        Among1st(n, next))
    <3> DEFINE e == Called(doc, n)
               new == Called(MergeElement(doc, o), n)
               found == FoundIn(n)
               ks == Among1st(n, next - 1)
    <3>1. Len(n) \in Nat
      OBVIOUS
    <3>2. LastWins(e, found, ks)
      BY <2>1 DEF DocSays
    <3>3. MergedIfBoth(new, e, Called(o, n))
      BY <2>2, <3>1, MergedCalled
    <3>4. /\ next \in 0..Len(overlays)
          /\ \A k \in 0..(next - 1) : k \in 0..Len(overlays) /\ k < next
          /\ 0..next = (0..(next - 1)) \cup {next}
      BY <1>1, <2>1
    <3>5. Called(Source(next), n) = Called(o, n) /\ found[next] = Called(o, n)
      BY <1>1, <3>4 DEF FoundIn, Source
    <3>6. \A k \in 0..Len(overlays) :
            found[k] = Called(Source(k), n) /\ found[k] \in U \cup {Absent}
      <4> TAKE k \in 0..Len(overlays)
      <4>1. Source(k) \in U
        BY <1>1 DEF Source
      <4>2. Called(Source(k), n) \in U \cup {Absent}
        BY <4>1, CalledIn
      <4> QED  BY <4>2 DEF FoundIn
    <3>7. /\ ks \in SUBSET Nat
          /\ \A k \in ks : found[k] \in U /\ k < next
      <4>1. ks \subseteq 0..(next - 1)
        BY DEF Among1st
      <4>2. \A k \in ks : Called(Source(k), n) # Absent
        BY DEF Among1st
      <4>3. ks \in SUBSET Nat
        BY <4>1
      <4> HIDE DEF ks, found
      <4> QED  BY <3>4, <3>6, <4>1, <4>2, <4>3
    <3>8. Among1st(n, next) = IF found[next] = Absent THEN ks ELSE ks \cup {next}
      BY <3>4, <3>5 DEF Among1st
    <3>9. e \in U \cup {Absent} /\ found[next] \in U \cup {Absent}
      BY <2>2, <3>4, <3>6, CalledIn
    <3>10. MergedIfBoth(new, e, found[next])
      BY <3>3, <3>5
    <3> HIDE DEF e, new, found, ks
    <3>11. LastWins(new, found,
                    IF found[next] = Absent THEN ks ELSE ks \cup {next})
      BY <1>1, <3>2, <3>7, <3>9, <3>10, LastWinsStep
    <3> QED  BY <3>8, <3>11 DEF new, found
  <2>4. \A n : Among1st(n, next - 1)' = Among1st(n, next)
    BY <1>2, <2>2 DEF Among1st, Source
  <2>5. \A n : Called(doc, n)' = Called(MergeElement(doc, o), n)
    BY <2>1
  <2> QED  BY <1>3, <2>3, <2>4, <2>5 DEF DocSays
<1>8. CASE Generate
  BY <1>8 DEF Generate, DocSays
<1>9. CASE RefuseOverlay
  BY <1>5, <1>9 DEF RefuseOverlay
<1>10. CASE Save
  BY <1>5, <1>10 DEF Save
<1>11. CASE UNCHANGED vars
  BY <1>5, <1>11 DEF vars
<1> QED  BY <1>6, <1>7, <1>8, <1>9, <1>10, <1>11 DEF Next

LEMMA DocAlwaysSays ==
  ASSUME NEW CONSTANT U, MergedAllTheWay(U), InputsAmong(U)
  PROVE  Spec => []DocSays
<1>1. Init => DocSays
  BY DEF Init, DocSays
<1>2. IInv /\ AllAmong(U) /\ DocSays /\ [Next]_vars => DocSays'
  BY DocSaysStep
<1>3. Spec => []AllAmong(U)
  BY Among
<1> QED  BY <1>1, <1>2, <1>3, Invariance, PTL DEF Spec

\* The document has the last file that was merged into it.
DocHasLast(U) ==
  pc \in {"merge", "done"} /\ next > 1 => Has(doc, overlays[next - 1], U)

LEMMA DocAlwaysHasLast ==
  ASSUME NEW CONSTANT U, MergedAllTheWay(U), InputsAmong(U)
  PROVE  Spec => []DocHasLast(U)
<1>1. Init => DocHasLast(U)
  BY DEF Init, DocHasLast
<1>2. IInv /\ AllAmong(U) /\ DocHasLast(U) /\ [Next]_vars => DocHasLast(U)'
  <2> SUFFICES ASSUME IInv, AllAmong(U), DocHasLast(U), [Next]_vars
               PROVE  DocHasLast(U)'
    OBVIOUS
  <2>1. CASE Generate
    BY <2>1 DEF Generate, DocHasLast
  <2>2. CASE Load
    BY <2>2 DEF Load, DocHasLast, IInv, Written
  <2>3. CASE MergeOverlay
    <3>1. /\ pc = "merge" /\ next' = next + 1 /\ overlays' = overlays
          /\ doc' = MergeElement(doc, overlays[next]) /\ doc \in U
      BY <2>3 DEF MergeOverlay, AllAmong
    <3>2. next \in Nat /\ next' - 1 = next
      BY <3>1 DEF IInv, TypeOK, AllAmong
    <3>3. Has(MergeElement(doc, overlays[next]), overlays[next], U)
      BY <3>1 DEF Has
    <3> QED  BY <3>1, <3>2, <3>3 DEF DocHasLast
  <2>4. CASE RefuseOverlay
    BY <2>4 DEF RefuseOverlay, DocHasLast
  <2>5. CASE Save
    BY <2>5 DEF Save, DocHasLast
  <2>6. CASE UNCHANGED vars
    BY <2>6 DEF vars, DocHasLast
  <2> QED  BY <2>1, <2>2, <2>3, <2>4, <2>5, <2>6 DEF Next
<1>3. Spec => []AllAmong(U)
  BY Among
<1> QED  BY <1>1, <1>2, <1>3, Invariance, PTL DEF Spec

\* At the end, what has been merged is all the files, and domain.xml is that.
LEMMA AtTheEnd ==
  ASSUME NEW U, IInv, AllAmong(U), pc = "done"
  PROVE  /\ Len(overlays) \in Nat /\ next - 1 = Len(overlays)
         /\ file = doc
         /\ MergedSoFar = ToSet(overlays)
<1>1. Len(overlays) \in Nat /\ DOMAIN overlays = 1..Len(overlays)
  BY DEF AllAmong
<1>2. next \in 1..(Len(overlays) + 1) /\ next > Len(overlays) /\ file = doc
  BY DEF IInv, TypeOK, Written
<1>3. next - 1 = Len(overlays)
  BY <1>1, <1>2
<1> QED  BY <1>1, <1>2, <1>3 DEF MergedSoFar, ToSet

-----------------------------------------------------------------------------
(* The theorems                                                            *)

\* Whatever is merged, nothing that crun-vm generated gets lost or changes its
\* place.
THEOREM BaseKeptHolds ==
  ASSUME NEW CONSTANT U, MergedAllTheWay(U), InputsAmong(U)
  PROVE  Spec => []BaseKept
<1>1. IInv /\ AllAmong(U) /\ DocDerives => BaseKept
  <2> SUFFICES ASSUME IInv, AllAmong(U), DocDerives, pc = "done",
                      NEW p \in Places, At(base, p) # Absent
               PROVE  Extends(At(file, p), At(base, p))
    BY DEF BaseKept
  <2>1. p \in Seq(Nat) /\ Len(p) \in 0..Len(p)
    BY PlacesAssumption
  <2>2. Derives(file, base, MergedSoFar)
    BY AtTheEnd DEF DocDerives
  <2> QED  BY <2>1, <2>2 DEF Derives, At
<1>2. Spec => []AllAmong(U)
  BY Among
<1>3. Spec => []DocDerives
  BY DocAlwaysDerives
<1> QED  BY <1>1, <1>2, <1>3, Invariance, PTL

\* No element of what crun-vm generated has, in the end, anything that it did
\* not have or a file says of an element at its place.
THEOREM OnlySaidChangesHolds ==
  ASSUME NEW CONSTANT U, MergedAllTheWay(U), InputsAmong(U)
  PROVE  Spec => []OnlySaidChanges
<1>1. IInv /\ AllAmong(U) /\ DocDerives => OnlySaidChanges
  <2> SUFFICES ASSUME IInv, AllAmong(U), DocDerives, pc = "done",
                      NEW p \in Places, At(base, p) # Absent
               PROVE  ComesFrom(At(file, p),
                        {At(base, p)}
                          \cup Counterparts(ToSet(overlays), base, p)[Len(p)])
    BY DEF OnlySaidChanges
  <2>1. p \in Seq(Nat) /\ Len(p) \in 0..Len(p)
    BY PlacesAssumption
  <2>2. Derives(file, base, ToSet(overlays))
    BY AtTheEnd DEF DocDerives
  <2> QED  BY <2>1, <2>2 DEF Derives, At
<1>2. Spec => []AllAmong(U)
  BY Among
<1>3. Spec => []DocDerives
  BY DocAlwaysDerives
<1> QED  BY <1>1, <1>2, <1>3, Invariance, PTL

\* Who takes the first child of each name finds in domain.xml what crun-vm and
\* the files say, and of two that contradict each other, what the later says.
THEOREM OverlaysWinHolds ==
  ASSUME NEW CONSTANT U, MergedAllTheWay(U), InputsAmong(U)
  PROVE  Spec => []OverlaysWin
<1>1. IInv /\ AllAmong(U) /\ DocSays => OverlaysWin
  <2> SUFFICES ASSUME IInv, AllAmong(U), DocSays, pc = "done",
                      NEW n \in NamePlaces
               PROVE  LastWins(Called(file, n), FoundIn(n),
                               {k \in DOMAIN FoundIn(n) : FoundIn(n)[k] # Absent})
    BY DEF OverlaysWin, FoundIn
  <2>1. n \in Seq(STRING)
    BY PlacesAssumption
  <2>2. next - 1 = Len(overlays) /\ file = doc
    BY AtTheEnd
  <2>3. LastWins(Called(file, n), FoundIn(n), Among1st(n, Len(overlays)))
    BY <2>1, <2>2 DEF DocSays
  <2>4. {k \in DOMAIN FoundIn(n) : FoundIn(n)[k] # Absent} =
          Among1st(n, Len(overlays))
    BY DEF FoundIn, Among1st
  <2> QED  BY <2>3, <2>4
<1>2. Spec => []AllAmong(U)
  BY Among
<1>3. Spec => []DocSays
  BY DocAlwaysSays
<1> QED  BY <1>1, <1>2, <1>3, Invariance, PTL

\* Giving a file twice is no different from giving it once, wherever names tell
\* its elements apart.
THEOREM OnceIsEnoughHolds ==
  ASSUME NEW CONSTANT U, MergedAllTheWay(U), InputsAmong(U)
  PROVE  Spec => []OnceIsEnough
<1>1. IInv /\ AllAmong(U) /\ DocHasLast(U) => OnceIsEnough
  <2> SUFFICES ASSUME IInv, AllAmong(U), DocHasLast(U), pc = "done",
                      overlays # <<>>
               PROVE  LET o == overlays[Len(overlays)]
                      IN \A p \in Places :
                           /\ At(file, p) # Absent
                           /\ \A k \in 0..Len(p) :
                                \A c \in Counterparts({o}, file, p)[k] :
                                  Unambiguous(c)
                           => Same(At(MergeElement(file, o), p), At(file, p))
    BY DEF OnceIsEnough
  <2> DEFINE o == overlays[Len(overlays)]
  <2>1. next - 1 = Len(overlays) /\ file = doc /\ Len(overlays) \in Nat
    BY AtTheEnd
  <2>2. Len(overlays) # 0 /\ overlays \in Seq(U) /\ doc \in U
    BY DEF AllAmong
  <2>3. next > 1 /\ o \in U
    BY <2>1, <2>2 DEF IInv, TypeOK
  <2>4. Has(file, o, U) /\ file \in U
    BY <2>1, <2>2, <2>3 DEF DocHasLast
  <2> HIDE DEF o
  <2>5. ASSUME NEW p \in Places, At(file, p) # Absent,
               \A k \in 0..Len(p) :
                 \A c \in Counterparts({o}, file, p)[k] : Unambiguous(c)
        PROVE  Same(At(MergeElement(file, o), p), At(file, p))
    <3>1. p \in Seq(Nat)
      BY PlacesAssumption
    <3> QED  BY <2>3, <2>4, <2>5, <3>1, Again
  <2> QED  BY <2>5 DEF o
<1>2. Spec => []AllAmong(U)
  BY Among
<1>3. Spec => []DocHasLast(U)
  BY DocAlwaysHasLast
<1> QED  BY <1>1, <1>2, <1>3, Invariance, PTL
===============================================================================
