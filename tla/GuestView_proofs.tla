--------------------------- MODULE GuestView_proofs ---------------------------
(***************************************************************************)
(* That the guest sees its configuration, in every run and for all         *)
(* configurations, and the proof.                                          *)
(*                                                                         *)
(* The invariant counts. A mount, device or option that becomes a disk is  *)
(* a thing; its number is how many such things come before it, which says  *)
(* nothing of the create that counts. MadeSoFar says that a create has     *)
(* listed, mounted and made nodes for the things it has been through, each *)
(* at the place of its number. Told says that domain.xml and the           *)
(* first-boot configuration go by the numbers of the things that the first *)
(* create found. Where a later create finds the same, they are its own.    *)
(***************************************************************************)
EXTENDS GuestConfig_proofs, FiniteSetTheorems, SequenceTheorems

-----------------------------------------------------------------------------
(* Things and their numbers                                                *)

\* A thing is the i-th mount, device or option: <<1, i>>, <<2, i>>, <<3, i>>.
Things == {1, 2, 3} \X Nat
Before(x, y) == x[1] < y[1] \/ (x[1] = y[1] /\ x[2] < y[2])
Number(D, x) == Cardinality({y \in D : Before(y, x)})
Countable(D) == IsFiniteSet(D) /\ D \subseteq Things

\* One of two things comes before the other, and none before itself.
LEMMA BeforeOrders ==
  ASSUME NEW x \in Things, NEW y \in Things
  PROVE  /\ ~Before(x, x)
         /\ Before(x, y) => ~Before(y, x)
         /\ x = y \/ Before(x, y) \/ Before(y, x)
         /\ \A z \in Things : Before(x, y) /\ Before(y, z) => Before(x, z)
<1>1. /\ x[1] \in {1, 2, 3} /\ x[2] \in Nat /\ x = <<x[1], x[2]>>
      /\ y[1] \in {1, 2, 3} /\ y[2] \in Nat /\ y = <<y[1], y[2]>>
  BY DEF Things
<1>2. \A z \in Things : z[1] \in {1, 2, 3} /\ z[2] \in Nat
  BY DEF Things
<1> QED
  BY <1>1, <1>2 DEF Before

\* The thing that comes last has the number of the things there were.
LEMMA NewThing ==
  ASSUME NEW D, Countable(D), NEW x \in Things, \A y \in D : Before(y, x)
  PROVE  /\ Countable(D \cup {x})
         /\ Cardinality(D) \in Nat
         /\ Cardinality(D \cup {x}) = Cardinality(D) + 1
         /\ Number(D \cup {x}, x) = Cardinality(D)
         /\ \A y \in D : Number(D \cup {x}, y) = Number(D, y)
<1> DEFINE E == D \cup {x}
<1>1. D \subseteq Things /\ IsFiniteSet(D)
  BY DEF Countable
<1>2. x \notin D
  BY <1>1, BeforeOrders
<1>3. /\ IsFiniteSet(E) /\ Cardinality(D) \in Nat
      /\ Cardinality(E) = Cardinality(D) + 1
  BY <1>1, <1>2, FS_AddElement, FS_CardinalityType
<1>4. {y \in E : Before(y, x)} = D
  BY <1>1, BeforeOrders
<1>5. ASSUME NEW y \in D PROVE {z \in E : Before(z, y)} = {z \in D : Before(z, y)}
  BY <1>1, <1>5, BeforeOrders
<1> QED
  BY <1>1, <1>3, <1>4, <1>5 DEF Countable, Number

\* A number is less than the number of things.
LEMMA NumberBelow ==
  ASSUME NEW D, Countable(D), NEW x \in D
  PROVE  /\ Number(D, x) \in Nat /\ Cardinality(D) \in Nat
         /\ Number(D, x) < Cardinality(D)
<1> DEFINE B == {y \in D : Before(y, x)}
<1>1. D \subseteq Things /\ IsFiniteSet(D) /\ B \in SUBSET D
  BY DEF Countable
<1>2. x \notin B
  BY <1>1, BeforeOrders
<1>3. /\ IsFiniteSet(B) /\ Cardinality(B) <= Cardinality(D)
      /\ Cardinality(D) = Cardinality(B) => D = B
  BY <1>1, FS_Subset
<1>4. Cardinality(B) \in Nat /\ Cardinality(D) \in Nat
  BY <1>1, <1>3, FS_CardinalityType
<1>5. Cardinality(B) # Cardinality(D)
  BY <1>2, <1>3
<1> QED
  BY <1>3, <1>4, <1>5 DEF Number

\* Things that come one before the other have different numbers.
LEMMA NumbersRise ==
  ASSUME NEW D, Countable(D), NEW x \in D, NEW y \in D, Before(x, y)
  PROVE  Number(D, x) # Number(D, y)
<1> DEFINE B == {z \in D : Before(z, x)}
           C == {z \in D : Before(z, y)}
<1>1. D \subseteq Things /\ IsFiniteSet(D) /\ C \in SUBSET D
  BY DEF Countable
<1>2. B \in SUBSET C /\ x \in C /\ x \notin B
  BY <1>1, BeforeOrders
<1>3. IsFiniteSet(C)
  BY <1>1, FS_Subset
<1>4. Cardinality(C) = Cardinality(B) => C = B
  BY <1>2, <1>3, FS_Subset
<1> QED
  BY <1>2, <1>4 DEF Number

\* No two things have one number.
LEMMA NumbersDistinct ==
  ASSUME NEW D, Countable(D), NEW x \in D, NEW y \in D,
         Number(D, x) = Number(D, y)
  PROVE  x = y
<1>1. x \in Things /\ y \in Things
  BY DEF Countable
<1>2. x = y \/ Before(x, y) \/ Before(y, x)
  BY <1>1, BeforeOrders
<1> QED
  BY <1>2, NumbersRise

-----------------------------------------------------------------------------
(* The lists that create makes of the things                               *)

\* S holds the mounts, the devices and the options.
Thing(S, x) == S[x[1]][x[2]]
ReadOnly(S, x) == IF x[1] = 3 THEN FALSE ELSE Thing(S, x).ro

\* What a list has for a thing: its place and its path in the guest.
Fits(S, sort, x, n, e) ==
  /\ e.at = Place(sort, n) /\ e.dst = Thing(S, x).dst
  /\ sort = "block" => e.ro = ReadOnly(S, x)

\* The list holds the things of D, each where its number says.
Listed(S, D, list, sort) ==
  /\ IsSeq(list) /\ Len(list) = Cardinality(D)
  /\ \A x \in D : Fits(S, sort, x, Number(D, x), list[Number(D, x) + 1])
  /\ \A k \in 1..Len(list) : \E x \in D : k = Number(D, x) + 1

\* What is appended is last, and the rest is where it was.
LEMMA AppendAt ==
  ASSUME NEW s, NEW e, IsSeq(s)
  PROVE  /\ Append(s, e)[Len(s) + 1] = e
         /\ \A k \in 1..Len(s) : Append(s, e)[k] = s[k]
         /\ ToSet(Append(s, e)) = ToSet(s) \cup {e}
<1>1. PICK T : s \in Seq(T)
  BY DEF IsSeq
<1>2. /\ Append(s, e)[Len(s) + 1] = e
      /\ \A k \in 1..Len(s) : Append(s, e)[k] = s[k]
  BY <1>1
<1>3. /\ DOMAIN Append(s, e) = 1..(Len(s) + 1) /\ DOMAIN s = 1..Len(s)
      /\ Len(s) \in Nat
  BY <1>1
<1>4. 1..(Len(s) + 1) = 1..Len(s) \cup {Len(s) + 1}
  BY <1>3
<1>5. {Append(s, e)[k] : k \in 1..Len(s)} = {s[k] : k \in 1..Len(s)}
  BY <1>2
<1>6. ToSet(Append(s, e)) =
        {Append(s, e)[k] : k \in 1..Len(s)} \cup {Append(s, e)[Len(s) + 1]}
  BY <1>3, <1>4 DEF ToSet
<1>7. ToSet(s) = {s[k] : k \in 1..Len(s)}
  BY <1>3 DEF ToSet
<1> QED
  BY <1>2, <1>5, <1>6, <1>7

\* A thing that comes last goes to the end of the list.
LEMMA ListedMore ==
  ASSUME NEW S, NEW D, NEW list, NEW sort, Countable(D),
         Listed(S, D, list, sort),
         NEW x \in Things, \A y \in D : Before(y, x),
         NEW e, Fits(S, sort, x, Cardinality(D), e)
  PROVE  Listed(S, D \cup {x}, Append(list, e), sort)
<1> DEFINE E == D \cup {x}
           more == Append(list, e)
<1>1. /\ Cardinality(D) \in Nat /\ Cardinality(E) = Cardinality(D) + 1
      /\ Number(E, x) = Cardinality(D)
      /\ \A y \in D : Number(E, y) = Number(D, y)
  BY NewThing
<1>2. /\ IsSeq(list) /\ Len(list) = Cardinality(D)
      /\ \A y \in D : Fits(S, sort, y, Number(D, y), list[Number(D, y) + 1])
      /\ \A k \in 1..Len(list) : \E y \in D : k = Number(D, y) + 1
  BY DEF Listed
<1>3. /\ IsSeq(more) /\ Len(more) = Len(list) + 1
      /\ more[Len(list) + 1] = e
      /\ \A k \in 1..Len(list) : more[k] = list[k]
  BY <1>2, AppendLonger, AppendAt
<1>4. \A y \in D : Number(D, y) + 1 \in 1..Len(list)
  BY <1>2, NumberBelow
<1>5. x \in E /\ D \subseteq E /\ \A y \in E : y \in D \/ y = x
  OBVIOUS
<1> HIDE DEF more, E
<1>6. \A y \in D : Fits(S, sort, y, Number(E, y), more[Number(E, y) + 1])
  BY <1>1, <1>2, <1>3, <1>4
<1>7. Fits(S, sort, x, Number(E, x), more[Number(E, x) + 1])
  BY <1>1, <1>2, <1>3
<1>8. ASSUME NEW k \in 1..Len(more) PROVE \E y \in E : k = Number(E, y) + 1
  <2>1. CASE k \in 1..Len(list)
    <3>1. PICK y \in D : k = Number(D, y) + 1
      BY <1>2, <2>1
    <3> QED
      BY <1>1, <1>5, <3>1
  <2>2. CASE k = Len(list) + 1
    BY <1>1, <1>2, <1>5, <2>2
  <2> QED
    BY <1>1, <1>2, <1>3, <2>1, <2>2
<1>9. Len(more) = Cardinality(E)
  BY <1>1, <1>2, <1>3
<1>10. Listed(S, E, more, sort)
  <2>1. \A y \in E : Fits(S, sort, y, Number(E, y), more[Number(E, y) + 1])
    BY <1>6, <1>7, <1>5
  <2> QED
    BY <1>3, <1>8, <1>9, <2>1 DEF Listed
<1> QED
  BY <1>10 DEF more, E
-----------------------------------------------------------------------------
(* What create has made of some of the things                              *)

\* No place of crun-vm.
Foreign(path) == \A sort, n : path # Place(sort, n)

\* A mount of the container is the engine's, or brings a thing to its place.
Ours(S, D, V, o) ==
  \/ Foreign(o.at)
  \/ \E x \in D : /\ x[1] # 2 /\ o.src = Thing(S, x).src
                  /\ o.at = Place("block", Number(D, x))
  \/ \E x \in V : /\ o.src = Thing(S, x).src /\ o.ro = Thing(S, x).ro
                  /\ o.at = Place("virtiofs", Number(V, x))

\* Every thing is at its place: mounted there or, if a device, as a node.
Placed(S, D, V, o, N) ==
  /\ \A x \in D : x[1] # 2 =>
       \E e \in ToSet(o) : e.at = Place("block", Number(D, x))
  /\ \A x \in D : x[1] = 2 => [n |-> Number(D, x), src |-> Thing(S, x).src] \in N
  /\ \A x \in V : \E e \in ToSet(o) : e.at = Place("virtiofs", Number(V, x))

\* D are the disks, b their list; V the directories, v their list; o the mounts
\* of the container and N the nodes.
Made(S, D, V, b, v, o, N) ==
  /\ Countable(D) /\ Countable(V) /\ IsSeq(o)
  /\ Listed(S, D, b, "block") /\ Listed(S, V, v, "virtiofs")
  /\ \A e \in ToSet(o) : Ours(S, D, V, e)
  /\ Placed(S, D, V, o, N)

\* More things, and the numbers of those there were are as they were.
Extends(D, E) == D \subseteq E /\ \A x \in D : Number(E, x) = Number(D, x)

\* A place has one sort and one number.
LEMMA PlacesDiffer ==
  ASSUME NEW s, NEW t, NEW m, NEW n, Place(s, m) = Place(t, n)
  PROVE  s = t /\ m = n
<1>1. Place(s, m)[2] = s /\ Place(t, n)[2] = t
  BY DEF Place
<1>2. Place(s, m)[3] = m /\ Place(t, n)[3] = n
  BY DEF Place
<1> QED
  BY <1>1, <1>2

\* With more things, a mount is still the one it was.
LEMMA OursStays ==
  ASSUME NEW S, NEW D, NEW E, NEW V, NEW W, NEW e, Extends(D, E), Extends(V, W),
         Ours(S, D, V, e)
  PROVE  Ours(S, E, W, e)
BY DEF Extends, Ours

\* A set extends itself.
LEMMA ExtendsItself ==
  ASSUME NEW D
  PROVE  Extends(D, D)
BY DEF Extends

\* A create begins with nothing, whatever nodes there are.
LEMMA MadeNothing ==
  ASSUME NEW S, NEW N
  PROVE  Made(S, {}, {}, <<>>, <<>>, <<>>, N)
<1>1. Countable({}) /\ Cardinality({}) = 0
  BY FS_EmptySet DEF Countable
<1>2. IsSeq(<<>>) /\ Len(<<>>) = 0 /\ ToSet(<<>>) = {}
  BY EmptyIsSeq DEF ToSet
<1>3. \A sort : Listed(S, {}, <<>>, sort)
  BY <1>1, <1>2 DEF Listed
<1> QED
  BY <1>1, <1>2, <1>3 DEF Made, Placed

\* Nodes may be added.
LEMMA MadeWithNodes ==
  ASSUME NEW S, NEW D, NEW V, NEW b, NEW v, NEW o, NEW N, NEW M,
         Made(S, D, V, b, v, o, N), N \subseteq M
  PROVE  Made(S, D, V, b, v, o, M)
BY DEF Made, Placed

\* A mount that is no place of crun-vm may be kept.
LEMMA MadeKept ==
  ASSUME NEW S, NEW D, NEW V, NEW b, NEW v, NEW o, NEW N, NEW e,
         Made(S, D, V, b, v, o, N), Foreign(e.at)
  PROVE  Made(S, D, V, b, v, Append(o, e), N)
<1>1. IsSeq(Append(o, e)) /\ ToSet(Append(o, e)) = ToSet(o) \cup {e}
  BY AppendLonger, AppendAt DEF Made
<1>2. \A f \in ToSet(Append(o, e)) : Ours(S, D, V, f)
  BY <1>1 DEF Made, Ours
<1>3. Placed(S, D, V, Append(o, e), N)
  BY <1>1 DEF Made, Placed
<1> QED
  BY <1>1, <1>2, <1>3 DEF Made

\* A directory is shared.
LEMMA MadeShared ==
  ASSUME NEW S, NEW D, NEW V, NEW b, NEW v, NEW o, NEW N,
         Made(S, D, V, b, v, o, N),
         NEW x \in Things, \A y \in V : Before(y, x),
         NEW e, e.at = Place("virtiofs", Len(v)),
         e.src = Thing(S, x).src, e.ro = Thing(S, x).ro
  PROVE  Made(S, D, V \cup {x}, b,
              Append(v, [at |-> Place("virtiofs", Len(v)),
                         dst |-> Thing(S, x).dst]),
              Append(o, e), N)
<1> DEFINE W == V \cup {x}
           p == Append(o, e)
           d == [at |-> Place("virtiofs", Len(v)), dst |-> Thing(S, x).dst]
           w == Append(v, d)
<1>1. Countable(D) /\ Countable(V) /\ Len(v) = Cardinality(V)
  BY DEF Made, Listed
<1>2. Countable(W) /\ Extends(V, W) /\ Number(W, x) = Len(v)
  BY <1>1, NewThing DEF Extends
<1>3. Fits(S, "virtiofs", x, Cardinality(V), d)
  BY <1>1 DEF Fits
<1> HIDE DEF d
<1>4. Listed(S, W, w, "virtiofs")
  BY <1>1, <1>3, ListedMore DEF Made
<1>5. IsSeq(p) /\ ToSet(p) = ToSet(o) \cup {e}
  BY AppendLonger, AppendAt DEF Made
<1>6. x \in W /\ \A y \in W : y \in V \/ y = x
  OBVIOUS
<1> HIDE DEF W, p, w
<1>7. \A f \in ToSet(p) : Ours(S, D, W, f)
  <2>1. Ours(S, D, W, e)
    BY <1>2, <1>6 DEF Ours
  <2>2. \A f \in ToSet(o) : Ours(S, D, W, f)
    BY <1>2, OursStays, ExtendsItself DEF Made
  <2> QED
    BY <1>5, <2>1, <2>2
<1>8. Placed(S, D, W, p, N)
  <2>1. /\ \A y \in D : y[1] # 2 =>
              \E f \in ToSet(p) : f.at = Place("block", Number(D, y))
        /\ \A y \in D : y[1] = 2 =>
              [n |-> Number(D, y), src |-> Thing(S, y).src] \in N
        /\ \A y \in V : \E f \in ToSet(p) : f.at = Place("virtiofs", Number(W, y))
    <3>1. Placed(S, D, V, o, N) /\ Extends(V, W) /\ ToSet(o) \subseteq ToSet(p)
      BY <1>2, <1>5 DEF Made
    <3> QED
      BY <3>1 DEF Placed, Extends
  <2>2. e \in ToSet(p) /\ e.at = Place("virtiofs", Number(W, x))
    BY <1>2, <1>5
  <2>3. \A y \in W : \E f \in ToSet(p) : f.at = Place("virtiofs", Number(W, y))
    <3>1. TAKE y \in W
    <3>2. CASE y \in V
      BY <2>1, <3>2
    <3>3. CASE y = x
      BY <2>2, <3>3
    <3> QED
      BY <1>6, <3>2, <3>3
  <2> QED
    BY <2>1, <2>3 DEF Placed
<1>9. Made(S, D, W, b, w, p, N)
  BY <1>1, <1>2, <1>4, <1>5, <1>7, <1>8 DEF Made
<1> QED
  BY <1>9 DEF W, p, w, d

\* A disk is mounted at its place.
LEMMA MadeDisk ==
  ASSUME NEW S, NEW D, NEW V, NEW b, NEW v, NEW o, NEW N,
         Made(S, D, V, b, v, o, N),
         NEW x \in Things, x[1] # 2, \A y \in D : Before(y, x),
         NEW e, e.at = Place("block", Len(b)), e.src = Thing(S, x).src,
         NEW d, Fits(S, "block", x, Len(b), d)
  PROVE  Made(S, D \cup {x}, V, Append(b, d), v, Append(o, e), N)
<1> DEFINE E == D \cup {x}
           p == Append(o, e)
           c == Append(b, d)
<1>1. Countable(D) /\ Countable(V) /\ Len(b) = Cardinality(D)
  BY DEF Made, Listed
<1>2. Countable(E) /\ Extends(D, E) /\ Number(E, x) = Len(b)
  BY <1>1, NewThing DEF Extends
<1>3. Listed(S, E, c, "block")
  BY <1>1, ListedMore DEF Made
<1>5. IsSeq(p) /\ ToSet(p) = ToSet(o) \cup {e}
  BY AppendLonger, AppendAt DEF Made
<1>6. x \in E /\ \A y \in E : y \in D \/ y = x
  OBVIOUS
<1> HIDE DEF E, p, c
<1>7. \A f \in ToSet(p) : Ours(S, E, V, f)
  <2>1. Ours(S, E, V, e)
    BY <1>2, <1>6 DEF Ours
  <2>2. \A f \in ToSet(o) : Ours(S, E, V, f)
    BY <1>2, OursStays, ExtendsItself DEF Made
  <2> QED
    BY <1>5, <2>1, <2>2
<1>8. Placed(S, E, V, p, N)
  <2>1. /\ \A y \in D : y[1] # 2 =>
              \E f \in ToSet(p) : f.at = Place("block", Number(E, y))
        /\ \A y \in D : y[1] = 2 =>
              [n |-> Number(E, y), src |-> Thing(S, y).src] \in N
        /\ \A y \in V : \E f \in ToSet(p) : f.at = Place("virtiofs", Number(V, y))
    <3>1. Placed(S, D, V, o, N) /\ Extends(D, E) /\ ToSet(o) \subseteq ToSet(p)
      BY <1>2, <1>5 DEF Made
    <3> QED
      BY <3>1 DEF Placed, Extends
  <2>2. e \in ToSet(p) /\ e.at = Place("block", Number(E, x))
    BY <1>2, <1>5
  <2>3. \A y \in E : y[1] # 2 =>
          \E f \in ToSet(p) : f.at = Place("block", Number(E, y))
    <3>1. TAKE y \in E
    <3>2. CASE y \in D
      BY <2>1, <3>2
    <3>3. CASE y = x
      BY <2>2, <3>3
    <3> QED
      BY <1>6, <3>2, <3>3
  <2>4. \A y \in E : y[1] = 2 => [n |-> Number(E, y), src |-> Thing(S, y).src] \in N
    BY <1>6, <2>1
  <2> QED
    BY <2>1, <2>3, <2>4 DEF Placed
<1>9. Made(S, E, V, c, v, p, N)
  BY <1>1, <1>2, <1>3, <1>5, <1>7, <1>8 DEF Made
<1> QED
  BY <1>9 DEF E, p, c

\* A device gets a node at its place.
LEMMA MadeDevice ==
  ASSUME NEW S, NEW D, NEW V, NEW b, NEW v, NEW o, NEW N,
         Made(S, D, V, b, v, o, N),
         NEW x \in Things, x[1] = 2, \A y \in D : Before(y, x),
         NEW d, Fits(S, "block", x, Len(b), d)
  PROVE  Made(S, D \cup {x}, V, Append(b, d), v, o,
              N \cup {[n |-> Len(b), src |-> Thing(S, x).src]})
<1> DEFINE E == D \cup {x}
           c == Append(b, d)
           M == N \cup {[n |-> Len(b), src |-> Thing(S, x).src]}
<1>1. Countable(D) /\ Countable(V) /\ Len(b) = Cardinality(D)
  BY DEF Made, Listed
<1>2. Countable(E) /\ Extends(D, E) /\ Number(E, x) = Len(b)
  BY <1>1, NewThing DEF Extends
<1>3. Listed(S, E, c, "block")
  BY <1>1, ListedMore DEF Made
<1>5. N \subseteq M /\ [n |-> Number(E, x), src |-> Thing(S, x).src] \in M
  BY <1>2
<1>6. \A y \in E : y \in D \/ y = x
  OBVIOUS
<1> HIDE DEF E, c, M
<1>7. \A f \in ToSet(o) : Ours(S, E, V, f)
  BY <1>2, OursStays, ExtendsItself DEF Made
<1>8. Placed(S, E, V, o, M)
  <2>1. /\ \A y \in D : y[1] # 2 =>
              \E f \in ToSet(o) : f.at = Place("block", Number(E, y))
        /\ \A y \in D : y[1] = 2 =>
              [n |-> Number(E, y), src |-> Thing(S, y).src] \in M
        /\ \A y \in V : \E f \in ToSet(o) : f.at = Place("virtiofs", Number(V, y))
    <3>1. Placed(S, D, V, o, N) /\ Extends(D, E) /\ N \subseteq M
      BY <1>2, <1>5 DEF Made
    <3> QED
      BY <3>1 DEF Placed, Extends
  <2>2. \A y \in E : y[1] # 2 =>
          \E f \in ToSet(o) : f.at = Place("block", Number(E, y))
    BY <1>6, <2>1
  <2>3. \A y \in E : y[1] = 2 => [n |-> Number(E, y), src |-> Thing(S, y).src] \in M
    <3>1. TAKE y \in E
    <3>2. CASE y \in D
      BY <2>1, <3>2
    <3>3. CASE y = x
      BY <1>5, <3>3
    <3> QED
      BY <1>6, <3>2, <3>3
  <2> QED
    BY <2>1, <2>2, <2>3 DEF Placed
<1>9. Made(S, E, V, c, v, o, M)
  BY <1>1, <1>2, <1>3, <1>7, <1>8 DEF Made
<1> QED
  BY <1>9 DEF E, c, M

-----------------------------------------------------------------------------
(* Which things there are                                                  *)

\* set_up_blockdevs goes by the options as from_spec translated them.
Options ==
  IF Engine = "kubernetes"
  THEN [i \in DOMAIN conf.blockdevs |-> Translated(conf.blockdevs[i])]
  ELSE conf.blockdevs

Source == <<conf.mounts, conf.devices, Options>>

\* Of the mounts, those of this fate; the block devices among the first n
\* devices; the first n options.
Chosen(f, fate) == {<<1, i>> : i \in {j \in 1..Len(f) : f[j] = fate}}
Devices(S, n) == {<<2, i>> : i \in {j \in 1..n : S[2][j].typ = "b"}}
Opts(n) == {<<3, i>> : i \in 1..n}

Attached(S, f, m, n) == Chosen(f, "disk") \cup Devices(S, m) \cup Opts(n)
Shared(f) == Chosen(f, "shared")

\* Nothing is attached or shared at first.
LEMMA NoneAttached ==
  ASSUME NEW S
  PROVE  Attached(S, <<>>, 0, 0) = {} /\ Shared(<<>>) = {}
BY EmptyIsSeq DEF Attached, Shared, Chosen, Devices, Opts

\* The fate of one more mount adds it to those of that fate, as the last.
LEMMA ChosenMore ==
  ASSUME NEW f, IsSeq(f), NEW new, NEW fate
  PROVE  /\ Chosen(Append(f, new), fate) =
              IF new = fate THEN Chosen(f, fate) \cup {<<1, Len(f) + 1>>}
              ELSE Chosen(f, fate)
         /\ \A x \in Chosen(f, fate) : Before(x, <<1, Len(f) + 1>>)
<1>1. /\ Len(f) \in Nat /\ Len(Append(f, new)) = Len(f) + 1
      /\ Append(f, new)[Len(f) + 1] = new
      /\ \A k \in 1..Len(f) : Append(f, new)[k] = f[k]
  BY LenIsNat, AppendLonger, AppendAt
<1>2. \A k : k \in 1..(Len(f) + 1) <=> k \in 1..Len(f) \/ k = Len(f) + 1
  BY <1>1
<1>3. \A x \in Chosen(f, fate) : Before(x, <<1, Len(f) + 1>>)
  BY <1>1 DEF Chosen, Before
<1>4. CASE new = fate
  BY <1>1, <1>2, <1>3, <1>4 DEF Chosen
<1>5. CASE new # fate
  BY <1>1, <1>2, <1>3, <1>5 DEF Chosen
<1> QED
  BY <1>4, <1>5

\* One more device comes last, after all mounts, and counts if a block device.
LEMMA DevicesMore ==
  ASSUME NEW S, NEW n \in Nat, NEW f, IsSeq(f)
  PROVE  /\ Attached(S, f, n + 1, 0) =
              IF S[2][n + 1].typ = "b"
              THEN Attached(S, f, n, 0) \cup {<<2, n + 1>>}
              ELSE Attached(S, f, n, 0)
         /\ \A x \in Attached(S, f, n, 0) : Before(x, <<2, n + 1>>)
<1>1. \A k : k \in 1..(n + 1) <=> k \in 1..n \/ k = n + 1
  OBVIOUS
<1>2. Opts(0) = {}
  BY DEF Opts
<1>3. \A x \in Attached(S, f, n, 0) : Before(x, <<2, n + 1>>)
  BY <1>2 DEF Attached, Chosen, Devices, Before
<1>4. Devices(S, n + 1) = IF S[2][n + 1].typ = "b"
                          THEN Devices(S, n) \cup {<<2, n + 1>>}
                          ELSE Devices(S, n)
  BY <1>1 DEF Devices
<1> QED
  BY <1>2, <1>3, <1>4 DEF Attached

\* One more option comes last of all.
LEMMA OptionsMore ==
  ASSUME NEW S, NEW m \in Nat, NEW n \in Nat, NEW f, IsSeq(f)
  PROVE  /\ Attached(S, f, m, n + 1) = Attached(S, f, m, n) \cup {<<3, n + 1>>}
         /\ \A x \in Attached(S, f, m, n) : Before(x, <<3, n + 1>>)
<1>1. \A k : k \in 1..(n + 1) <=> k \in 1..n \/ k = n + 1
  OBVIOUS
<1>2. Opts(n + 1) = Opts(n) \cup {<<3, n + 1>>}
  BY <1>1 DEF Opts
<1>3. \A x \in Attached(S, f, m, n) : Before(x, <<3, n + 1>>)
  BY DEF Attached, Chosen, Devices, Opts, Before
<1> QED
  BY <1>2, <1>3 DEF Attached

\* Before the devices, the mounts that become disks are all that is attached.
LEMMA MountsOnly ==
  ASSUME NEW S, NEW f
  PROVE  Attached(S, f, 0, 0) = Chosen(f, "disk")
BY DEF Attached, Devices, Opts

\* The first name of a path, and of what it begins with.
LEMMA FirstOf ==
  ASSUME NEW T, NEW p \in Seq(T), Len(p) >= 1
  PROVE  /\ SubSeq(p, 1, 1) \in [{1} -> T]
         /\ SubSeq(p, 1, 1)[1] = p[1]
<1>1. \A i \in 1..1 : p[i] \in T
  BY ElementOfSeq
<1>2. /\ SubSeq(p, 1, 1) \in Seq(T) /\ Len(SubSeq(p, 1, 1)) = 1
      /\ SubSeq(p, 1, 1)[1] = p[1]
  BY <1>1, SubSeqProperties
<1>3. SubSeq(p, 1, 1) \in [1..1 -> T]
  BY <1>2, LenProperties
<1>4. 1..1 = {1}
  OBVIOUS
<1> QED
  BY <1>2, <1>3, <1>4

\* A path begins with a name if that is its first one.
LEMMA OneNamePrefix ==
  ASSUME NEW T, NEW p \in Seq(T), NEW q \in Seq(T), Len(p) = 1, Len(q) >= 1
  PROVE  IsPrefix(p, q) <=> q[1] = p[1]
<1>1. /\ SubSeq(p, 1, 1) \in [{1} -> T] /\ SubSeq(p, 1, 1)[1] = p[1]
      /\ SubSeq(q, 1, 1) \in [{1} -> T] /\ SubSeq(q, 1, 1)[1] = q[1]
  <2>1. Len(p) >= 1
    OBVIOUS
  <2> QED
    BY <2>1, FirstOf
<1>2. \A f, g \in [{1} -> T] : f = g <=> f[1] = g[1]
  OBVIOUS
<1> QED
  BY <1>1, <1>2 DEF IsPrefix

\* What create keeps is no place of crun-vm.
LEMMA KeptForeign ==
  ASSUME conf \in Configs, NEW m \in ToSet(conf.mounts), NEW kind,
         Fate(m, kind) = "kept"
  PROVE  Foreign(m.dst)
<1> SUFFICES ASSUME NEW s, NEW n, m.dst = Place(s, n) PROVE FALSE
  BY DEF Foreign
<1>1. m.dst = <<"crun-vm", s, n>> /\ m.dst[1] = "crun-vm"
  BY DEF Place
<1> DEFINE T == {"crun-vm", "dev", s, n}
<1>2. m.dst \in Seq(T) /\ Len(m.dst) >= 1
  BY <1>1
<1>3. \A name \in {"crun-vm", "dev"} :
        <<name>> \in Seq(T) /\ Len(<<name>>) = 1 /\ <<name>>[1] = name
  OBVIOUS
<1> HIDE DEF T
<1>4. \A name \in {"crun-vm", "dev"} :
        IsPrefix(<<name>>, m.dst) <=> m.dst[1] = name
  BY <1>2, <1>3, OneNamePrefix
<1>5. CASE Ignored(m)
  <2>1. m.dst[1] \in {"etc", "proc", "run", "sys"}
    BY <1>5 DEF Ignored, TargetsToIgnore, EtcHosts
  <2> QED
    BY <1>1, <2>1
<1>6. CASE UnderDev(m.dst)
  BY <1>1, <1>4, <1>6 DEF UnderDev
<1>7. CASE m.typ \notin {"bind", "tmpfs"}
  BY <1>1, <1>4, <1>7, PlacesAssumption
<1> QED
  BY <1>5, <1>6, <1>7 DEF Fate
-----------------------------------------------------------------------------
(* The invariant                                                           *)

Creating == pc \in {"mounts", "devices", "blockdevs", "config", "crun",
                    "created", "up"}

\* How many devices and options create has been through.
DevicesDone ==
  IF pc = "mounts" THEN 0
  ELSE IF pc = "devices" THEN next - 1 ELSE Len(conf.devices)
OptionsDone ==
  IF pc \in {"mounts", "devices"} THEN 0
  ELSE IF pc = "blockdevs" THEN next - 1 ELSE Len(Options)

InRange ==
  /\ pc = "devices" => next - 1 <= Len(conf.devices)
  /\ pc = "blockdevs" => next - 1 <= Len(Options)

\* What a create has been through is made, and nothing else.
MadeSoFar ==
  Creating =>
    /\ blockdevs = Options /\ InRange
    /\ Made(Source, Attached(Source, found, DevicesDone, OptionsDone),
            Shared(found), block, virtiofs, oci, nodes)

\* The disks' serials and the tags are the numbers of things, and the guest is
\* told the same numbers.
Tells(S, D, V, dom, bt) ==
  /\ bt.symlinks \cup bt.rules =
       {[dst |-> Thing(S, x).dst, serial |-> Number(D, x)] : x \in D}
  /\ \A d \in ToSet(dom.disks) : d.serial # -1 =>
       \E x \in D : /\ d.serial = Number(D, x) /\ d.ro = ReadOnly(S, x)
                    /\ d.at = Place("block", Number(D, x))
  /\ \A x \in D : \E d \in ToSet(dom.disks) :
       /\ d.serial = Number(D, x) /\ d.ro = ReadOnly(S, x)
       /\ d.at = Place("block", Number(D, x))
  /\ bt.fstab = {[dst |-> Thing(S, x).dst, tag |-> Number(V, x)] : x \in V}
  /\ ToSet(dom.filesystems) =
       {[tag |-> Number(V, x), at |-> Place("virtiofs", Number(V, x))] : x \in V}

AllAttached(f) == Attached(Source, f, Len(conf.devices), Len(Options))

\* domain.xml and the first-boot configuration number what the first create
\* found when it wrote them.
Told ==
  /\ pc = "up" => domain # Absent
  /\ domain # Absent =>
       /\ IsSeq(told)
       /\ Tells(Source, AllAttached(told), Shared(told), domain, boot)

-----------------------------------------------------------------------------
(* Its inductive step                                                      *)

\* The options depend on the configuration alone.
LEMMA SameSource ==
  ASSUME conf' = conf
  PROVE  Options' = Options /\ Source' = Source
BY DEF Options, Source, Engine, HostsRead, Translated, PathInHost, MountsOver,
       MountsAt

\* What the invariant of the lists says of their lengths.
LEMMA ListFacts ==
  ASSUME IInv
  PROVE  /\ conf \in Configs /\ next \in Nat \ {0}
         /\ IsSeq(found) /\ Len(found) \in Nat
         /\ IsSeq(block) /\ Len(block) \in Nat
         /\ IsSeq(blockdevs) /\ Len(blockdevs) \in Nat
         /\ IsSeq(conf.mounts) /\ Len(conf.mounts) \in Nat
         /\ IsSeq(conf.devices) /\ Len(conf.devices) \in Nat
         /\ pc = "mounts" => Len(found) = next - 1
BY LenIsNat, ConfigLists DEF IInv, Plain, Sizes, Lists, InMounts

\* Where create is makes no difference, nor do new nodes.
LEMMA MadeFrame ==
  ASSUME MadeSoFar, Creating,
         UNCHANGED <<conf, blockdevs, found, virtiofs, block, oci>>,
         nodes \subseteq nodes', InRange',
         DevicesDone' = DevicesDone, OptionsDone' = OptionsDone
  PROVE  MadeSoFar'
<1>1. Made(Source, Attached(Source, found, DevicesDone, OptionsDone),
           Shared(found), block, virtiofs, oci, nodes')
  BY MadeWithNodes DEF MadeSoFar
<1>2. Source' = Source /\ Options' = Options
  BY SameSource
<1>3. Made(Source, Attached(Source, found, DevicesDone, OptionsDone),
           Shared(found), block, virtiofs, oci, nodes)'
  BY <1>1, <1>2
<1> QED
  BY <1>2, <1>3 DEF MadeSoFar

\* A mount is looked at: what was made before, and which thing comes next.
LEMMA MountFacts ==
  ASSUME IInv, MadeSoFar, NextMount
  PROVE  LET x == <<1, next>>
             D == Chosen(found, "disk")
             V == Shared(found)
         IN /\ Made(Source, D, V, block, virtiofs, oci, nodes)
            /\ x \in Things /\ x[1] = 1 /\ Thing(Source, x) = TheMount
            /\ ReadOnly(Source, x) = TheMount.ro
            /\ TheMount \in ToSet(conf.mounts)
            /\ \A y \in D : Before(y, x)
            /\ \A y \in V : Before(y, x)
            /\ Chosen(found', "disk") = IF TheFate = "disk" THEN D \cup {x} ELSE D
            /\ Shared(found') = IF TheFate = "shared" THEN V \cup {x} ELSE V
<1>1. /\ pc = "mounts" /\ next <= Len(conf.mounts)
      /\ found' = Append(found, TheFate)
  BY DEF NextMount, Step
<1>2. Made(Source, Chosen(found, "disk"), Shared(found), block, virtiofs, oci,
           nodes)
  BY <1>1, MountsOnly DEF MadeSoFar, Creating, DevicesDone, OptionsDone
<1>3. IsSeq(found) /\ next = Len(found) + 1 /\ next \in Nat \ {0}
  BY <1>1, ListFacts
<1>4. next \in 1..Len(conf.mounts) /\ DOMAIN conf.mounts = 1..Len(conf.mounts)
  BY <1>1, <1>3, ListFacts DEF IsSeq
<1>5. TheMount \in ToSet(conf.mounts)
  BY <1>4 DEF TheMount, ToSet
<1>6. Thing(Source, <<1, next>>) = TheMount
  BY DEF Thing, Source, TheMount
<1>7. ReadOnly(Source, <<1, next>>) = TheMount.ro
  BY <1>6 DEF ReadOnly
<1>8. <<1, next>> \in Things /\ <<1, next>>[1] = 1
  BY <1>3 DEF Things
<1>9. \A fate : /\ \A y \in Chosen(found, fate) : Before(y, <<1, next>>)
                /\ Chosen(found', fate) =
                     IF TheFate = fate THEN Chosen(found, fate) \cup {<<1, next>>}
                     ELSE Chosen(found, fate)
  <2>1. \A fate : /\ \A y \in Chosen(found, fate) : Before(y, <<1, Len(found) + 1>>)
                  /\ Chosen(Append(found, TheFate), fate) =
                       IF TheFate = fate
                       THEN Chosen(found, fate) \cup {<<1, Len(found) + 1>>}
                       ELSE Chosen(found, fate)
    <3>1. IsSeq(found)
      BY <1>3
    <3> QED
      BY <3>1, ChosenMore
  <2> QED
    BY <1>1, <1>3, <2>1
<1> QED
  BY <1>2, <1>5, <1>6, <1>7, <1>8, <1>9 DEF Shared

\* After a mount, what is to be made is what was chosen of the mounts.
LEMMA MountMade ==
  ASSUME IInv, MadeSoFar, NextMount,
         Made(Source, Chosen(found', "disk"), Shared(found'), block', virtiofs',
              oci', nodes')
  PROVE  MadeSoFar'
<1>1. /\ pc = "mounts" /\ pc' = "mounts" /\ conf' = conf
      /\ blockdevs' = blockdevs
  BY DEF NextMount, Step
<1>2. Source' = Source /\ Options' = Options
  BY <1>1, SameSource
<1>3. blockdevs = Options
  BY <1>1 DEF MadeSoFar, Creating
<1>4. Made(Source, Attached(Source, found, 0, 0), Shared(found), block, virtiofs,
           oci, nodes)'
  BY <1>2, MountsOnly
<1>5. DevicesDone' = 0 /\ OptionsDone' = 0 /\ InRange'
  BY <1>1 DEF DevicesDone, OptionsDone, InRange
<1> QED
  BY <1>1, <1>2, <1>3, <1>4, <1>5 DEF MadeSoFar
\* A device is looked at: what was made before, and which thing comes next.
LEMMA DeviceFacts ==
  ASSUME IInv, MadeSoFar, NextDevice
  PROVE  LET x == <<2, next>>
             D == Attached(Source, found, next - 1, 0)
         IN /\ Made(Source, D, Shared(found), block, virtiofs, oci, nodes)
            /\ x \in Things /\ x[1] = 2 /\ Thing(Source, x) = TheDevice
            /\ ReadOnly(Source, x) = TheDevice.ro
            /\ \A y \in D : Before(y, x)
            /\ Attached(Source, found, next, 0) =
                 IF TheDevice.typ = "b" THEN D \cup {x} ELSE D
<1>1. pc = "devices" /\ next \in Nat \ {0} /\ IsSeq(found)
  BY ListFacts DEF NextDevice, Step
<1>2. Made(Source, Attached(Source, found, next - 1, 0), Shared(found), block,
           virtiofs, oci, nodes)
  BY <1>1 DEF MadeSoFar, Creating, DevicesDone, OptionsDone
<1>3. <<2, next>> \in Things /\ <<2, next>>[1] = 2
  BY <1>1 DEF Things
<1>4. Source[2] = conf.devices
  BY DEF Source
<1>5. Thing(Source, <<2, next>>) = TheDevice
  BY <1>4 DEF Thing, TheDevice
<1>6. ReadOnly(Source, <<2, next>>) = TheDevice.ro
  BY <1>5 DEF ReadOnly
<1>7. next - 1 \in Nat /\ (next - 1) + 1 = next
  BY <1>1
<1>8. /\ Attached(Source, found, (next - 1) + 1, 0) =
           IF Source[2][(next - 1) + 1].typ = "b"
           THEN Attached(Source, found, next - 1, 0) \cup {<<2, (next - 1) + 1>>}
           ELSE Attached(Source, found, next - 1, 0)
      /\ \A y \in Attached(Source, found, next - 1, 0) :
           Before(y, <<2, (next - 1) + 1>>)
  BY <1>1, <1>7, DevicesMore
<1> QED
  BY <1>2, <1>3, <1>4, <1>5, <1>6, <1>7, <1>8 DEF TheDevice

\* After a device, what is to be made has one device more to consider.
LEMMA DeviceMade ==
  ASSUME IInv, MadeSoFar, NextDevice,
         Made(Source, Attached(Source, found, next, 0), Shared(found), block',
              virtiofs', oci', nodes')
  PROVE  MadeSoFar'
<1>1. /\ pc = "devices" /\ pc' = "devices" /\ conf' = conf /\ found' = found
      /\ blockdevs' = blockdevs /\ next' = next + 1
      /\ next <= Len(conf.devices)
  BY DEF NextDevice, Step
<1>2. Source' = Source /\ Options' = Options
  BY <1>1, SameSource
<1>3. blockdevs = Options
  BY <1>1 DEF MadeSoFar, Creating
<1>4. DevicesDone' = next /\ OptionsDone' = 0 /\ InRange'
  BY <1>1, ListFacts DEF DevicesDone, OptionsDone, InRange
<1>5. Made(Source, Attached(Source, found, DevicesDone, OptionsDone),
           Shared(found), block, virtiofs, oci, nodes)'
  BY <1>1, <1>2, <1>4
<1> QED
  BY <1>1, <1>2, <1>3, <1>4, <1>5 DEF MadeSoFar

\* No step of create makes anything but what it is at.
LEMMA MadeStep ==
  ASSUME IInv, MadeSoFar, [Next]_vars
  PROVE  MadeSoFar'
<1>1. CASE CallCreate
  <2>1. /\ conf' = conf /\ pc' = "mounts" /\ found' = <<>> /\ block' = <<>>
        /\ virtiofs' = <<>> /\ oci' = <<>> /\ blockdevs' = Options
    BY <1>1 DEF CallCreate, Step, Options
  <2>2. Source' = Source /\ Options' = Options
    BY <2>1, SameSource
  <2>3. DevicesDone' = 0 /\ OptionsDone' = 0 /\ InRange'
    BY <2>1 DEF DevicesDone, OptionsDone, InRange
  <2>4. Made(Source, Attached(Source, found, 0, 0), Shared(found), block,
             virtiofs, oci, nodes)'
    BY <2>1, NoneAttached, MadeNothing
  <2> QED
    BY <2>1, <2>2, <2>3, <2>4 DEF MadeSoFar
<1>2. CASE CreateRefused
  BY <1>2 DEF CreateRefused, Fail, MadeSoFar, Creating
<1>3. CASE KeepMount
  <2> DEFINE e == [src |-> TheMount.src, at |-> TheMount.dst, ro |-> TheMount.ro]
  <2>1. /\ NextMount /\ TheFate = "kept" /\ oci' = Append(oci, e)
        /\ block' = block /\ virtiofs' = virtiofs /\ nodes' = nodes
    BY <1>3 DEF KeepMount, NextMount, Redirected, mounts, keptVars
  <2>2. /\ Made(Source, Chosen(found, "disk"), Shared(found), block, virtiofs,
                oci, nodes)
        /\ Chosen(found', "disk") = Chosen(found, "disk")
        /\ Shared(found') = Shared(found)
    BY <2>1, MountFacts
  <2>3. Foreign(e.at)
    BY <2>1, MountFacts, ListFacts, KeptForeign DEF TheFate
  <2>4. Made(Source, Chosen(found, "disk"), Shared(found), block, virtiofs,
             Append(oci, e), nodes)
    BY <2>2, <2>3, MadeKept
  <2> QED
    BY <2>1, <2>2, <2>4, MountMade
<1>4. CASE ShareDirectory
  <2> DEFINE x == <<1, next>>
             at == Place("virtiofs", Len(virtiofs))
             e == [src |-> TheMount.src, at |-> at, ro |-> TheMount.ro]
  <2>1. /\ NextMount /\ TheFate = "shared" /\ oci' = Append(oci, e)
        /\ virtiofs' = Append(virtiofs, [at |-> at, dst |-> TheMount.dst])
        /\ block' = block /\ nodes' = nodes
    BY <1>4 DEF ShareDirectory, NextMount, Redirected, keptVars
  <2>2. /\ Made(Source, Chosen(found, "disk"), Shared(found), block, virtiofs,
                oci, nodes)
        /\ x \in Things /\ Thing(Source, x) = TheMount
        /\ \A y \in Shared(found) : Before(y, x)
        /\ Chosen(found', "disk") = Chosen(found, "disk")
        /\ Shared(found') = Shared(found) \cup {x}
    BY <2>1, MountFacts
  <2>3. /\ e.at = Place("virtiofs", Len(virtiofs))
        /\ e.src = Thing(Source, x).src /\ e.ro = Thing(Source, x).ro
    BY <2>2
  <2> HIDE DEF x, e
  <2>4. Made(Source, Chosen(found, "disk"), Shared(found) \cup {x}, block,
             Append(virtiofs, [at |-> Place("virtiofs", Len(virtiofs)),
                               dst |-> Thing(Source, x).dst]),
             Append(oci, e), nodes)
    BY <2>2, <2>3, MadeShared
  <2> QED
    BY <2>1, <2>2, <2>4, MountMade
<1>5. CASE AttachMount
  <2> DEFINE x == <<1, next>>
             e == [src |-> TheMount.src, at |-> Place("block", Len(block)),
                   ro |-> TheMount.ro]
             d == [at |-> Place("block", Len(block)), dst |-> TheMount.dst,
                   ro |-> TheMount.ro, file |-> Kind(TheMount.src) = "file"]
  <2>1. /\ NextMount /\ TheFate = "disk" /\ oci' = Append(oci, e)
        /\ block' = Append(block, d) /\ virtiofs' = virtiofs /\ nodes' = nodes
    BY <1>5 DEF AttachMount, NextMount, Redirected, Attach, keptVars
  <2>2. /\ Made(Source, Chosen(found, "disk"), Shared(found), block, virtiofs,
                oci, nodes)
        /\ x \in Things /\ x[1] = 1 /\ Thing(Source, x) = TheMount
        /\ ReadOnly(Source, x) = TheMount.ro
        /\ \A y \in Chosen(found, "disk") : Before(y, x)
        /\ Chosen(found', "disk") = Chosen(found, "disk") \cup {x}
        /\ Shared(found') = Shared(found)
    BY <2>1, MountFacts
  <2>3. /\ e.at = Place("block", Len(block)) /\ e.src = Thing(Source, x).src
        /\ x[1] # 2
        /\ Fits(Source, "block", x, Len(block), d)
    BY <2>2 DEF Fits
  <2> HIDE DEF x, e, d
  <2>4. Made(Source, Chosen(found, "disk") \cup {x}, Shared(found),
             Append(block, d), virtiofs, Append(oci, e), nodes)
    BY <2>2, <2>3, MadeDisk
  <2> QED
    BY <2>1, <2>2, <2>4, MountMade
<1>6. CASE TmpfsInGuest
  <2>1. /\ NextMount /\ TheFate = "tmpfs"
        /\ UNCHANGED <<block, virtiofs, oci, nodes>>
    BY <1>6 DEF TmpfsInGuest, NextMount, keptVars
  <2>2. /\ Made(Source, Chosen(found, "disk"), Shared(found), block, virtiofs,
                oci, nodes)
        /\ Chosen(found', "disk") = Chosen(found, "disk")
        /\ Shared(found') = Shared(found)
    BY <2>1, MountFacts
  <2> QED
    BY <2>1, <2>2, MountMade
<1>7. CASE RefuseMount
  BY <1>7 DEF RefuseMount, Fail, MadeSoFar, Creating
<1>8. CASE ToDevices
  <2>1. /\ pc = "mounts" /\ pc' = "devices" /\ next' = 1
        /\ UNCHANGED <<conf, blockdevs, found, virtiofs, block, oci, nodes>>
    BY <1>8 DEF ToDevices, Step, keptVars, mounts
  <2>2. DevicesDone' = DevicesDone /\ OptionsDone' = OptionsDone /\ InRange'
    BY <2>1, ListFacts DEF DevicesDone, OptionsDone, InRange
  <2> QED
    BY <2>1, <2>2, MadeFrame DEF Creating
<1>9. CASE SkipCharDevice
  <2>1. /\ NextDevice /\ TheDevice.typ = "c"
        /\ UNCHANGED <<virtiofs, block, oci, nodes>>
    BY <1>9 DEF SkipCharDevice, NextDevice, mounts
  <2>2. Made(Source, Attached(Source, found, next, 0), Shared(found), block,
             virtiofs, oci, nodes)
    BY <2>1, DeviceFacts
  <2> QED
    BY <2>1, <2>2, DeviceMade
<1>10. CASE AttachDevice
  <2> DEFINE x == <<2, next>>
             D == Attached(Source, found, next - 1, 0)
             d == [at |-> Place("block", Len(block)), dst |-> TheDevice.dst,
                   ro |-> TheDevice.ro, file |-> FALSE]
  <2>1. /\ NextDevice /\ TheDevice.typ = "b"
        /\ nodes' = nodes \cup {[n |-> Len(block), src |-> TheDevice.src]}
        /\ block' = Append(block, d)
        /\ UNCHANGED <<virtiofs, oci>>
    BY <1>10 DEF AttachDevice, NextDevice, Attach
  <2>2. /\ Made(Source, D, Shared(found), block, virtiofs, oci, nodes)
        /\ x \in Things /\ x[1] = 2 /\ Thing(Source, x) = TheDevice
        /\ ReadOnly(Source, x) = TheDevice.ro
        /\ \A y \in D : Before(y, x)
        /\ Attached(Source, found, next, 0) = D \cup {x}
    BY <2>1, DeviceFacts
  <2>3. Fits(Source, "block", x, Len(block), d)
    BY <2>2 DEF Fits
  <2> HIDE DEF x, D, d
  <2>4. Made(Source, D \cup {x}, Shared(found), Append(block, d), virtiofs, oci,
             nodes \cup {[n |-> Len(block), src |-> Thing(Source, x).src]})
    BY <2>2, <2>3, MadeDevice
  <2> QED
    BY <2>1, <2>2, <2>4, DeviceMade
<1>11. CASE MknodFails
  BY <1>11 DEF MknodFails, Fail, MadeSoFar, Creating
<1>12. CASE ToBlockdevs
  <2>1. /\ pc = "devices" /\ pc' = "blockdevs" /\ next' = 1
        /\ next > Len(conf.devices)
        /\ UNCHANGED <<conf, blockdevs, found, virtiofs, block, oci, nodes>>
    BY <1>12 DEF ToBlockdevs, Step, keptVars, mounts
  <2>2. /\ next - 1 <= Len(conf.devices) /\ IsSeq(Options)
        /\ blockdevs = Options
    BY <2>1, ListFacts DEF MadeSoFar, Creating, InRange
  <2>3. Options' = Options /\ Len(Options) \in Nat
    BY <2>1, <2>2, SameSource, LenIsNat
  <2>4. DevicesDone' = DevicesDone /\ OptionsDone' = OptionsDone /\ InRange'
    BY <2>1, <2>2, <2>3, ListFacts DEF DevicesDone, OptionsDone, InRange
  <2> QED
    BY <2>1, <2>4, MadeFrame DEF Creating
<1>13. CASE AttachBlockdev
  <2> DEFINE x == <<3, next>>
             m == Len(conf.devices)
             D == Attached(Source, found, m, next - 1)
             e == [src |-> blockdevs[next].src, at |-> Place("block", Len(block)),
                   ro |-> FALSE]
             d == [at |-> Place("block", Len(block)), dst |-> blockdevs[next].dst,
                   ro |-> FALSE, file |-> Kind(blockdevs[next].src) = "file"]
  <2>1. /\ pc = "blockdevs" /\ pc' = "blockdevs" /\ next <= Len(blockdevs)
        /\ next' = next + 1 /\ oci' = Append(oci, e)
        /\ block' = Append(block, d)
        /\ UNCHANGED <<conf, blockdevs, found, virtiofs, nodes>>
    BY <1>13 DEF AttachBlockdev, Step, Attach, keptVars
  <2>2. /\ blockdevs = Options
        /\ Made(Source, D, Shared(found), block, virtiofs, oci, nodes)
    BY <2>1 DEF MadeSoFar, Creating, DevicesDone, OptionsDone
  <2>3. next \in Nat \ {0} /\ m \in Nat /\ IsSeq(found)
    BY ListFacts
  <2>4. x \in Things /\ x[1] = 3 /\ x[1] # 2
    BY <2>3 DEF Things
  <2>5. Thing(Source, x) = blockdevs[next] /\ ReadOnly(Source, x) = FALSE
    BY <2>2 DEF Thing, Source, ReadOnly
  <2>6. /\ e.at = Place("block", Len(block)) /\ e.src = Thing(Source, x).src
        /\ Fits(Source, "block", x, Len(block), d)
    BY <2>5 DEF Fits
  <2>7. /\ Attached(Source, found, m, next) = D \cup {x}
        /\ \A y \in D : Before(y, x)
    <3>1. next - 1 \in Nat /\ (next - 1) + 1 = next
      BY <2>3
    <3>2. /\ Attached(Source, found, m, (next - 1) + 1) =
               D \cup {<<3, (next - 1) + 1>>}
          /\ \A y \in D : Before(y, <<3, (next - 1) + 1>>)
      BY <2>3, <3>1, OptionsMore
    <3> QED
      BY <3>1, <3>2
  <2> HIDE DEF x, e, d, D
  <2>8. Made(Source, D \cup {x}, Shared(found), Append(block, d), virtiofs,
             Append(oci, e), nodes)
    BY <2>2, <2>4, <2>6, <2>7, MadeDisk
  <2>9. Source' = Source /\ Options' = Options
    BY <2>1, SameSource
  <2>10. DevicesDone' = m /\ OptionsDone' = next /\ InRange'
    BY <2>1, <2>2, <2>3, <2>9 DEF DevicesDone, OptionsDone, InRange
  <2>11. Made(Source, Attached(Source, found, DevicesDone, OptionsDone),
              Shared(found), block, virtiofs, oci, nodes)'
    BY <2>1, <2>5, <2>7, <2>8, <2>9, <2>10
  <2> QED
    BY <2>1, <2>2, <2>9, <2>10, <2>11 DEF MadeSoFar
<1>14. CASE RefuseBlockdev
  BY <1>14 DEF RefuseBlockdev, Fail, MadeSoFar, Creating
<1>15. CASE ToConfig
  <2>1. /\ pc = "blockdevs" /\ pc' = "config" /\ next > Len(blockdevs)
        /\ UNCHANGED <<conf, blockdevs, found, virtiofs, block, oci, nodes>>
    BY <1>15 DEF ToConfig, Step, keptVars, mounts
  <2>2. next - 1 <= Len(Options) /\ blockdevs = Options
    BY <2>1 DEF MadeSoFar, Creating, InRange
  <2>3. Options' = Options /\ Len(Options) \in Nat
    BY <2>1, <2>2, SameSource, ListFacts
  <2>4. DevicesDone' = DevicesDone /\ OptionsDone' = OptionsDone /\ InRange'
    BY <2>1, <2>2, <2>3, ListFacts DEF DevicesDone, OptionsDone, InRange
  <2> QED
    BY <2>1, <2>4, MadeFrame DEF Creating
<1>16. CASE WriteConfig
  <2>1. /\ pc = "config" /\ pc' = "crun" /\ nodes \subseteq nodes'
        /\ UNCHANGED <<conf, blockdevs, found, virtiofs, block, oci>>
    BY <1>16 DEF WriteConfig, Step, mounts
  <2>2. Options' = Options
    BY <2>1, SameSource
  <2>3. DevicesDone' = DevicesDone /\ OptionsDone' = OptionsDone /\ InRange'
    BY <2>1, <2>2 DEF DevicesDone, OptionsDone, InRange
  <2> QED
    BY <2>1, <2>3, MadeFrame DEF Creating
<1>17. CASE KeepConfig
  <2>1. /\ pc = "config" /\ pc' = "crun" /\ nodes \subseteq nodes'
        /\ UNCHANGED <<conf, blockdevs, found, virtiofs, block, oci>>
    BY <1>17 DEF KeepConfig, Step, keptVars, mounts
  <2>2. Options' = Options
    BY <2>1, SameSource
  <2>3. DevicesDone' = DevicesDone /\ OptionsDone' = OptionsDone /\ InRange'
    BY <2>1, <2>2 DEF DevicesDone, OptionsDone, InRange
  <2> QED
    BY <2>1, <2>3, MadeFrame DEF Creating
<1>18. CASE CrunCreate
  <2>1. /\ pc = "crun" /\ pc' = "created" /\ nodes \subseteq nodes'
        /\ UNCHANGED <<conf, blockdevs, found, virtiofs, block, oci>>
    BY <1>18 DEF CrunCreate, Step, mounts
  <2>2. Options' = Options
    BY <2>1, SameSource
  <2>3. DevicesDone' = DevicesDone /\ OptionsDone' = OptionsDone /\ InRange'
    BY <2>1, <2>2 DEF DevicesDone, OptionsDone, InRange
  <2> QED
    BY <2>1, <2>3, MadeFrame DEF Creating
<1>19. CASE CrunFails
  BY <1>19 DEF CrunFails, Fail, MadeSoFar, Creating
<1>20. CASE BootVm
  <2>1. /\ pc = "created" /\ pc' = "up" /\ nodes \subseteq nodes'
        /\ UNCHANGED <<conf, blockdevs, found, virtiofs, block, oci>>
    BY <1>20 DEF BootVm, Step, keptVars, mounts
  <2>2. Options' = Options
    BY <2>1, SameSource
  <2>3. DevicesDone' = DevicesDone /\ OptionsDone' = OptionsDone /\ InRange'
    BY <2>1, <2>2 DEF DevicesDone, OptionsDone, InRange
  <2> QED
    BY <2>1, <2>3, MadeFrame DEF Creating
<1>21. CASE BootFails
  BY <1>21 DEF BootFails, Fail, MadeSoFar, Creating
<1>22. CASE Again
  BY <1>22 DEF Again, MadeSoFar, Creating
<1>23. CASE UNCHANGED <<conf, createVars, keptVars>>
  <2>1. UNCHANGED <<conf, pc, next, blockdevs, found, virtiofs, block, oci, nodes>>
    BY <1>23 DEF createVars, keptVars, mounts
  <2>2. Options' = Options
    BY <2>1, SameSource
  <2>3. CASE Creating
    <3>1. DevicesDone' = DevicesDone /\ OptionsDone' = OptionsDone /\ InRange'
      BY <2>1, <2>2, <2>3 DEF DevicesDone, OptionsDone, InRange, MadeSoFar
    <3> QED
      BY <2>1, <2>3, <3>1, MadeFrame
  <2>4. CASE ~Creating
    BY <2>1, <2>4 DEF MadeSoFar, Creating
  <2> QED
    BY <2>3, <2>4
<1> QED
  BY <1>1, <1>2, <1>3, <1>4, <1>5, <1>6, <1>7, <1>8, <1>9, <1>10, <1>11,
     <1>12, <1>13, <1>14, <1>15, <1>16, <1>17, <1>18, <1>19, <1>20, <1>21,
     <1>22, <1>23 DEF Next, HostChanges, vars
\* A list has each thing at its number, and at each place a thing.
LEMMA ListedAs ==
  ASSUME NEW S, NEW D, NEW list, NEW sort, Countable(D), Listed(S, D, list, sort)
  PROVE  /\ Len(list) \in Nat /\ DOMAIN list = 1..Len(list)
         /\ \A k \in 1..Len(list) : \E x \in D :
              Number(D, x) = k - 1 /\ Fits(S, sort, x, k - 1, list[k])
         /\ \A x \in D : /\ Number(D, x) \in Nat
                         /\ Number(D, x) + 1 \in 1..Len(list)
                         /\ Fits(S, sort, x, Number(D, x), list[Number(D, x) + 1])
<1>1. Len(list) \in Nat /\ DOMAIN list = 1..Len(list) /\ Len(list) = Cardinality(D)
  BY DEF Listed, IsSeq
<1>2. \A x \in D : /\ Number(D, x) \in Nat
                   /\ Number(D, x) + 1 \in 1..Len(list)
  BY <1>1, NumberBelow
<1>3. \A x \in D : Fits(S, sort, x, Number(D, x), list[Number(D, x) + 1])
  BY DEF Listed
<1>4. ASSUME NEW k \in 1..Len(list)
      PROVE  \E x \in D : /\ Number(D, x) = k - 1
                          /\ Fits(S, sort, x, k - 1, list[k])
  <2>1. PICK x \in D : k = Number(D, x) + 1
    BY DEF Listed
  <2>2. Number(D, x) = k - 1
    BY <1>2, <2>1
  <2> QED
    BY <1>3, <2>1, <2>2
<1> QED
  BY <1>1, <1>2, <1>3, <1>4

\* Symlinks and rules together lead to all disks.
LEMMA LinksTogether ==
  Links(FALSE) \cup Links(TRUE) =
    {[dst |-> block[i].dst, serial |-> i - 1] : i \in DOMAIN block}
<1>1. \A i \in DOMAIN block : InDev(block[i].dst) = FALSE \/ InDev(block[i].dst) = TRUE
  BY DEF InDev
<1> QED
  BY <1>1 DEF Links

\* What is written tells the guest and libvirt the same numbers.
LEMMA WhatIsWritten ==
  ASSUME NEW S, NEW D, NEW V, NEW o, NEW N,
         Made(S, D, V, block, virtiofs, o, N)
  PROVE  Tells(S, D, V, Domain, FirstBoot)
<1>1. /\ Countable(D) /\ Listed(S, D, block, "block")
      /\ Countable(V) /\ Listed(S, V, virtiofs, "virtiofs")
  BY DEF Made
<1>2. /\ Len(block) \in Nat /\ DOMAIN block = 1..Len(block)
      /\ \A k \in 1..Len(block) : \E x \in D :
           Number(D, x) = k - 1 /\ Fits(S, "block", x, k - 1, block[k])
      /\ \A x \in D : /\ Number(D, x) \in Nat
                      /\ Number(D, x) + 1 \in 1..Len(block)
                      /\ Fits(S, "block", x, Number(D, x),
                              block[Number(D, x) + 1])
  BY <1>1, ListedAs
<1>3. /\ Len(virtiofs) \in Nat /\ DOMAIN virtiofs = 1..Len(virtiofs)
      /\ \A k \in 1..Len(virtiofs) : \E x \in V :
           /\ Number(V, x) = k - 1
           /\ Fits(S, "virtiofs", x, k - 1, virtiofs[k])
      /\ \A x \in V : /\ Number(V, x) \in Nat
                      /\ Number(V, x) + 1 \in 1..Len(virtiofs)
                      /\ Fits(S, "virtiofs", x, Number(V, x),
                              virtiofs[Number(V, x) + 1])
  BY <1>1, ListedAs
<1>4. /\ \A x, n, e : Fits(S, "block", x, n, e) =>
           /\ e.at = Place("block", n) /\ e.dst = Thing(S, x).dst
           /\ e.ro = ReadOnly(S, x)
      /\ \A x, n, e : Fits(S, "virtiofs", x, n, e) =>
           e.at = Place("virtiofs", n) /\ e.dst = Thing(S, x).dst
  BY DEF Fits
<1>5. FirstBoot.symlinks \cup FirstBoot.rules =
        {[dst |-> Thing(S, x).dst, serial |-> Number(D, x)] : x \in D}
  <2> DEFINE A(i) == [dst |-> block[i].dst, serial |-> i - 1]
             B(x) == [dst |-> Thing(S, x).dst, serial |-> Number(D, x)]
  <2>1. FirstBoot.symlinks \cup FirstBoot.rules = {A(i) : i \in 1..Len(block)}
    BY <1>2, LinksTogether DEF FirstBoot
  <2>2. \A i \in 1..Len(block) : \E x \in D : A(i) = B(x)
    BY <1>2, <1>4
  <2>3. \A x \in D : \E i \in 1..Len(block) : A(i) = B(x)
    <3>1. TAKE x \in D
    <3>2. /\ Number(D, x) + 1 \in 1..Len(block)
          /\ block[Number(D, x) + 1].dst = Thing(S, x).dst
          /\ (Number(D, x) + 1) - 1 = Number(D, x)
      BY <1>2, <1>4
    <3> QED
      BY <3>2
  <2> HIDE DEF A, B
  <2>4. FirstBoot.symlinks \cup FirstBoot.rules = {B(x) : x \in D}
    BY <2>1, <2>2, <2>3
  <2> QED
    BY <2>4 DEF B
<1>6. /\ Domain.disks = Disks
      /\ DOMAIN Disks = 1..(Len(block) + 2)
      /\ \A i \in 1..(Len(block) + 2) :
           /\ i \in 2..(Len(block) + 1) =>
                /\ Disks[i].serial = i - 2 /\ Disks[i].ro = block[i - 1].ro
                /\ Disks[i].at = block[i - 1].at
           /\ i \notin 2..(Len(block) + 1) => Disks[i].serial = -1
  BY DEF Domain, Disks
<1>7. ASSUME NEW d \in ToSet(Domain.disks), d.serial # -1
      PROVE  \E x \in D : /\ d.serial = Number(D, x) /\ d.ro = ReadOnly(S, x)
                          /\ d.at = Place("block", Number(D, x))
  <2>1. PICK i \in 1..(Len(block) + 2) : d = Disks[i]
    BY <1>6 DEF ToSet
  <2>2. i \in 2..(Len(block) + 1)
    BY <1>6, <1>7, <2>1
  <2>3. i - 1 \in 1..Len(block) /\ (i - 1) - 1 = i - 2
    BY <1>2, <2>2
  <2>4. PICK x \in D : /\ Number(D, x) = i - 2
                       /\ Fits(S, "block", x, i - 2, block[i - 1])
    BY <1>2, <2>3
  <2> QED
    BY <1>4, <1>6, <2>1, <2>2, <2>4
<1>8. ASSUME NEW x \in D
      PROVE  \E d \in ToSet(Domain.disks) :
               /\ d.serial = Number(D, x) /\ d.ro = ReadOnly(S, x)
               /\ d.at = Place("block", Number(D, x))
  <2> DEFINE i == Number(D, x) + 2
  <2>1. /\ i \in 2..(Len(block) + 1) /\ i \in 1..(Len(block) + 2)
        /\ i - 1 = Number(D, x) + 1 /\ i - 2 = Number(D, x)
    BY <1>2
  <2>2. Fits(S, "block", x, Number(D, x), block[i - 1])
    BY <1>2, <2>1
  <2> HIDE DEF i
  <2>3. Disks[i] \in ToSet(Domain.disks)
    BY <1>6, <2>1 DEF ToSet
  <2>4. /\ Disks[i].serial = Number(D, x) /\ Disks[i].ro = ReadOnly(S, x)
        /\ Disks[i].at = Place("block", Number(D, x))
    BY <1>4, <1>6, <2>1, <2>2
  <2> QED
    BY <2>3, <2>4
<1>9. FirstBoot.fstab =
        {[dst |-> Thing(S, x).dst, tag |-> Number(V, x)] : x \in V}
  <2> DEFINE A(i) == [dst |-> virtiofs[i].dst, tag |-> i - 1]
             B(x) == [dst |-> Thing(S, x).dst, tag |-> Number(V, x)]
  <2>1. FirstBoot.fstab = {A(i) : i \in 1..Len(virtiofs)}
    BY <1>3 DEF FirstBoot
  <2>2. \A i \in 1..Len(virtiofs) : \E x \in V : A(i) = B(x)
    BY <1>3, <1>4
  <2>3. \A x \in V : \E i \in 1..Len(virtiofs) : A(i) = B(x)
    <3>1. TAKE x \in V
    <3>2. /\ Number(V, x) + 1 \in 1..Len(virtiofs)
          /\ virtiofs[Number(V, x) + 1].dst = Thing(S, x).dst
          /\ (Number(V, x) + 1) - 1 = Number(V, x)
      BY <1>3, <1>4
    <3> QED
      BY <3>2
  <2> HIDE DEF A, B
  <2>4. FirstBoot.fstab = {B(x) : x \in V}
    BY <2>1, <2>2, <2>3
  <2> QED
    BY <2>4 DEF B
<1>10. ToSet(Domain.filesystems) =
        {[tag |-> Number(V, x), at |-> Place("virtiofs", Number(V, x))] : x \in V}
  <2> DEFINE A(i) == [tag |-> i - 1, at |-> virtiofs[i].at]
             B(x) == [tag |-> Number(V, x), at |-> Place("virtiofs", Number(V, x))]
  <2>1. ToSet(Domain.filesystems) = {A(i) : i \in 1..Len(virtiofs)}
    BY <1>3 DEF Domain, ToSet
  <2>2. \A i \in 1..Len(virtiofs) : \E x \in V : A(i) = B(x)
    BY <1>3, <1>4
  <2>3. \A x \in V : \E i \in 1..Len(virtiofs) : A(i) = B(x)
    <3>1. TAKE x \in V
    <3>2. /\ Number(V, x) + 1 \in 1..Len(virtiofs)
          /\ virtiofs[Number(V, x) + 1].at = Place("virtiofs", Number(V, x))
          /\ (Number(V, x) + 1) - 1 = Number(V, x)
      BY <1>3, <1>4
    <3> QED
      BY <3>2
  <2> HIDE DEF A, B
  <2>4. ToSet(Domain.filesystems) = {B(x) : x \in V}
    BY <2>1, <2>2, <2>3
  <2> QED
    BY <2>4 DEF B
<1> QED
  BY <1>5, <1>7, <1>8, <1>9, <1>10 DEF Tells
\* Only the first create writes, and the VM boots only from what is written.
LEMMA OnlyFirstWrites ==
  ASSUME [Next]_vars, ~WriteConfig
  PROVE  /\ UNCHANGED <<conf, domain, boot, told>>
         /\ pc' = "up" => pc = "up" \/ domain # Absent
<1>1. CASE CallCreate
  BY <1>1 DEF CallCreate, Step, keptVars
<1>2. CASE CreateRefused
  BY <1>2 DEF CreateRefused, Fail, keptVars, mounts
<1>3. CASE KeepMount
  BY <1>3 DEF KeepMount, NextMount, Step, keptVars, mounts, Redirected
<1>4. CASE ShareDirectory
  BY <1>4 DEF ShareDirectory, NextMount, Step, keptVars, Redirected
<1>5. CASE AttachMount
  BY <1>5 DEF AttachMount, NextMount, Step, keptVars, Attach
<1>6. CASE TmpfsInGuest
  BY <1>6 DEF TmpfsInGuest, NextMount, Step, keptVars
<1>7. CASE RefuseMount
  BY <1>7 DEF RefuseMount, Fail, keptVars, mounts
<1>8. CASE ToDevices
  BY <1>8 DEF ToDevices, Step, keptVars, mounts
<1>9. CASE SkipCharDevice
  BY <1>9 DEF SkipCharDevice, NextDevice, Step, mounts
<1>10. CASE AttachDevice
  BY <1>10 DEF AttachDevice, NextDevice, Step, Attach
<1>11. CASE MknodFails
  BY <1>11 DEF MknodFails, Fail, keptVars, mounts
<1>12. CASE ToBlockdevs
  BY <1>12 DEF ToBlockdevs, Step, keptVars, mounts
<1>13. CASE AttachBlockdev
  BY <1>13 DEF AttachBlockdev, Step, keptVars, Attach
<1>14. CASE RefuseBlockdev
  BY <1>14 DEF RefuseBlockdev, Fail, keptVars, mounts
<1>15. CASE ToConfig
  BY <1>15 DEF ToConfig, Step, keptVars, mounts
<1>16. CASE KeepConfig
  BY <1>16 DEF KeepConfig, Step, keptVars, mounts
<1>17. CASE CrunCreate
  BY <1>17 DEF CrunCreate, Step, mounts
<1>18. CASE CrunFails
  BY <1>18 DEF CrunFails, Fail, keptVars, mounts
<1>19. CASE BootVm
  BY <1>19 DEF BootVm, Bootable, Step, keptVars, mounts
<1>20. CASE BootFails
  BY <1>20 DEF BootFails, Fail, keptVars, mounts
<1>21. CASE Again
  BY <1>21 DEF Again, keptVars, mounts
<1>22. CASE HostChanges
  BY <1>22 DEF HostChanges, createVars, keptVars, mounts
<1>23. CASE UNCHANGED vars
  BY <1>23 DEF vars, createVars, keptVars, mounts
<1> QED
  BY <1>1, <1>2, <1>3, <1>4, <1>5, <1>6, <1>7, <1>8, <1>9, <1>10, <1>11,
     <1>12, <1>13, <1>14, <1>15, <1>16, <1>17, <1>18, <1>19, <1>20, <1>21,
     <1>22, <1>23 DEF Next

\* What is written stays as true as it was.
LEMMA ToldStep ==
  ASSUME IInv, MadeSoFar, Told, [Next]_vars
  PROVE  Told'
<1>1. CASE WriteConfig
  <2>1. /\ pc = "config" /\ pc' = "crun" /\ conf' = conf
        /\ domain' = Domain /\ boot' = FirstBoot /\ told' = found
    BY <1>1 DEF WriteConfig, Step
  <2>2. Made(Source, AllAttached(found), Shared(found), block, virtiofs, oci, nodes)
    BY <2>1 DEF MadeSoFar, Creating, DevicesDone, OptionsDone, AllAttached
  <2>3. Tells(Source, AllAttached(found), Shared(found), Domain, FirstBoot)
    BY <2>2, WhatIsWritten
  <2>4. Source' = Source /\ Options' = Options
    BY <2>1, SameSource
  <2>5. Tells(Source, AllAttached(told), Shared(told), domain, boot)'
    BY <2>1, <2>3, <2>4 DEF AllAttached
  <2>6. IsSeq(told')
    BY <2>1, ListFacts
  <2> QED
    BY <2>1, <2>5, <2>6 DEF Told
<1>2. CASE ~WriteConfig
  <2>1. /\ UNCHANGED <<conf, domain, boot, told>>
        /\ pc' = "up" => pc = "up" \/ domain # Absent
    BY <1>2, OnlyFirstWrites
  <2>2. Source' = Source /\ Options' = Options
    BY <2>1, SameSource
  <2>3. AllAttached(told)' = AllAttached(told) /\ Shared(told)' = Shared(told)
    BY <2>1, <2>2 DEF AllAttached
  <2> QED
    BY <2>1, <2>2, <2>3 DEF Told
<1> QED
  BY <1>1, <1>2

\* Every reachable state satisfies this invariant, too.
THEOREM ViewInvariance == Spec => [](MadeSoFar /\ Told)
<1>1. Init => MadeSoFar /\ Told
  BY DEF Init, MadeSoFar, Creating, Told
<1>2. IInv /\ MadeSoFar /\ Told /\ [Next]_vars => (MadeSoFar /\ Told)'
  BY MadeStep, ToldStep
<1> QED
  BY <1>1, <1>2, Invariance, PTL DEF Spec

-----------------------------------------------------------------------------
(* What the guest sees                                                     *)

\* At the place of a disk there is its thing, and nothing else.
LEMMA AtDisk ==
  ASSUME NEW D, NEW V, NEW x \in D, OneEach,
         Made(Source, D, V, block, virtiofs, oci, nodes)
  PROVE  LET at == ThingsAt(Place("block", Number(D, x)))
         IN /\ at # {}
            /\ \A t \in at : t.src = Thing(Source, x).src
<1> DEFINE p == Place("block", Number(D, x))
           mounted == {o \in ToSet(oci) : o.at = p}
           there == {f \in nodes : Place("block", f.n) = p}
<1>1. ThingsAt(p) = IF mounted # {} THEN mounted ELSE there
  BY DEF ThingsAt
<1>2. ASSUME NEW o \in mounted
      PROVE  x[1] # 2 /\ o.src = Thing(Source, x).src
  <2>1. Ours(Source, D, V, o) /\ o.at = p
    BY DEF Made
  <2>2. ~Foreign(o.at)
    BY <2>1 DEF Foreign
  <2>3. \A y \in V : o.at # Place("virtiofs", Number(V, y))
    BY <2>1, PlacesDiffer
  <2>4. PICK y \in D : /\ y[1] # 2 /\ o.src = Thing(Source, y).src
                       /\ o.at = Place("block", Number(D, y))
    BY <2>1, <2>2, <2>3 DEF Ours
  <2>5. Number(D, y) = Number(D, x)
    BY <2>1, <2>4, PlacesDiffer
  <2>6. y = x
    BY <2>5, NumbersDistinct DEF Made
  <2> QED
    BY <2>4, <2>6
<1>3. CASE x[1] # 2
  <2>1. mounted # {}
    BY <1>3 DEF Made, Placed
  <2> QED
    BY <1>1, <1>2, <2>1
<1>4. CASE x[1] = 2
  <2> DEFINE f == [n |-> Number(D, x), src |-> Thing(Source, x).src]
  <2>1. mounted = {}
    BY <1>2, <1>4
  <2>2. f \in nodes /\ f.n = Number(D, x) /\ f.src = Thing(Source, x).src
    BY <1>4 DEF Made, Placed
  <2> HIDE DEF f
  <2>3. f \in there
    BY <2>2
  <2>4. \A g \in there : g = f
    <3>1. TAKE g \in there
    <3>2. g.n = f.n
      BY <2>2, PlacesDiffer
    <3> QED
      BY <2>2, <3>2 DEF OneEach
  <2> QED
    BY <1>1, <2>1, <2>2, <2>3, <2>4
<1> QED
  BY <1>3, <1>4

\* At the place of a directory it is mounted, and nothing else.
LEMMA AtShare ==
  ASSUME NEW D, NEW V, NEW x \in V,
         Made(Source, D, V, block, virtiofs, oci, nodes)
  PROVE  LET at == ThingsAt(Place("virtiofs", Number(V, x)))
         IN /\ at # {}
            /\ \A t \in at : t.src = Thing(Source, x).src /\ t.ro = Thing(Source, x).ro
<1> DEFINE p == Place("virtiofs", Number(V, x))
           mounted == {o \in ToSet(oci) : o.at = p}
<1>1. mounted # {}
  BY DEF Made, Placed
<1>2. ThingsAt(p) = mounted
  BY <1>1 DEF ThingsAt
<1>3. ASSUME NEW o \in mounted
      PROVE  o.src = Thing(Source, x).src /\ o.ro = Thing(Source, x).ro
  <2>1. Ours(Source, D, V, o) /\ o.at = p
    BY DEF Made
  <2>2. ~Foreign(o.at)
    BY <2>1 DEF Foreign
  <2>3. \A y \in D : o.at # Place("block", Number(D, y))
    BY <2>1, PlacesDiffer
  <2>4. PICK y \in V : /\ o.src = Thing(Source, y).src /\ o.ro = Thing(Source, y).ro
                       /\ o.at = Place("virtiofs", Number(V, y))
    BY <2>1, <2>2, <2>3 DEF Ours
  <2>5. Number(V, y) = Number(V, x)
    BY <2>1, <2>4, PlacesDiffer
  <2>6. y = x
    BY <2>5, NumbersDistinct DEF Made
  <2> QED
    BY <2>4, <2>6
<1> QED
  BY <1>1, <1>2, <1>3
\* A thing as the guest is to find it.
Seen(x) == <<Thing(Source, x).dst, Thing(Source, x).src, ReadOnly(Source, x)>>

\* The guest finds a disk if it was told of it by the number it has now.
LEMMA DiskSeen ==
  ASSUME NEW D, NEW V, NEW E, NEW W, OneEach,
         Made(Source, D, V, block, virtiofs, oci, nodes),
         Tells(Source, E, W, domain, boot),
         NEW x \in D, x \in E, Number(E, x) = Number(D, x)
  PROVE  Seen(x) \in DisksSeen
<1> DEFINE links == {p \in (boot.symlinks \cup boot.rules) \X ToSet(domain.disks) :
                       p[1].serial = p[2].serial}
           At(p) == {<<p[1].dst, t.src, p[2].ro>> : t \in ThingsAt(p[2].at)}
           l == [dst |-> Thing(Source, x).dst, serial |-> Number(D, x)]
<1>1. DisksSeen = UNION {At(p) : p \in links}
  BY DEF DisksSeen
<1>2. PICK d \in ToSet(domain.disks) :
        /\ d.serial = Number(D, x) /\ d.ro = ReadOnly(Source, x)
        /\ d.at = Place("block", Number(D, x))
  BY DEF Tells
<1>3. l \in boot.symlinks \cup boot.rules
  BY DEF Tells
<1>4. l.dst = Thing(Source, x).dst /\ l.serial = d.serial
  BY <1>2
<1> HIDE DEF l
<1>5. <<l, d>> \in links
  BY <1>2, <1>3, <1>4
<1>6. PICK t \in ThingsAt(d.at) : t.src = Thing(Source, x).src
  <2>1. LET at == ThingsAt(Place("block", Number(D, x)))
        IN at # {} /\ \A t \in at : t.src = Thing(Source, x).src
    BY AtDisk
  <2> QED
    BY <1>2, <2>1
<1>7. Seen(x) = <<l.dst, t.src, d.ro>>
  BY <1>2, <1>4, <1>6 DEF Seen
<1>8. Seen(x) \in At(<<l, d>>)
  BY <1>6, <1>7
<1> HIDE DEF links, At
<1> QED
  BY <1>1, <1>5, <1>8

\* The guest finds the disks of the configuration.
LEMMA DisksRight ==
  ASSUME NEW D, NEW V, OneEach, Countable(D),
         Made(Source, D, V, block, virtiofs, oci, nodes),
         Tells(Source, D, V, domain, boot)
  PROVE  DisksSeen = {Seen(x) : x \in D}
<1> DEFINE links == {p \in (boot.symlinks \cup boot.rules) \X ToSet(domain.disks) :
                       p[1].serial = p[2].serial}
           At(p) == {<<p[1].dst, t.src, p[2].ro>> : t \in ThingsAt(p[2].at)}
<1>1. DisksSeen = UNION {At(p) : p \in links}
  BY DEF DisksSeen
<1>2. /\ boot.symlinks \cup boot.rules =
           {[dst |-> Thing(Source, x).dst, serial |-> Number(D, x)] : x \in D}
      /\ \A d \in ToSet(domain.disks) : d.serial # -1 =>
           \E x \in D : /\ d.serial = Number(D, x) /\ d.ro = ReadOnly(Source, x)
                        /\ d.at = Place("block", Number(D, x))
      /\ \A x \in D : \E d \in ToSet(domain.disks) :
           /\ d.serial = Number(D, x) /\ d.ro = ReadOnly(Source, x)
           /\ d.at = Place("block", Number(D, x))
  BY DEF Tells
<1>3. ASSUME NEW x \in D
      PROVE  /\ ThingsAt(Place("block", Number(D, x))) # {}
             /\ \A t \in ThingsAt(Place("block", Number(D, x))) :
                  t.src = Thing(Source, x).src
  BY AtDisk
<1>4. ASSUME NEW p \in links
      PROVE  \E x \in D : At(p) = {Seen(x)}
  <2>1. /\ p[1] \in boot.symlinks \cup boot.rules
        /\ p[2] \in ToSet(domain.disks) /\ p[1].serial = p[2].serial
    OBVIOUS
  <2>2. PICK x \in D : p[1] = [dst |-> Thing(Source, x).dst, serial |-> Number(D, x)]
    BY <1>2, <2>1
  <2>3. p[1].dst = Thing(Source, x).dst /\ p[2].serial = Number(D, x)
    BY <2>1, <2>2
  <2>4. Number(D, x) \in Nat
    BY NumberBelow
  <2>5. PICK y \in D : /\ p[2].serial = Number(D, y) /\ p[2].ro = ReadOnly(Source, y)
                       /\ p[2].at = Place("block", Number(D, y))
    BY <1>2, <2>1, <2>3, <2>4
  <2>6. y = x
    BY <2>3, <2>5, NumbersDistinct
  <2>7. \A t \in ThingsAt(p[2].at) : <<p[1].dst, t.src, p[2].ro>> = Seen(x)
    BY <1>3, <2>3, <2>5, <2>6 DEF Seen
  <2>8. ThingsAt(p[2].at) # {}
    BY <1>3, <2>5
  <2> QED
    BY <2>7, <2>8
<1>5. ASSUME NEW x \in D PROVE Seen(x) \in DisksSeen
  BY DiskSeen
<1> HIDE DEF links, At
<1> QED
  BY <1>1, <1>4, <1>5

\* The guest finds a directory if it was told of it by the number it has now.
LEMMA DirectorySeen ==
  ASSUME NEW D, NEW V, NEW E, NEW W,
         Made(Source, D, V, block, virtiofs, oci, nodes),
         Tells(Source, E, W, domain, boot),
         NEW x \in V, x[1] = 1, x \in W, Number(W, x) = Number(V, x)
  PROVE  Seen(x) \in DirectoriesSeen
<1> DEFINE shares == {p \in boot.fstab \X ToSet(domain.filesystems) :
                        p[1].tag = p[2].tag}
           At(p) == {<<p[1].dst, t.src, t.ro>> : t \in ThingsAt(p[2].at)}
           l == [dst |-> Thing(Source, x).dst, tag |-> Number(V, x)]
           f == [tag |-> Number(V, x), at |-> Place("virtiofs", Number(V, x))]
<1>1. DirectoriesSeen = UNION {At(p) : p \in shares}
  BY DEF DirectoriesSeen
<1>2. l \in boot.fstab /\ f \in ToSet(domain.filesystems)
  BY DEF Tells
<1>3. /\ l.dst = Thing(Source, x).dst /\ l.tag = f.tag
      /\ f.at = Place("virtiofs", Number(V, x))
  OBVIOUS
<1> HIDE DEF l, f
<1>4. <<l, f>> \in shares
  BY <1>2, <1>3
<1>5. ReadOnly(Source, x) = Thing(Source, x).ro
  BY DEF ReadOnly
<1>6. PICK t \in ThingsAt(f.at) :
        t.src = Thing(Source, x).src /\ t.ro = Thing(Source, x).ro
  <2>1. LET at == ThingsAt(Place("virtiofs", Number(V, x)))
        IN /\ at # {}
           /\ \A t \in at :
                t.src = Thing(Source, x).src /\ t.ro = Thing(Source, x).ro
    BY AtShare
  <2> QED
    BY <1>3, <2>1
<1>7. Seen(x) = <<l.dst, t.src, t.ro>>
  BY <1>3, <1>5, <1>6 DEF Seen
<1>8. Seen(x) \in At(<<l, f>>)
  BY <1>6, <1>7
<1> HIDE DEF shares, At
<1> QED
  BY <1>1, <1>4, <1>8

\* The guest finds the directories of the configuration.
LEMMA DirectoriesRight ==
  ASSUME NEW D, NEW V, Countable(V), \A x \in V : x[1] = 1,
         Made(Source, D, V, block, virtiofs, oci, nodes),
         Tells(Source, D, V, domain, boot)
  PROVE  DirectoriesSeen = {Seen(x) : x \in V}
<1> DEFINE shares == {p \in boot.fstab \X ToSet(domain.filesystems) :
                        p[1].tag = p[2].tag}
           At(p) == {<<p[1].dst, t.src, t.ro>> : t \in ThingsAt(p[2].at)}
<1>1. DirectoriesSeen = UNION {At(p) : p \in shares}
  BY DEF DirectoriesSeen
<1>2. /\ boot.fstab =
           {[dst |-> Thing(Source, x).dst, tag |-> Number(V, x)] : x \in V}
      /\ ToSet(domain.filesystems) =
           {[tag |-> Number(V, x), at |-> Place("virtiofs", Number(V, x))] : x \in V}
  BY DEF Tells
<1>3. ASSUME NEW x \in V
      PROVE  /\ ThingsAt(Place("virtiofs", Number(V, x))) # {}
             /\ \A t \in ThingsAt(Place("virtiofs", Number(V, x))) :
                  t.src = Thing(Source, x).src /\ t.ro = ReadOnly(Source, x)
  <2>1. x[1] = 1
    OBVIOUS
  <2>2. ReadOnly(Source, x) = Thing(Source, x).ro
    BY <2>1 DEF ReadOnly
  <2> QED
    BY <2>2, AtShare
<1>4. ASSUME NEW p \in shares
      PROVE  \E x \in V : At(p) = {Seen(x)}
  <2>1. /\ p[1] \in boot.fstab
        /\ p[2] \in ToSet(domain.filesystems) /\ p[1].tag = p[2].tag
    OBVIOUS
  <2>2. PICK x \in V : p[1] = [dst |-> Thing(Source, x).dst, tag |-> Number(V, x)]
    BY <1>2, <2>1
  <2>3. PICK y \in V :
          p[2] = [tag |-> Number(V, y), at |-> Place("virtiofs", Number(V, y))]
    BY <1>2, <2>1
  <2>4. /\ p[1].dst = Thing(Source, x).dst /\ Number(V, x) = Number(V, y)
        /\ p[2].at = Place("virtiofs", Number(V, y))
    BY <2>1, <2>2, <2>3
  <2>5. y = x
    BY <2>4, NumbersDistinct
  <2>6. \A t \in ThingsAt(p[2].at) : <<p[1].dst, t.src, t.ro>> = Seen(x)
    BY <1>3, <2>4, <2>5 DEF Seen
  <2>7. ThingsAt(p[2].at) # {}
    BY <1>3, <2>4
  <2> QED
    BY <2>6, <2>7
<1>5. ASSUME NEW x \in V PROVE Seen(x) \in DirectoriesSeen
  <2>1. x[1] = 1
    OBVIOUS
  <2> QED
    BY <2>1, DirectorySeen
<1> HIDE DEF shares, At
<1> QED
  BY <1>1, <1>4, <1>5

\* The mounts and devices that are to appear in the guest, and the options as
\* from_spec returns them.
Given ==
  {<<conf.mounts[i].dst, conf.mounts[i].src, conf.mounts[i].ro>> :
     i \in {j \in DOMAIN found : found[j] \in {"shared", "disk"}}}
  \cup {<<d.dst, d.src, d.ro>> :
          d \in {e \in ToSet(conf.devices) : e.typ = "b"}}
  \cup {<<b.dst, b.src, FALSE>> : b \in ToSet(blockdevs)}

\* What create is given are the things.
LEMMA GivenThings ==
  ASSUME IInv, blockdevs = Options
  PROVE  Given = {Seen(x) : x \in AllAttached(found)}
                     \cup {Seen(x) : x \in Shared(found)}
<1>0. /\ Source[1] = conf.mounts /\ Source[2] = conf.devices
      /\ Source[3] = Options
  BY DEF Source
<1>1. /\ DOMAIN found = 1..Len(found)
      /\ DOMAIN conf.devices = 1..Len(conf.devices)
      /\ DOMAIN Options = 1..Len(Options)
  BY ListFacts DEF IsSeq
<1>2. /\ \A i : Seen(<<1, i>>) = <<conf.mounts[i].dst, conf.mounts[i].src, conf.mounts[i].ro>>
      /\ \A i : Seen(<<2, i>>) = <<conf.devices[i].dst, conf.devices[i].src, conf.devices[i].ro>>
      /\ \A i : Seen(<<3, i>>) = <<Options[i].dst, Options[i].src, FALSE>>
  BY <1>0 DEF Seen, Thing, ReadOnly
<1>3. {<<conf.mounts[i].dst, conf.mounts[i].src, conf.mounts[i].ro>> :
         i \in {j \in DOMAIN found : found[j] \in {"shared", "disk"}}} =
        {Seen(x) : x \in Chosen(found, "disk")}
          \cup {Seen(x) : x \in Shared(found)}
  <2> DEFINE I == {j \in 1..Len(found) : found[j] \in {"shared", "disk"}}
             F(i) == Seen(<<1, i>>)
  <2>1. {<<conf.mounts[i].dst, conf.mounts[i].src, conf.mounts[i].ro>> : i \in I} =
          {F(i) : i \in I}
    BY <1>2
  <2>2. \A fate : {Seen(x) : x \in Chosen(found, fate)} =
                  {F(i) : i \in {j \in 1..Len(found) : found[j] = fate}}
    BY DEF Chosen
  <2> HIDE DEF F
  <2>3. {F(i) : i \in I} =
          {F(i) : i \in {j \in 1..Len(found) : found[j] = "disk"}}
            \cup {F(i) : i \in {j \in 1..Len(found) : found[j] = "shared"}}
    OBVIOUS
  <2> QED
    BY <1>1, <2>1, <2>2, <2>3 DEF Shared
<1>4. {<<d.dst, d.src, d.ro>> : d \in {e \in ToSet(conf.devices) : e.typ = "b"}} =
        {Seen(x) : x \in Devices(Source, Len(conf.devices))}
  <2> DEFINE I == {j \in 1..Len(conf.devices) : conf.devices[j].typ = "b"}
             G(d) == <<d.dst, d.src, d.ro>>
  <2>1. {e \in ToSet(conf.devices) : e.typ = "b"} = {conf.devices[i] : i \in I}
    BY <1>1 DEF ToSet
  <2>2. {Seen(x) : x \in Devices(Source, Len(conf.devices))} =
          {Seen(<<2, i>>) : i \in I}
    BY <1>0 DEF Devices
  <2>3. \A i \in I : Seen(<<2, i>>) = G(conf.devices[i])
    BY <1>2
  <2> HIDE DEF I, G
  <2>4. {G(d) : d \in {conf.devices[i] : i \in I}} = {Seen(<<2, i>>) : i \in I}
    BY <2>3
  <2> QED
    BY <2>1, <2>2, <2>4 DEF G
<1>5. {<<b.dst, b.src, FALSE>> : b \in ToSet(blockdevs)} =
        {Seen(x) : x \in Opts(Len(Options))}
  <2> DEFINE I == 1..Len(Options)
             G(b) == <<b.dst, b.src, FALSE>>
  <2>1. ToSet(blockdevs) = {Options[i] : i \in I}
    BY <1>1 DEF ToSet
  <2>2. {Seen(x) : x \in Opts(Len(Options))} = {Seen(<<3, i>>) : i \in I}
    BY DEF Opts
  <2>3. \A i \in I : Seen(<<3, i>>) = G(Options[i])
    BY <1>2
  <2> HIDE DEF I, G
  <2>4. {G(b) : b \in {Options[i] : i \in I}} = {Seen(<<3, i>>) : i \in I}
    BY <2>3
  <2> QED
    BY <2>1, <2>2, <2>4 DEF G
<1> QED
  BY <1>3, <1>4, <1>5 DEF Given, AllAttached, Attached

\* What create is given is what the user asked for, if the targets are kept.
LEMMA GivenAsAsked ==
  ASSUME IInv, blockdevs = Options, TargetsKept
  PROVE  Given = Exposed
<1> DEFINE kube == Engine = "kubernetes"
           G(b) == <<b.dst, b.src, FALSE>>
           H(b) == <<b.dst, IF kube THEN PathInHost(b.src) ELSE b.src, FALSE>>
<1>1. {G(b) : b \in ToSet(blockdevs)} = {H(b) : b \in ToSet(conf.blockdevs)}
  <2>1. CASE ~kube
    BY <2>1 DEF Options
  <2>2. CASE kube
    <3>1. ToSet(blockdevs) = {Translated(b) : b \in ToSet(conf.blockdevs)}
      BY <2>2 DEF Options, ToSet
    <3>2. ASSUME NEW b \in ToSet(conf.blockdevs) PROVE G(Translated(b)) = H(b)
      <4>1. b \in [src : Paths, dst : Paths]
        <5>1. PICK i \in DOMAIN conf.blockdevs : b = conf.blockdevs[i]
          BY DEF ToSet
        <5>2. conf.blockdevs \in Seq([src : Paths, dst : Paths])
          BY ConfigsAssumption DEF IInv, Plain
        <5>3. i \in 1..Len(conf.blockdevs)
          BY <5>2, LenProperties
        <5>4. conf.blockdevs[i] \in [src : Paths, dst : Paths]
          BY <5>2, <5>3, ElementOfSeq
        <5> QED
          BY <5>1, <5>4
      <4>2. /\ Translated(b).src = PathInHost(b.src)
            /\ Translated(b).dst = PathInHost(b.dst)
        BY <4>1 DEF Translated
      <4>3. PathInHost(b.dst) = b.dst
        BY <2>2 DEF TargetsKept
      <4> QED
        BY <2>2, <4>2, <4>3
    <3> HIDE DEF G, H
    <3> QED
      BY <3>1, <3>2
  <2> QED
    BY <2>1, <2>2
<1> QED
  BY <1>1 DEF Given, Exposed

\* What comes before a mount depends on the mounts before it alone.
LEMMA BeforeMount ==
  ASSUME NEW f, IsSeq(f), NEW i \in 1..Len(f)
  PROVE  /\ {y \in AllAttached(f) : Before(y, <<1, i>>)} =
              {<<1, j>> : j \in {k \in 1..(i - 1) : f[k] = "disk"}}
         /\ {y \in Shared(f) : Before(y, <<1, i>>)} =
              {<<1, j>> : j \in {k \in 1..(i - 1) : f[k] = "shared"}}
<1>1. Len(f) \in Nat
  BY LenIsNat
<1>2. \A fate : {y \in Chosen(f, fate) : Before(y, <<1, i>>)} =
                {<<1, j>> : j \in {k \in 1..(i - 1) : f[k] = fate}}
  <2>1. TAKE fate
  <2>2. \A k : k \in 1..(i - 1) <=> k \in 1..Len(f) /\ k < i
    BY <1>1
  <2>3. \A j : Before(<<1, j>>, <<1, i>>) <=> j < i
    BY DEF Before
  <2> QED
    BY <2>2, <2>3 DEF Chosen
<1>3. \A y : y \in AllAttached(f) /\ Before(y, <<1, i>>) =>
              y \in Chosen(f, "disk")
  BY DEF AllAttached, Attached, Devices, Opts, Before
<1>4. Chosen(f, "disk") \subseteq AllAttached(f)
  BY DEF AllAttached, Attached
<1> QED
  BY <1>2, <1>3, <1>4 DEF Shared

\* A mount has the number it had if all before it are of the sorts they were.
LEMMA NumbersKept ==
  ASSUME IInv, IsSeq(told), NEW i \in DOMAIN found, SameSorts(i)
  PROVE  /\ Number(AllAttached(told), <<1, i>>) = Number(AllAttached(found), <<1, i>>)
         /\ Number(Shared(told), <<1, i>>) = Number(Shared(found), <<1, i>>)
         /\ found[i] = "disk" =>
              <<1, i>> \in AllAttached(found) /\ <<1, i>> \in AllAttached(told)
         /\ found[i] = "shared" =>
              <<1, i>> \in Shared(found) /\ <<1, i>> \in Shared(told)
<1>1. /\ IsSeq(found) /\ Len(found) \in Nat /\ Len(told) \in Nat
      /\ DOMAIN found = 1..Len(found) /\ DOMAIN told = 1..Len(told)
  BY ListFacts, LenIsNat DEF IsSeq
<1>2. i \in 1..Len(found) /\ i \in 1..i
  BY <1>1
<1>3. i \in 1..Len(told) /\ found[i] = told[i]
  BY <1>1, <1>2 DEF SameSorts
<1>4. \A k \in 1..(i - 1) : k \in 1..i
  BY <1>2
<1>5. \A k \in 1..(i - 1) : found[k] = told[k]
  BY <1>4 DEF SameSorts
<1>6. /\ {y \in AllAttached(told) : Before(y, <<1, i>>)} =
           {y \in AllAttached(found) : Before(y, <<1, i>>)}
      /\ {y \in Shared(told) : Before(y, <<1, i>>)} =
           {y \in Shared(found) : Before(y, <<1, i>>)}
  <2>1. /\ {y \in AllAttached(told) : Before(y, <<1, i>>)} =
             {<<1, j>> : j \in {k \in 1..(i - 1) : told[k] = "disk"}}
        /\ {y \in Shared(told) : Before(y, <<1, i>>)} =
             {<<1, j>> : j \in {k \in 1..(i - 1) : told[k] = "shared"}}
    BY <1>3, BeforeMount
  <2>2. /\ {y \in AllAttached(found) : Before(y, <<1, i>>)} =
             {<<1, j>> : j \in {k \in 1..(i - 1) : found[k] = "disk"}}
        /\ {y \in Shared(found) : Before(y, <<1, i>>)} =
             {<<1, j>> : j \in {k \in 1..(i - 1) : found[k] = "shared"}}
    BY <1>1, <1>2, BeforeMount
  <2>3. /\ {k \in 1..(i - 1) : told[k] = "disk"} =
             {k \in 1..(i - 1) : found[k] = "disk"}
        /\ {k \in 1..(i - 1) : told[k] = "shared"} =
             {k \in 1..(i - 1) : found[k] = "shared"}
    BY <1>5
  <2> QED
    BY <2>1, <2>2, <2>3
<1>7. \A fate : found[i] = fate =>
              <<1, i>> \in Chosen(found, fate) /\ <<1, i>> \in Chosen(told, fate)
  BY <1>2, <1>3 DEF Chosen
<1> QED
  BY <1>6, <1>7 DEF Number, Shared, AllAttached, Attached

\* What is made and told when the VM is up.
LEMMA UpFacts ==
  ASSUME IInv, MadeSoFar, Told, pc = "up"
  PROVE  /\ blockdevs = Options /\ IsSeq(told) /\ OneEach
         /\ Made(Source, AllAttached(found), Shared(found), block, virtiofs,
                 oci, nodes)
         /\ Tells(Source, AllAttached(told), Shared(told), domain, boot)
<1>1. /\ blockdevs = Options
      /\ Made(Source, AllAttached(found), Shared(found), block, virtiofs,
              oci, nodes)
  BY DEF MadeSoFar, Creating, DevicesDone, OptionsDone, AllAttached
<1> QED
  BY <1>1 DEF Told, IInv

\* With any configuration, on any host, in any run: if the mounts are of the
\* sorts that the guest was told of, it finds at each path what create was given
\* there and nothing else.
THEOREM GuestSeesGiven ==
  Spec => [](pc = "up" /\ found = told => DisksSeen \cup DirectoriesSeen = Given)
<1>1. ASSUME IInv, MadeSoFar, Told, pc = "up", found = told
      PROVE  DisksSeen \cup DirectoriesSeen = Given
  <2> DEFINE D == AllAttached(found)
             V == Shared(found)
  <2>1. /\ blockdevs = Options /\ OneEach
        /\ Made(Source, D, V, block, virtiofs, oci, nodes)
        /\ Tells(Source, D, V, domain, boot)
    BY <1>1, UpFacts
  <2>2. \A x \in V : x[1] = 1
    BY DEF Shared, Chosen
  <2>3. Given = {Seen(x) : x \in D} \cup {Seen(x) : x \in V}
    BY <1>1, <2>1, GivenThings
  <2> HIDE DEF D, V
  <2>4. Countable(D) /\ Countable(V)
    BY <2>1 DEF Made
  <2>5. DisksSeen = {Seen(x) : x \in D}
    BY <2>1, <2>4, DisksRight
  <2>6. DirectoriesSeen = {Seen(x) : x \in V}
    BY <2>1, <2>2, <2>4, DirectoriesRight
  <2> QED
    BY <2>3, <2>5, <2>6
<1> QED
  BY <1>1, Invariance, ViewInvariance, PTL

\* With any configuration, on any host, in any run: the guest finds each mount at
\* its path, unless it or one before it became of another sort; and if none did
\* and from_spec translated no target, all that the user asked for and no more.
THEOREM GuestSeesCorrect == Spec => []GuestSeesConfig
<1> DEFINE SeesGiven ==
             pc = "up" /\ found = told => DisksSeen \cup DirectoriesSeen = Given
<1>1. ASSUME IInv, MadeSoFar, Told, pc = "up", NEW i \in DOMAIN found,
             found[i] \in {"shared", "disk"}, SameSorts(i)
      PROVE  <<conf.mounts[i].dst, conf.mounts[i].src, conf.mounts[i].ro>>
               \in DisksSeen \cup DirectoriesSeen
  <2> DEFINE x == <<1, i>>
  <2>1. /\ IsSeq(told) /\ OneEach
        /\ Made(Source, AllAttached(found), Shared(found), block, virtiofs,
                oci, nodes)
        /\ Tells(Source, AllAttached(told), Shared(told), domain, boot)
    BY <1>1, UpFacts
  <2>2. /\ Number(AllAttached(told), x) = Number(AllAttached(found), x)
        /\ Number(Shared(told), x) = Number(Shared(found), x)
        /\ found[i] = "disk" =>
             x \in AllAttached(found) /\ x \in AllAttached(told)
        /\ found[i] = "shared" => x \in Shared(found) /\ x \in Shared(told)
    BY <1>1, <2>1, NumbersKept
  <2>3. /\ x[1] = 1
        /\ Seen(x) = <<conf.mounts[i].dst, conf.mounts[i].src, conf.mounts[i].ro>>
    BY DEF Seen, Thing, ReadOnly, Source
  <2> HIDE DEF x
  <2>4. CASE found[i] = "disk"
    <3>1. Seen(x) \in DisksSeen
      BY <2>1, <2>2, <2>4, DiskSeen
    <3> QED
      BY <2>3, <3>1
  <2>5. CASE found[i] = "shared"
    <3>1. Seen(x) \in DirectoriesSeen
      BY <2>1, <2>2, <2>3, <2>5, DirectorySeen
    <3> QED
      BY <2>3, <3>1
  <2> QED
    BY <1>1, <2>4, <2>5
<1>2. ASSUME IInv, MadeSoFar, Told, SeesGiven, pc = "up", found = told, TargetsKept
      PROVE  DisksSeen \cup DirectoriesSeen = Exposed
  BY <1>2, UpFacts, GivenAsAsked
<1>3. IInv /\ MadeSoFar /\ Told /\ SeesGiven => GuestSeesConfig
  BY <1>1, <1>2 DEF GuestSeesConfig
<1> QED
  BY <1>3, Invariance, ViewInvariance, GuestSeesGiven, PTL
===============================================================================
