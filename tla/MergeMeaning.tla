---------------------------- MODULE MergeMeaning -----------------------------
(***************************************************************************)
(* What merging is to mean, told without merging, and that DomainMerge's   *)
(* domain.xml means it once it is done: the elements are trees here, merged*)
(* all the way down. What is said of a tree is said of the places in it,   *)
(* each told by the way there from the root: by which of the children to   *)
(* take at each step, or by what name they have.                           *)
(***************************************************************************)
EXTENDS DomainMerge

CONSTANTS
  Places,     \* ways by positions
  NamePlaces  \* ways by names

ASSUME PlacesAssumption ==
  /\ \A p \in Places : p \in Seq(Nat)
  /\ \A n \in NamePlaces : n \in Seq(STRING)

\* Trees whose children are among them, and that are merged as merge does it:
\* calling itself for the children.
MergedAllTheWay(trees) ==
  /\ Absent \notin trees
  /\ \A e \in trees : /\ e.elements \in Seq(trees)
                       /\ e.attrs = [a \in DOMAIN e.attrs |-> e.attrs[a]]
  /\ \A b, o \in trees : /\ MergeElement(b, o) \in trees
                         /\ MergeChild(b, o) = MergeElement(b, o)

-----------------------------------------------------------------------------
(* Places                                                                  *)

ChildAt(e, i) ==
  IF e # Absent /\ i \in DOMAIN e.elements THEN e.elements[i] ELSE Absent

\* The elements on the way p from e, of which the last may be Absent.
Way(e, p) ==
  LET way[k \in 0..Len(p)] == IF k = 0 THEN e ELSE ChildAt(way[k - 1], p[k])
  IN way

At(e, p) == Way(e, p)[Len(p)]

ChildCalled(e, name) ==
  IF e # Absent /\ HasChild(e, name) THEN Child(e, name) ELSE Absent

\* The elements that one finds who takes the first child of each name.
WayByNames(e, n) ==
  LET way[k \in 0..Len(n)] ==
        IF k = 0 THEN e ELSE ChildCalled(way[k - 1], n[k])
  IN way

Called(e, n) == WayByNames(e, n)[Len(n)]

\* All children of that name that any of those elements has.
AllCalled(os, name) == UNION {{o.elements[i] : i \in Named(o, name)} : o \in os}

\* The elements of os, and below them, that have the same names above them and
\* themselves as those on the way p from e.
Counterparts(os, e, p) ==
  LET of[k \in 0..Len(p)] ==
        IF k = 0 THEN os ELSE AllCalled(of[k - 1], Way(e, p)[k].name)
  IN of

-----------------------------------------------------------------------------
(* Safety                                                                  *)

\* Whether e has all of b.
Extends(e, b) ==
  /\ e # Absent
  /\ e.name = b.name
  /\ DOMAIN b.attrs \subseteq DOMAIN e.attrs
  /\ HasText(b) => HasText(e)

\* Whatever is merged, nothing that crun-vm generated gets lost or changes its
\* place...
BaseKept ==
  pc = "done" =>
    \A p \in Places : At(base, p) # Absent => Extends(At(file, p), At(base, p))

\* Whether all of e comes from one or another of those elements.
ComesFrom(e, os) ==
  /\ \A a \in DOMAIN e.attrs :
       \E o \in os : a \in DOMAIN o.attrs /\ e.attrs[a] = o.attrs[a]
  /\ \E o \in os : e.text = o.text

\* ...and no device gets another source or name because of what a file says of
\* some other element.
OnlySaidChanges ==
  pc = "done" =>
    \A p \in Places :
      At(base, p) # Absent =>
        ComesFrom(At(file, p),
                  {At(base, p)}
                    \cup Counterparts(ToSet(overlays), base, p)[Len(p)])

\* What crun-vm says first, and then the files.
Source(k) == IF k = 0 THEN base ELSE overlays[k]

\* Whether e says what those elements say of which there is one in each of the
\* sources ks, and of two that contradict each other, what the later says.
LastWins(e, found, ks) ==
  /\ e # Absent <=> ks # {}
  /\ \A k \in ks :
       /\ \A a \in DOMAIN found[k].attrs :
            /\ a \in DOMAIN e.attrs
            /\ (\A j \in ks : j > k => a \notin DOMAIN found[j].attrs) =>
                 e.attrs[a] = found[k].attrs[a]
       /\ HasText(found[k]) /\ (\A j \in ks : j > k => ~HasText(found[j])) =>
            e.text = found[k].text
  /\ e # Absent => ComesFrom(e, {found[k] : k \in ks})

\* Who takes the first child of each name finds in domain.xml what crun-vm and
\* the files say, and of two that contradict each other, what the later says.
OverlaysWin ==
  pc = "done" =>
    \A n \in NamePlaces :
      LET found == [k \in 0..Len(overlays) |-> Called(Source(k), n)]
      IN LastWins(Called(file, n), found, {k \in DOMAIN found : found[k] # Absent})

\* No two children of e have one name.
Unambiguous(e) ==
  \A i, j \in DOMAIN e.elements :
    e.elements[i].name = e.elements[j].name => i = j

\* Whether two elements are the same, their children aside.
Same(d, e) ==
  /\ d # Absent
  /\ d.name = e.name
  /\ d.attrs = e.attrs
  /\ d.text = e.text
  /\ Len(d.elements) = Len(e.elements)

\* Giving a file twice, or one that another create merged, is no different from
\* giving it once, wherever names tell its elements apart.
OnceIsEnough ==
  pc = "done" /\ overlays # <<>> =>
    LET o == overlays[Len(overlays)]
    IN \A p \in Places :
         /\ At(file, p) # Absent
         /\ \A k \in 0..Len(p) :
              \A c \in Counterparts({o}, file, p)[k] : Unambiguous(c)
         => Same(At(MergeElement(file, o), p), At(file, p))
=============================================================================
