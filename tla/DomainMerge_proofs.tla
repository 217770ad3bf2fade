-------------------------- MODULE DomainMerge_proofs --------------------------
(***************************************************************************)
(* What DomainMerge promises whatever the files are, and whatever merging  *)
(* makes of the children of the root element (MergeChild): domain.xml is   *)
(* all of it merged or none, and each attribute of its root is the last    *)
(* file's that has it.                                                     *)
(***************************************************************************)
EXTENDS DomainMerge, TLAPS

-----------------------------------------------------------------------------
(* The invariant                                                           *)

\* What is in domain.xml, and what merge_overlays has of it, at each place in
\* set_up_libvirt_domain_xml.
Written ==
  /\ pc \in {"generate", "load"} => next = 1
  /\ pc = "generate" => file = Absent
  /\ pc \in {"load", "merge", "failed"} => file = base
  /\ pc = "merge" => doc.name = "domain"
  /\ pc = "done" => next > Len(overlays) /\ file = doc

\* Whether the k-th of the first n files is the last of them to have attribute
\* a, and whether none of them has it.
LastSays(files, a, k, n) ==
  /\ a \in DOMAIN files[k].attrs
  /\ \A j \in (k + 1)..n : a \notin DOMAIN files[j].attrs
NoneSays(files, a, n) == \A k \in 1..n : a \notin DOMAIN files[k].attrs

\* That root has the attributes of b and of the first n files, each from the
\* last of them that has it.
RootSays(root, b, files, n) ==
  /\ DOMAIN root.attrs =
       DOMAIN b.attrs \cup UNION {DOMAIN files[k].attrs : k \in 1..n}
  /\ \A a \in DOMAIN root.attrs :
       /\ \A k \in 1..n : LastSays(files, a, k, n) =>
                            root.attrs[a] = files[k].attrs[a]
       /\ NoneSays(files, a, n) => root.attrs[a] = b.attrs[a]

\* What merge_overlays has of the root element.
Roots == pc \in {"merge", "done"} => RootSays(doc, base, overlays, next - 1)

IInv == TypeOK /\ Written /\ Roots

\* Once all is merged, an attribute of domain.xml's root element is as the last
\* of the files says it that has it, and as generate wrote it if none has it;
\* and it has no others.
RootOverridden == pc = "done" => RootSays(file, base, overlays, Len(overlays))

-----------------------------------------------------------------------------
(* merge, one element of each                                              *)

\* The name is the base's, and of the attributes that both have, the overlay's
\* is taken; none is lost, and none is made up.
LEMMA MergeRoot ==
  ASSUME NEW b, NEW o
  PROVE  /\ MergeElement(b, o).name = b.name
         /\ DOMAIN MergeElement(b, o).attrs = DOMAIN b.attrs \cup DOMAIN o.attrs
         /\ \A a \in DOMAIN o.attrs :
              MergeElement(b, o).attrs[a] = o.attrs[a]
         /\ \A a \in DOMAIN b.attrs \ DOMAIN o.attrs :
              MergeElement(b, o).attrs[a] = b.attrs[a]
  BY DEF MergeElement, MergeWith, Attributes

\* What the root says after n files, it says after the next, once that is merged
\* into it.
LEMMA RootMerged ==
  ASSUME NEW root, NEW b, NEW files, NEW n \in Nat, RootSays(root, b, files, n)
  PROVE  RootSays(MergeElement(root, files[n + 1]), b, files, n + 1)
<1> DEFINE o == files[n + 1]
           new == MergeElement(root, o)
<1>1. /\ DOMAIN new.attrs = DOMAIN root.attrs \cup DOMAIN o.attrs
      /\ \A a \in DOMAIN o.attrs : new.attrs[a] = o.attrs[a]
      /\ \A a \in DOMAIN root.attrs \ DOMAIN o.attrs :
           new.attrs[a] = root.attrs[a]
  BY MergeRoot
<1> HIDE DEF new
<1>2. 1..(n + 1) = (1..n) \cup {n + 1} /\ n + 1 \notin 1..n
  OBVIOUS
<1>3. UNION {DOMAIN files[k].attrs : k \in 1..(n + 1)} =
        (UNION {DOMAIN files[k].attrs : k \in 1..n}) \cup DOMAIN o.attrs
  BY <1>2
<1>4. DOMAIN new.attrs =
        DOMAIN b.attrs \cup UNION {DOMAIN files[k].attrs : k \in 1..(n + 1)}
  BY <1>1, <1>3 DEF RootSays
<1>5. ASSUME NEW a \in DOMAIN new.attrs, NEW k \in 1..(n + 1),
             LastSays(files, a, k, n + 1)
      PROVE  new.attrs[a] = files[k].attrs[a]
  <2>1. CASE k = n + 1
    BY <1>1, <1>5, <2>1 DEF LastSays
  <2>2. CASE k \in 1..n
    <3>1. a \notin DOMAIN o.attrs
      BY <1>5, <2>2 DEF LastSays
    <3>2. a \in DOMAIN root.attrs /\ new.attrs[a] = root.attrs[a]
      BY <1>1, <3>1
    <3>3. LastSays(files, a, k, n)
      BY <1>5, <2>2 DEF LastSays
    <3> QED  BY <2>2, <3>2, <3>3 DEF RootSays
  <2> QED  BY <1>2, <2>1, <2>2
<1>6. ASSUME NEW a \in DOMAIN new.attrs, NoneSays(files, a, n + 1)
      PROVE  new.attrs[a] = b.attrs[a]
  <2>1. a \notin DOMAIN o.attrs /\ NoneSays(files, a, n)
    BY <1>2, <1>6 DEF NoneSays
  <2>2. a \in DOMAIN root.attrs /\ new.attrs[a] = root.attrs[a]
    BY <1>1, <2>1
  <2> QED  BY <2>1, <2>2 DEF RootSays
<1> QED  BY <1>4, <1>5, <1>6 DEF RootSays, new

-----------------------------------------------------------------------------
(* The invariant holds                                                     *)

LEMMA Initial == Init => IInv
<1> SUFFICES ASSUME Init PROVE IInv
  OBVIOUS
<1>1. PICK i \in Inputs : base \in i[1] /\ overlays \in i[2]
  BY DEF Init
<1>2. overlays \in Seq(ToSet(overlays))
  BY <1>1, InputsAssumption
<1>3. Len(overlays) \in Nat
  BY <1>2
<1>4. next \in 1..(Len(overlays) + 1) /\ 1..(next - 1) = {}
  BY <1>3 DEF Init
<1> QED  BY <1>1, <1>4 DEF Init, IInv, TypeOK, Written, Roots

LEMMA Step == IInv /\ [Next]_vars => IInv'
<1> SUFFICES ASSUME IInv, [Next]_vars PROVE IInv'
  OBVIOUS
<1> USE DEF IInv
<1>1. PICK i \in Inputs : base \in i[1] /\ overlays \in i[2]
  BY DEF TypeOK
<1>2. overlays \in Seq(ToSet(overlays)) /\ base.name = "domain"
  BY <1>1, InputsAssumption
<1>3. Len(overlays) \in Nat /\ next \in Nat
  BY <1>2 DEF TypeOK
<1>4. CASE Generate
  BY <1>2, <1>4 DEF Generate, TypeOK, Written, Roots
<1>5. CASE Load
  <2>1. next = 1 /\ 1..(next - 1) = {} /\ next' = next
    BY <1>5 DEF Load, Written
  <2>2. RootSays(base, base, overlays, 0)
    BY DEF RootSays
  <2>3. Roots'
    BY <1>5, <2>1, <2>2 DEF Load, Written, Roots
  <2> QED  BY <1>2, <1>5, <2>3 DEF Load, TypeOK, Written
<1>6. CASE MergeOverlay
  <2> DEFINE o == overlays[next]
  <2>1. /\ pc = "merge" /\ pc' = pc /\ next' = next + 1 /\ next <= Len(overlays)
        /\ doc' = MergeElement(doc, o) /\ o.name = "domain"
        /\ UNCHANGED <<base, overlays, file>>
    BY <1>6 DEF MergeOverlay, IsDomain
  <2>2. doc'.name = "domain"
    BY <2>1, MergeRoot DEF Written
  <2>3. /\ 1..(next' - 1) = (1..(next - 1)) \cup {next}
        /\ next' \in 1..(Len(overlays) + 1)
    BY <1>3, <2>1 DEF TypeOK
  <2>4. \A k \in 1..(next' - 1) : overlays[k].name = "domain"
    BY <2>1, <2>3 DEF TypeOK
  <2>5. TypeOK'
    BY <2>1, <2>2, <2>3, <2>4 DEF TypeOK
  <2>6. Written'
    BY <2>1, <2>2 DEF Written
  <2>7. next - 1 \in Nat /\ (next - 1) + 1 = next /\ next' - 1 = next
    BY <1>3, <2>1 DEF TypeOK
  <2>8. RootSays(doc, base, overlays, next - 1)
    BY <2>1 DEF Roots
  <2>9. RootSays(MergeElement(doc, overlays[(next - 1) + 1]), base, overlays,
                 (next - 1) + 1)
    BY <2>7, <2>8, RootMerged
  <2>10. Roots'
    BY <2>1, <2>7, <2>9 DEF Roots
  <2> QED  BY <2>5, <2>6, <2>10
<1>7. CASE RefuseOverlay
  BY <1>7 DEF RefuseOverlay, TypeOK, Written, Roots
<1>8. CASE Save
  BY <1>8 DEF Save, TypeOK, Written, Roots
<1>9. CASE UNCHANGED vars
  BY <1>9 DEF vars, TypeOK, Written, Roots
<1> QED  BY <1>4, <1>5, <1>6, <1>7, <1>8, <1>9 DEF Next

\* The invariant of set_up_libvirt_domain_xml, whatever it is given to merge.
THEOREM Invariance == Spec => []IInv
<1> QED  BY Initial, Step, PTL DEF Spec

-----------------------------------------------------------------------------
(* What it is for                                                          *)

\* Every variable stays in the set its code counterpart ranges over: only
\* domains are merged, and what is merged stays one.
THEOREM TypeCorrect == Spec => []TypeOK
<1>1. IInv => TypeOK
  BY DEF IInv
<1> QED  BY <1>1, Invariance, PTL

\* domain.xml is as it was generated, or with all the files merged into it: one
\* that is refused leaves nothing of those before it.
THEOREM AllOrNothingHolds == Spec => []AllOrNothing
<1>1. IInv => AllOrNothing
  BY DEF IInv, TypeOK, Written, AllOrNothing
<1> QED  BY <1>1, Invariance, PTL

\* The root of domain.xml has, in the end, every attribute that generate or a
\* file gave it, the last file's where they differ, and no other.
THEOREM RootsCorrect == Spec => []RootOverridden
<1>1. IInv => RootOverridden
  <2> SUFFICES ASSUME IInv, pc = "done"
               PROVE  RootSays(file, base, overlays, Len(overlays))
    BY DEF RootOverridden
  <2>1. PICK i \in Inputs : base \in i[1] /\ overlays \in i[2]
    BY DEF IInv, TypeOK
  <2>2. Len(overlays) \in Nat
    BY <2>1, InputsAssumption
  <2>3. next - 1 = Len(overlays) /\ file = doc
    BY <2>2 DEF IInv, TypeOK, Written
  <2> QED  BY <2>3 DEF IInv, Roots
<1> QED  BY <1>1, Invariance, PTL
===============================================================================
