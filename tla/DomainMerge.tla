----------------------------- MODULE DomainMerge -----------------------------
(***************************************************************************)
(* set_up_libvirt_domain_xml: how domain.xml is generated and the files of *)
(* --merge-libvirt-xml are merged into it, one after another, each element *)
(* by element. What happens when this is cut short, and which create does  *)
(* it, is ContainerLifecycle's subject; here it is about the contents.     *)
(*                                                                         *)
(* An element of an XML file has a name, attributes (a function), a text   *)
(* (what text() makes of all its texts, Blank if that is white space) and  *)
(* elements (a sequence). Where among the elements the texts are is layout.*)
(***************************************************************************)
EXTENDS Integers, SequencesExt

CONSTANTS
  Inputs,  \* sets of domains, each with a set of lists of files to merge
  Blank,   \* white space
  \* merge, where it calls itself: to be MergeElement again, all the way down
  MergeChild(_, _)

\* A list of files is a list, and the domain that generate writes is one.
ASSUME InputsAssumption ==
  \A i \in Inputs :
    /\ \A b \in i[1] : b.name = "domain"
    /\ \A s \in i[2] : s \in Seq(ToSet(s))

VARIABLES
  base,      \* the domain that generate comes up with
  overlays,  \* the files of --merge-libvirt-xml
  file,      \* domain.xml
  doc,       \* base_root of merge_overlays
  next,      \* which file is merged next
  pc         \* where it is, or how it ended

vars == <<base, overlays, file, doc, next, pc>>

Absent == <<>>

-----------------------------------------------------------------------------
(* XML                                                                     *)

HasText(e) == e.text # Blank

\* Where the children of that name are.
Named(e, name) == {i \in DOMAIN e.elements : e.elements[i].name = name}

\* Plausible bug: only the first child is looked at.
FirstIs(e, name) == e.elements # <<>> /\ e.elements[1].name = name

HasChild(e, name) == Named(e, name) # {}

\* Plausible bug: the first child is taken, whatever its name.
AnyChild(e, name) == e.elements[1]

\* get_child: the first of that name.
Child(e, name) ==
  e.elements[CHOOSE i \in Named(e, name) : \A j \in Named(e, name) : i <= j]

-----------------------------------------------------------------------------
(* merge                                                                   *)

\* Plausible bug: attributes that are there stay.
BaseAttributes(b, o) == b.attrs @@ o.attrs

\* A name that is given a second time has the value it is given then.
Attributes(b, o) ==
  [a \in DOMAIN b.attrs \cup DOMAIN o.attrs |->
     IF a \in DOMAIN o.attrs THEN o.attrs[a] ELSE b.attrs[a]]

\* The texts of the base give way to the overlay's.
TextOf(b, o) == IF HasText(o) THEN o.text ELSE b.text

\* Which children of the base are elements that the overlay has, too...
ToMerge(b, o) == {i \in DOMAIN b.elements : HasChild(o, b.elements[i].name)}

\* ...and what one of them is to be merged with.
Counterpart(b, o, i) == Child(o, b.elements[i].name)

\* Plausible bug: elements that both have are left to the overlay.
Replaced(b, o, merged) ==
  [i \in DOMAIN b.elements |->
     IF i \in ToMerge(b, o) THEN Counterpart(b, o, i) ELSE b.elements[i]]

\* The children of the base, if merged is what became of those.
Kept(b, o, merged) ==
  [i \in DOMAIN b.elements |->
     IF i \in ToMerge(b, o) THEN merged[i] ELSE b.elements[i]]

\* The children of the overlay that the base has nothing to merge with, the
\* first n of the overlay's being looked at.
Added(b, o) ==
  LET first[n \in 0..Len(o.elements)] ==
        IF n = 0 THEN <<>>
        ELSE IF HasChild(b, o.elements[n].name) THEN first[n - 1]
        ELSE Append(first[n - 1], o.elements[n])
  IN first[Len(o.elements)]

\* One element merged with another.
MergeWith(b, o, merged) ==
  [name     |-> b.name,
   attrs    |-> Attributes(b, o),
   text     |-> TextOf(b, o),
   elements |-> Kept(b, o, merged) \o Added(b, o)]

MergeElement(b, o) ==
  MergeWith(b, o, [i \in ToMerge(b, o) |->
                     MergeChild(b.elements[i], Counterpart(b, o, i))])

-----------------------------------------------------------------------------
Init ==
  /\ \E i \in Inputs : base \in i[1] /\ overlays \in i[2]
  /\ file = Absent
  /\ doc = Absent
  /\ next = 1
  /\ pc = "generate"

Generate ==
  /\ pc = "generate"
  /\ file' = base
  /\ pc' = "load"
  /\ UNCHANGED <<base, overlays, doc, next>>

Load ==
  /\ pc = "load"
  /\ doc' = file
  /\ pc' = "merge"
  /\ UNCHANGED <<base, overlays, file, next>>

\* Plausible bug: any file is merged.
IsAnything(o) == TRUE

IsDomain(o) == o.name = "domain"

\* Plausible bug: the file is saved with every overlay.
MergeAndSave ==
  /\ pc = "merge" /\ next <= Len(overlays)
  /\ IsDomain(overlays[next])
  /\ doc' = MergeElement(doc, overlays[next])
  /\ file' = doc'
  /\ next' = next + 1
  /\ UNCHANGED <<base, overlays, pc>>

MergeOverlay ==
  /\ pc = "merge" /\ next <= Len(overlays)
  /\ IsDomain(overlays[next])
  /\ doc' = MergeElement(doc, overlays[next])
  /\ next' = next + 1
  /\ UNCHANGED <<base, overlays, file, pc>>

RefuseOverlay ==
  /\ pc = "merge" /\ next <= Len(overlays)
  /\ ~IsDomain(overlays[next])
  /\ pc' = "failed"
  /\ UNCHANGED <<base, overlays, file, doc, next>>

Save ==
  /\ pc = "merge" /\ next > Len(overlays)
  /\ file' = doc
  /\ pc' = "done"
  /\ UNCHANGED <<base, overlays, doc, next>>

Next == Generate \/ Load \/ MergeOverlay \/ RefuseOverlay \/ Save

Spec == Init /\ [][Next]_vars

-----------------------------------------------------------------------------
(* Safety                                                                  *)

\* Every variable stays in the set its code counterpart ranges over.
TypeOK ==
  /\ \E i \in Inputs : base \in i[1] /\ overlays \in i[2]
  /\ pc \in {"generate", "load", "merge", "failed", "done"}
  /\ next \in 1..(Len(overlays) + 1)
  /\ file = Absent \/ file.name = "domain"
  /\ doc = Absent \/ doc.name = "domain"
  /\ \A i \in 1..(next - 1) : overlays[i].name = "domain"

\* domain.xml is as it was generated, or with all the files merged into it:
\* one that is refused leaves nothing of those before it.
AllOrNothing ==
  file \in {Absent, base} \/ (pc = "done" /\ next > Len(overlays))
=============================================================================
