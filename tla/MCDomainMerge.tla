---------------------------- MODULE MCDomainMerge ----------------------------
(***************************************************************************)
(* Instances of MergeMeaning for TLC: all domains of up to two elements and *)
(* all files of up to two to merge into them, each with and without an     *)
(* attribute and a text, some one level deeper, and some pairs of files.   *)
(***************************************************************************)
EXTENDS MergeMeaning

\* merge, which calls itself for the children.
RECURSIVE Merge(_, _)
Merge(b, o) ==
  MergeWith(b, o, [i \in ToMerge(b, o) |->
                     Merge(b.elements[i], Counterpart(b, o, i))])

E(name, attrs, text, elements) ==
  [name |-> name, attrs |-> attrs, text |-> text, elements |-> elements]
None == [a \in {} |-> ""]
Dev(v) == [a \in {"dev"} |-> v]

\* What the elements of a file may be, if its values are v.
Leaves(v) ==
  {E(n, a, t, <<>>) : n \in {"disk", "vcpu"}, a \in {None, Dev(v)},
                      t \in {Blank, v}}

Domain(elements) == E("domain", None, Blank, elements)
Deep(elements) ==
  E("domain", Dev("0"), Blank, <<E("devices", None, Blank, elements)>>)

Upto(n, v) == BoundedSeq(Leaves(v), n)

Domains(n, v) == {Domain(s) : s \in Upto(n, v)}
Deeps(n, v) == {Deep(s) : s \in Upto(n, v)}
Pairs(s, t) == {<<a, b>> : a \in s, b \in t}

Words ==
  {E("domain", Dev(v), v, <<E("disk", None, Blank, <<>>)>>) : v \in {"2", "3"}}
Network == E("network", None, Blank, <<>>)

MCInputs ==
  {<<Domains(1, "1"), {<<>>}>>,
   <<Domains(2, "1"), {<<o>> : o \in Domains(2, "2")}>>,
   <<Deeps(2, "1"), {<<o>> : o \in Deeps(1, "2") \cup Words}>>,
   <<Domains(1, "1"),
     Pairs(Domains(1, "2"), Domains(1, "3") \cup Words \cup {Network})>>,
   <<Deeps(1, "1"),
     Pairs(Deeps(1, "2") \cup {Network}, Deeps(1, "3") \cup Words)>>}

\* The ways to all their elements: no file has more than four on one level.
MCPlaces == BoundedSeq(1..4, 2)
MCNamePlaces == BoundedSeq({"disk", "vcpu", "devices"}, 2)

\* Trees as the theorems about merging are about.
Trees ==
  LET attrs == {None, Dev("1"), Dev("2")}
      leaves == {E("disk", a, Blank, <<>>) : a \in attrs}
  IN {E(n, a, Blank, s) : n \in {"domain", "disk"}, a \in attrs,
                          s \in BoundedSeq(leaves, 2)}

ASSUME MergedAllTheWay(Trees)
=============================================================================
