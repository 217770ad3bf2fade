-------------------------- MODULE MCBootcConversion --------------------------
(***************************************************************************)
(* Instances of BootcConversion for TLC.                                   *)
(***************************************************************************)
EXTENDS BootcConversion

CONSTANTS c1, c2, c3, c4

\* All of one image and of one size.
SameLabel == [c \in Containers |-> "fedora"]
=============================================================================
