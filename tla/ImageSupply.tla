----------------------------- MODULE ImageSupply -----------------------------
(***************************************************************************)
(* What bootable containers may count on, however their processes are      *)
(* stopped, started and killed: each is converted at most once, its image  *)
(* comes whole and at most once, never after the conversion was given up,  *)
(* and does not go away again.                                             *)
(*                                                                         *)
(* It is where two modules meet. BootcConversion implements it for each of *)
(* its containers, by prepare.sh, the pipe and the entrypoint;             *)
(* ContainerLifecycle implements it, too, and so takes nothing else from   *)
(* the conversion than what this promises.                                 *)
(***************************************************************************)
CONSTANT Containers

VARIABLES
  conversion,  \* "none", "running", "done" (the image is delivered) or "dead"
  image        \* whether the container has its image

vars == <<conversion, image>>

Init ==
  /\ conversion = [c \in Containers |-> "none"]
  /\ image = [c \in Containers |-> FALSE]

Spawn(c) ==
  /\ conversion[c] = "none"
  /\ conversion' = [conversion EXCEPT ![c] = "running"]
  /\ UNCHANGED image

Deliver(c) ==
  /\ conversion[c] = "running" /\ ~image[c]
  /\ conversion' = [conversion EXCEPT ![c] = "done"]
  /\ image' = [image EXCEPT ![c] = TRUE]

GiveUp(c) ==
  /\ conversion[c] = "running"
  /\ conversion' = [conversion EXCEPT ![c] = "dead"]
  /\ UNCHANGED image

Next == \E c \in Containers : Spawn(c) \/ Deliver(c) \/ GiveUp(c)

Spec == Init /\ [][Next]_vars
=============================================================================
