----------------------------- MODULE VmInstance -----------------------------
(***************************************************************************)
(* What crun-vm promises about one container's VM, whatever happens to the *)
(* runtime calls that set it up: it gets its disk once, it is personalised *)
(* (first-boot configuration, with the key that may log in) once, it runs  *)
(* only when it has both, and what the guest wrote is never taken back.    *)
(*                                                                         *)
(* ContainerLifecycle implements this module.                              *)
(***************************************************************************)
CONSTANT NoKey

VARIABLES
  disk,   \* "none", "fresh" or, once the guest wrote to it, "written"
  key,    \* key authorised by the first-boot configuration, or NoKey
  power   \* whether the VM is running

vars == <<disk, key, power>>

\* A disk the user provides (--persistent) is there from the start.
Init ==
  /\ disk \in {"none", "fresh"}
  /\ key = NoKey
  /\ power = FALSE

Provision ==
  /\ disk = "none"
  /\ disk' = "fresh"
  /\ UNCHANGED <<key, power>>

Personalise ==
  /\ key = NoKey
  /\ key' # NoKey
  /\ UNCHANGED <<disk, power>>

Boot ==
  /\ disk # "none"
  /\ key # NoKey
  /\ power' = TRUE
  /\ UNCHANGED <<disk, key>>

Write ==
  /\ power
  /\ disk' = "written"
  /\ UNCHANGED <<key, power>>

Halt ==
  /\ power' = FALSE
  /\ UNCHANGED <<disk, key>>

Next == Provision \/ Personalise \/ Boot \/ Write \/ Halt

Spec == Init /\ [][Next]_vars
=============================================================================
