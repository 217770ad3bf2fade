-------------------------------- MODULE VmRun --------------------------------
(***************************************************************************)
(* What the entrypoint promises of each run of a container: the VM is      *)
(* launched at most once in it, and the run goes on until the VM is off,   *)
(* unless something other than the entrypoint's own course forces it to    *)
(* end. Entrypoint implements this module; Exec builds on it.              *)
(***************************************************************************)
VARIABLES
  up,        \* whether the container runs
  vm,        \* "off", "booting", "on", or "halting"
  launched,  \* whether the VM was launched in this run, with or without success
  forced     \* whether the run may end, or has ended, over a running VM

vmRunVars == <<up, vm, launched, forced>>

VmRunInit ==
  /\ up = FALSE
  /\ vm = "off"
  /\ launched = FALSE
  /\ forced = FALSE

Begin ==
  /\ ~up
  /\ up' = TRUE
  /\ forced' = FALSE
  /\ UNCHANGED <<vm, launched>>

LaunchVm ==
  /\ up /\ ~launched
  /\ launched' = TRUE
  /\ vm' \in {vm, "booting"}
  /\ UNCHANGED <<up, forced>>

\* The guest comes up or starts anew, notices the power button, powers off.
GuestStep ==
  /\ \/ vm = "booting" /\ vm' = "on"
     \/ vm = "on" /\ vm' = "booting"
     \/ vm \in {"booting", "on"} /\ vm' = "halting"
     \/ vm \in {"booting", "on", "halting"} /\ vm' = "off"
  /\ UNCHANGED <<up, launched, forced>>

\* The user leaves the console, libvirt's daemon dies, or a SIGTERM comes
\* before the VM is known to run.
ForceEnd ==
  /\ up
  /\ forced' = TRUE
  /\ UNCHANGED <<up, vm, launched>>

RunOver ==
  /\ up
  /\ up' = FALSE
  /\ vm' = "off"
  /\ launched' = FALSE

Quit == RunOver /\ (vm = "off" \/ forced) /\ UNCHANGED forced

\* The engine's doing.
Kill == RunOver /\ forced' = TRUE

VmRunNext ==
  \/ Begin \/ LaunchVm \/ GuestStep \/ ForceEnd \/ Quit \/ Kill

VmRunSpec == VmRunInit /\ [][VmRunNext]_vmRunVars
=============================================================================
