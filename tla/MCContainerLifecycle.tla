------------------------ MODULE MCContainerLifecycle ------------------------
(***************************************************************************)
(* Instances of ContainerLifecycle for TLC: the containers under study.    *)
(***************************************************************************)
EXTENDS ContainerLifecycle

Plain ==
  [engine |-> "podman", privileged |-> FALSE, readonly |-> FALSE,
   persistent |-> FALSE, random_ssh_key_pair |-> FALSE, emulated |-> FALSE,
   bootc |-> FALSE, disk_size |-> FALSE, devices |-> FALSE,
   overlays |-> FALSE, print |-> FALSE]

Random == [Plain EXCEPT !.random_ssh_key_pair = TRUE]
Persistent == [Plain EXCEPT !.persistent = TRUE]
Docker == [Plain EXCEPT !.engine = "docker", !.persistent = TRUE]
Kubernetes ==
  [Plain EXCEPT !.engine = "kubernetes", !.readonly = TRUE, !.emulated = TRUE]
Device == [Random EXCEPT !.devices = TRUE]
Merge == [Random EXCEPT !.overlays = TRUE, !.persistent = TRUE]
Printing == [Random EXCEPT !.print = TRUE]
Bootc == [Plain EXCEPT !.bootc = TRUE]
BootcDocker == [Bootc EXCEPT !.engine = "docker", !.disk_size = TRUE]

\* One for each check create may fail.
Refused ==
  { [Plain EXCEPT !.engine = "unknown"],
    [Plain EXCEPT !.privileged = TRUE],
    [Persistent EXCEPT !.readonly = TRUE],
    [Bootc EXCEPT !.engine = "kubernetes"],
    [Bootc EXCEPT !.emulated = TRUE],
    [Plain EXCEPT !.disk_size = TRUE] }

\* Every option and engine, alone and in the pairs that interact.
AllOptions ==
  { Plain, Random, Persistent, Docker, Kubernetes, Device, Merge, Printing,
    Bootc, BootcDocker } \cup Refused

\* One container each, for the runs that end in a counterexample.
MergeOnly == { Merge }
DeviceOnly == { Device }
PlainOnly == { Plain }
=============================================================================
