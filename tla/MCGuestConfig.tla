---------------------------- MODULE MCGuestConfig ----------------------------
(***************************************************************************)
(* Instances of GuestConfig for TLC: a handful of configurations over      *)
(* three paths of the host, one of them below another.                     *)
(***************************************************************************)
EXTENDS GuestConfig

A == <<"a">>
B == <<"b">>
AX == <<"a", "x">>
MCHostPaths == {A, B, AX}

Mount(typ, src, dst, ro) == [typ |-> typ, src |-> src, dst |-> dst, ro |-> ro]
Dev(typ, src, dst, ro) == [typ |-> typ, src |-> src, dst |-> dst, ro |-> ro]
Blockdev(src, dst) == [src |-> src, dst |-> dst]

Env == Mount("other", <<"env">>, <<"run", ".containerenv">>, TRUE)
Hosts == Mount("bind", <<"hosts">>, EtcHosts, FALSE)
Secrets == Mount("bind", A, SecretsDir \o <<"serviceaccount">>, TRUE)
Same == Mount("bind", A, A, FALSE)
Data == Mount("bind", A, <<"data">>, FALSE)
InDevice == Mount("bind", B, <<"dev", "b">>, TRUE)
File == Mount("bind", AX, <<"home", "x">>, TRUE)
Proc == Mount("proc", Absent, <<"proc">>, FALSE)
Shm == Mount("tmpfs", <<"tmpfs">>, <<"dev", "shm">>, FALSE)
Tmp == Mount("tmpfs", <<"tmpfs">>, <<"tmp">>, FALSE)

Base == [mounts |-> <<>>, devices |-> <<>>, blockdevs |-> <<>>, cpu |-> <<>>,
         kubernetesHosts |-> FALSE, dockerenv |-> FALSE, podmanBundle |-> FALSE]

Podman == [Base EXCEPT !.podmanBundle = TRUE]
Docker == [Base EXCEPT !.dockerenv = TRUE]

MCConfigs ==
  {[Podman EXCEPT !.mounts = <<Env, Data, Proc, InDevice, Shm, File, Tmp>>,
                  !.cpu = <<3, 2>>],
   [Podman EXCEPT !.mounts = <<Env, InDevice, Data>>,
                  !.blockdevs = <<Blockdev(AX, <<"home", "y">>)>>,
                  !.cpu = <<-1, 2>>],
   [Docker EXCEPT !.mounts = <<Hosts, Data, InDevice>>,
                  !.devices = <<Dev("c", <<"c">>, <<"dev", "c">>, FALSE),
                                Dev("b", <<"d">>, <<"dev", "d">>, TRUE)>>,
                  !.cpu = <<2, 0>>],
   [Docker EXCEPT !.devices = <<Dev("b", <<"d">>, <<"dev", "d">>, FALSE)>>,
                  !.blockdevs = <<Blockdev(A, <<"disk">>),
                                  Blockdev(B, <<"dev", "disk">>)>>,
                  !.cpu = <<3, 6>>],
   [Base EXCEPT !.mounts = <<Hosts, Same>>, !.kubernetesHosts = TRUE,
                !.blockdevs = <<Blockdev(AX, AX)>>,
                !.cpu = <<3, 3>>],
   [Base EXCEPT !.mounts = <<Secrets, Data, InDevice>>,
                !.blockdevs = <<Blockdev(<<"data", "x">>, <<"dev", "b">>)>>],
   [Podman EXCEPT !.mounts = <<Data>>]}
=============================================================================
