----------------------------- MODULE GuestConfig -----------------------------
(***************************************************************************)
(* What becomes of a container's mounts and devices in its VM. At every    *)
(* create, set_up_mounts, set_up_devices and set_up_blockdevs redirect     *)
(* them to numbered places in the container; the first create also writes  *)
(* down for libvirt (domain.xml) and for the guest (first-boot             *)
(* configuration) which number goes where, and later creates do not write  *)
(* it again. Between any two steps the host may change what lies at a      *)
(* path, and so what create finds there.                                   *)
(*                                                                         *)
(* A path is the sequence of its names.                                    *)
(***************************************************************************)
EXTENDS Integers, FiniteSets, SequencesExt

CONSTANTS
  Configs,     \* the configurations a container may have
  HostPaths,   \* the paths of the host that exist at times
  Letters,     \* how many names there are for disks, vda to vdz
  Cpus,        \* how many CPUs the host has
  MaxWord,     \* the largest u64
  MaxChanges   \* bound: how often the host changes

Kinds == {"dir", "file", "block", "other", "none"}

\* A config.json: the mounts have a source, or Absent, and their destination.
Paths == Seq(STRING)
Sources == [typ : STRING, src : Paths, dst : Paths, ro : BOOLEAN]

ASSUME ConfigsAssumption ==
  \A c \in Configs :
    /\ c.mounts \in Seq(Sources) /\ c.devices \in Seq(Sources)
    /\ c.blockdevs \in Seq([src : Paths, dst : Paths])
    /\ c.cpu = <<>> \/ c.cpu \in Int \X Nat

\* The engines put special file systems into /proc, /sys and /dev, not into
\* crun-vm's own directory. Binds and tmpfs may be anywhere.
ASSUME PlacesAssumption ==
  \A c \in Configs : \A m \in ToSet(c.mounts) :
    m.typ \notin {"bind", "tmpfs"} => ~IsPrefix(<<"crun-vm">>, m.dst)

ASSUME NumbersAssumption ==
  /\ Letters \in Nat \ {0}
  /\ Cpus \in Nat \ {0}
  /\ MaxWord \in Nat
  /\ MaxChanges \in Nat

VARIABLES
  conf,      \* config.json as the engine writes it, and the custom options
  host,      \* what there is at each path of the host
  changes,   \* how often that changed
  pc,        \* where create is, or what came of it
  begun,     \* whether there was a create before, with or without success
  first,     \* whether this create is the first
  blockdevs, \* the --blockdev options as from_spec returns them
  next,      \* which mount or device comes next
  found,     \* what this create made of the mounts, one after another
  virtiofs,  \* the directories that are to appear in the guest,
  block,     \* the disks,
  tmpfs,     \* and the places for tmpfs: the fields of Mounts
  oci,       \* the mounts of the container: a source and a place for each
  nodes,     \* what is in crun-vm/mounts/block of the container's root
  domain,    \* domain.xml
  boot,      \* the first-boot configuration
  told       \* what the first create made of the mounts when it wrote these

mounts == <<virtiofs, block, tmpfs>>
createVars == <<pc, first, blockdevs, next, found, mounts, oci>>
keptVars == <<begun, nodes, domain, boot, told>>
vars == <<conf, host, changes, createVars, keptVars>>

Absent == <<>>

Kind(path) == IF path \in HostPaths THEN host[path] ELSE "none"

\* Nothing is in what is no directory.
Possible(h) ==
  \A p, q \in HostPaths :
    IsStrictPrefix(p, q) /\ h[q] # "none" => h[p] = "dir"

Disk == {"file", "block"}

-----------------------------------------------------------------------------
Init ==
  /\ conf \in Configs
  /\ host \in {h \in [HostPaths -> Kinds] : Possible(h)}
  /\ changes = 0
  /\ pc = "down"
  /\ begun = FALSE
  /\ first = FALSE
  /\ blockdevs = <<>>
  /\ next = 1
  /\ found = <<>>
  /\ virtiofs = <<>>
  /\ block = <<>>
  /\ tmpfs = {}
  /\ oci = <<>>
  /\ nodes = {}
  /\ domain = Absent
  /\ boot = Absent
  /\ told = Absent

-----------------------------------------------------------------------------
(* Engine::detect and CustomOptions::from_spec                             *)

SecretsDir == <<"var", "run", "secrets", "kubernetes.io">>
EtcHosts == <<"etc", "hosts">>
ContainerEnv ==
  {<<"run", ".containerenv">>, <<"var", "run", ".containerenv">>}

MountsAt(paths) == {m \in ToSet(conf.mounts) : m.dst \in paths}

\* Whether there is a source of /etc/hosts to read.
HostsRead == \E m \in MountsAt({EtcHosts}) : m.src # Absent

Engine ==
  IF \/ \E m \in ToSet(conf.mounts) : IsPrefix(SecretsDir, m.dst)
     \/ HostsRead /\ conf.kubernetesHosts
  THEN "kubernetes"
  ELSE IF conf.dockerenv THEN "docker"
  ELSE IF MountsAt(ContainerEnv) # {} /\ conf.podmanBundle THEN "podman"
  ELSE "unknown"

\* The mounts a path of the container may lie in.
MountsOver(path) ==
  {i \in DOMAIN conf.mounts :
     conf.mounts[i].src # Absent /\ IsPrefix(conf.mounts[i].dst, path)}

\* path_in_container_into_path_in_host: the last of them counts.
PathInHost(path) ==
  LET m == conf.mounts[Max(MountsOver(path))]
  IN m.src \o SubSeq(path, Len(m.dst) + 1, Len(path))

Findable(path) ==
  MountsOver(path) # {} /\ Kind(PathInHost(path)) # "none"

Translatable ==
  \A b \in ToSet(conf.blockdevs) : Findable(b.src) /\ Findable(b.dst)

Translated(b) == [b EXCEPT !.src = PathInHost(b.src), !.dst = PathInHost(b.dst)]

Step(from, to) ==
  /\ pc = from
  /\ pc' = to
  /\ UNCHANGED <<conf, host, changes>>

Fail ==
  /\ pc' = "failed"
  /\ UNCHANGED <<conf, host, changes, first, blockdevs, next, found, mounts,
                 oci, keptVars>>

\* create, up to the mounts. The first one makes the private directory.
CallCreate ==
  /\ Step("down", "mounts")
  /\ Engine # "unknown"
  /\ Engine = "kubernetes" => Translatable
  /\ blockdevs' = IF Engine = "kubernetes"
                  THEN [i \in DOMAIN conf.blockdevs |->
                          Translated(conf.blockdevs[i])]
                  ELSE conf.blockdevs
  /\ first' = ~begun
  /\ begun' = TRUE
  /\ next' = 1
  /\ found' = <<>>
  /\ virtiofs' = <<>>
  /\ block' = <<>>
  /\ tmpfs' = {}
  /\ oci' = <<>>
  /\ UNCHANGED <<nodes, domain, boot, told>>

\* To read /etc/hosts or to look for .dockerenv fails, the engine is unknown, or
\* an option has no path on the host.
CreateRefused ==
  /\ pc = "down"
  /\ HostsRead \/ Engine # "kubernetes" \/ ~Translatable
  /\ Fail

-----------------------------------------------------------------------------
(* set_up_mounts                                                           *)

TargetsToIgnore ==
  {<<"etc", "hostname">>, EtcHosts, <<"etc", "resolv.conf">>, <<"proc">>,
   <<"run", ".containerenv">>, <<"run", "secrets">>, <<"sys">>,
   <<"sys", "fs", "cgroup">>}

Ignored(m) == m.dst \in TargetsToIgnore
UnderDev(path) == IsPrefix(<<"dev">>, path)

Place(sort, n) == <<"crun-vm", sort, n>>

\* What becomes of a mount, given the kind of its source.
Fate(m, kind) ==
  IF Ignored(m) \/ m.typ \notin {"bind", "tmpfs"} THEN "kept"
  ELSE IF m.typ = "tmpfs" THEN IF UnderDev(m.dst) THEN "kept" ELSE "tmpfs"
  ELSE IF kind = "dir" THEN IF UnderDev(m.dst) THEN "kept" ELSE "shared"
  ELSE IF kind \in Disk THEN "disk"
  ELSE "refused"

TheMount == conf.mounts[next]
TheFate == Fate(TheMount, Kind(TheMount.src))

Redirected(at) ==
  oci' = Append(oci, [src |-> TheMount.src, at |-> at, ro |-> TheMount.ro])

NextMount ==
  /\ Step("mounts", "mounts")
  /\ next <= Len(conf.mounts)
  /\ next' = next + 1
  /\ found' = Append(found, TheFate)
  /\ UNCHANGED <<first, blockdevs, keptVars>>

KeepMount ==
  /\ NextMount
  /\ TheFate = "kept"
  /\ Redirected(TheMount.dst)
  /\ UNCHANGED mounts

ShareDirectory ==
  /\ NextMount
  /\ TheFate = "shared"
  /\ LET at == Place("virtiofs", Len(virtiofs))
     IN /\ virtiofs' = Append(virtiofs, [at |-> at, dst |-> TheMount.dst])
        /\ Redirected(at)
  /\ UNCHANGED <<block, tmpfs>>

\* A new disk, of which the domain knows the place and the guest the path, and
\* whether it is a regular file. Its format is raw or the option's, the same at
\* every create, and so left out.
Attach(dst, ro, file) ==
  /\ block' = Append(block, [at |-> Place("block", Len(block)), dst |-> dst,
                             ro |-> ro, file |-> file])
  /\ UNCHANGED <<virtiofs, tmpfs>>

AttachMount ==
  /\ NextMount
  /\ TheFate = "disk"
  /\ Attach(TheMount.dst, TheMount.ro, Kind(TheMount.src) = "file")
  /\ Redirected(Place("block", Len(block)))

TmpfsInGuest ==
  /\ NextMount
  /\ TheFate = "tmpfs"
  /\ tmpfs' = tmpfs \cup {TheMount.dst}
  /\ UNCHANGED <<virtiofs, block, oci>>

RefuseMount ==
  /\ pc = "mounts" /\ next <= Len(conf.mounts)
  /\ TheFate = "refused"
  /\ Fail

ToDevices ==
  /\ Step("mounts", "devices")
  /\ next > Len(conf.mounts)
  /\ next' = 1
  /\ UNCHANGED <<first, blockdevs, found, mounts, oci, keptVars>>

-----------------------------------------------------------------------------
(* set_up_devices                                                          *)

TheDevice == conf.devices[next]

NextDevice ==
  /\ Step("devices", "devices")
  /\ next <= Len(conf.devices)
  /\ next' = next + 1
  /\ UNCHANGED <<first, blockdevs, found, oci, begun, domain, boot, told>>

SkipCharDevice ==
  /\ NextDevice
  /\ TheDevice.typ = "c"
  /\ UNCHANGED <<mounts, nodes>>

\* Plausible bug: mknod replaces what is there.
NodeReplaced == FALSE

NodeThere == \E f \in nodes : f.n = Len(block)

\* mknod
AttachDevice ==
  /\ NextDevice
  /\ TheDevice.typ = "b" /\ ~NodeThere
  /\ nodes' = nodes \cup {[n |-> Len(block), src |-> TheDevice.src]}
  /\ Attach(TheDevice.dst, TheDevice.ro, FALSE)

\* The node of an earlier create, or where it mounted a disk.
MknodFails ==
  /\ pc = "devices" /\ next <= Len(conf.devices)
  /\ TheDevice.typ = "b" /\ NodeThere
  /\ Fail

ToBlockdevs ==
  /\ Step("devices", "blockdevs")
  /\ next > Len(conf.devices)
  /\ next' = 1
  /\ UNCHANGED <<first, blockdevs, found, mounts, oci, keptVars>>

-----------------------------------------------------------------------------
(* set_up_blockdevs                                                        *)

AttachBlockdev ==
  /\ Step("blockdevs", "blockdevs")
  /\ next <= Len(blockdevs)
  /\ Kind(blockdevs[next].src) \in Disk
  /\ oci' = Append(oci, [src |-> blockdevs[next].src,
                         at |-> Place("block", Len(block)), ro |-> FALSE])
  /\ Attach(blockdevs[next].dst, FALSE, Kind(blockdevs[next].src) = "file")
  /\ next' = next + 1
  /\ UNCHANGED <<first, blockdevs, found, keptVars>>

RefuseBlockdev ==
  /\ pc = "blockdevs" /\ next <= Len(blockdevs)
  /\ Kind(blockdevs[next].src) \notin Disk
  /\ Fail

ToConfig ==
  /\ Step("blockdevs", "config")
  /\ next > Len(blockdevs)
  /\ UNCHANGED <<first, blockdevs, next, found, mounts, oci, keptVars>>

-----------------------------------------------------------------------------
(* set_up_first_boot_config and set_up_libvirt_domain_xml                  *)

\* Plausible bug: the quota is rounded down.
VcpusRoundedDown ==
  IF conf.cpu = <<>> THEN Cpus
  ELSE IF conf.cpu[1] <= 0 \/ conf.cpu[2] = 0 THEN Cpus
       ELSE conf.cpu[1] \div conf.cpu[2]

\* get_vcpu_count, in 64 bits: conf.cpu is empty or the quota and the period.
VcpuCount ==
  IF conf.cpu = <<>> THEN Cpus
  ELSE LET quota == conf.cpu[1]
           period == conf.cpu[2]
       IN IF quota <= 0 \/ quota + period > MaxWord \/ period = 0 THEN Cpus
          ELSE (quota + period - 1) \div period

\* Plausible bug: the alphabet is one letter short.
DevNameToY(i) == i % (Letters - 1)

\* next_dev_name: vda, vdb, ..., and after vdz vda again.
DevName(i) == i % Letters

\* The image, the disks with their serials, and the cloud-init ISO.
Disks ==
  LET n == Len(block)
  IN [i \in 1..(n + 2) |->
        [dev |-> DevName(i - 1),
         serial |-> IF i \in 2..(n + 1) THEN i - 2 ELSE -1,
         at |-> IF i \in 2..(n + 1) THEN block[i - 1].at ELSE Absent,
         ro |-> IF i \in 2..(n + 1) THEN block[i - 1].ro ELSE FALSE,
         file |-> IF i \in 2..(n + 1) THEN block[i - 1].file ELSE TRUE]]

Domain ==
  [vcpus |-> VcpuCount,
   disks |-> Disks,
   filesystems |-> [i \in DOMAIN virtiofs |->
                      [tag |-> i - 1, at |-> virtiofs[i].at]]]

InDev(path) == Len(path) = 2 /\ path[1] = "dev"

\* Plausible bug: symlinks and rules are each counted from zero.
LinksCountedApart(direct) ==
  LET chosen == {j \in DOMAIN block : InDev(block[j].dst) = direct}
  IN {[dst |-> block[i].dst, serial |-> Cardinality({j \in chosen : j < i})] :
        i \in chosen}

\* get_block_device_symlinks and get_block_device_udev_rules: which path leads
\* to the disk of which serial.
Links(direct) ==
  {[dst |-> block[i].dst, serial |-> i - 1] :
     i \in {j \in DOMAIN block : InDev(block[j].dst) = direct}}

FirstBoot ==
  [symlinks |-> Links(FALSE),
   rules |-> Links(TRUE),
   fstab |-> {[dst |-> virtiofs[i].dst, tag |-> i - 1] :
                i \in DOMAIN virtiofs},
   tmpfs |-> tmpfs]

WriteConfig ==
  /\ Step("config", "crun")
  /\ first
  /\ domain' = Domain
  /\ boot' = FirstBoot
  /\ told' = found
  /\ UNCHANGED <<first, blockdevs, next, found, mounts, oci, begun, nodes>>

KeepConfig ==
  /\ Step("config", "crun")
  /\ ~first
  /\ UNCHANGED <<first, blockdevs, next, found, mounts, oci, keptVars>>

-----------------------------------------------------------------------------
(* crun, libvirt and the host                                              *)

\* crun makes the mount points that are not there.
CrunCreate ==
  /\ Step("crun", "created")
  /\ nodes' = nodes \cup
       {[n |-> i, src |-> Absent] :
          i \in {j \in 0..(Len(block) - 1) :
                   /\ \E o \in ToSet(oci) : o.at = Place("block", j)
                   /\ \A f \in nodes : f.n # j}}
  /\ UNCHANGED <<first, blockdevs, next, found, mounts, oci, begun, domain,
                 boot, told>>

CrunFails == pc = "crun" /\ Fail

\* What is at a place of the container: what is mounted there, else the node.
ThingsAt(place) ==
  LET mounted == {o \in ToSet(oci) : o.at = place}
  IN IF mounted # {} THEN mounted
     ELSE {f \in nodes : Place("block", f.n) = place}

\* libvirt takes no two disks of one name.
Bootable ==
  /\ domain # Absent
  /\ IsInjective([i \in DOMAIN domain.disks |-> domain.disks[i].dev])
  /\ \A d \in ToSet(domain.disks) : d.serial >= 0 => ThingsAt(d.at) # {}
  /\ \A f \in ToSet(domain.filesystems) : ThingsAt(f.at) # {}

BootVm ==
  /\ Step("created", "up")
  /\ Bootable
  /\ UNCHANGED <<first, blockdevs, next, found, mounts, oci, keptVars>>

\* Whether what domain.xml has as a file is one, and what it has as a block
\* device no file.
TypesKept ==
  \A d \in ToSet(domain.disks) :
    d.serial \in 0..(Len(block) - 1) => d.file = block[d.serial + 1].file

\* QEMU may refuse what is of another type than domain.xml says.
BootFails ==
  /\ pc = "created"
  /\ Bootable => ~TypesKept
  /\ Fail

\* The container ends; or the call is made once more.
Again ==
  /\ pc \in {"up", "failed"}
  /\ pc' = "down"
  /\ UNCHANGED <<conf, host, changes, first, blockdevs, next, found, mounts,
                 oci, keptVars>>

HostChanges ==
  /\ changes < MaxChanges
  /\ changes' = changes + 1
  /\ \E p \in HostPaths, k \in Kinds :
       /\ host' = [host EXCEPT ![p] = k]
       /\ host' # host
  /\ Possible(host')
  /\ UNCHANGED <<conf, createVars, keptVars>>

-----------------------------------------------------------------------------
Next ==
  \/ CallCreate \/ CreateRefused
  \/ KeepMount \/ ShareDirectory \/ AttachMount \/ TmpfsInGuest
  \/ RefuseMount \/ ToDevices
  \/ SkipCharDevice \/ AttachDevice \/ MknodFails \/ ToBlockdevs
  \/ AttachBlockdev \/ RefuseBlockdev \/ ToConfig
  \/ WriteConfig \/ KeepConfig
  \/ CrunCreate \/ CrunFails \/ BootVm \/ BootFails
  \/ Again \/ HostChanges

Spec == Init /\ [][Next]_vars

-----------------------------------------------------------------------------
(* Safety                                                                  *)

\* Every variable stays in the set its code counterpart ranges over.
TypeOK ==
  /\ conf \in Configs
  /\ host \in [HostPaths -> Kinds] /\ Possible(host)
  /\ changes \in 0..MaxChanges
  /\ pc \in {"down", "mounts", "devices", "blockdevs", "config", "crun",
             "created", "up", "failed"}
  /\ begun \in BOOLEAN /\ first \in BOOLEAN
  /\ next \in Nat \ {0}
  /\ Len(blockdevs) <= Len(conf.blockdevs)
  /\ Len(found) <= Len(conf.mounts)
  /\ \A f, g \in nodes : f.n = g.n => f = g
  /\ domain # Absent <=> boot # Absent

\* The mounts and devices that are to appear in the guest, and the --blockdev
\* options, as the user asked for them: where, what, and whether only to be read.
\* Sources are paths of the host, where under Kubernetes the user names them by
\* their paths in the container.
Exposed ==
  {<<conf.mounts[i].dst, conf.mounts[i].src, conf.mounts[i].ro>> :
     i \in {j \in DOMAIN found : found[j] \in {"shared", "disk"}}}
  \cup {<<d.dst, d.src, d.ro>> :
          d \in {e \in ToSet(conf.devices) : e.typ = "b"}}
  \cup {<<b.dst, IF Engine = "kubernetes" THEN PathInHost(b.src) ELSE b.src,
            FALSE>> : b \in ToSet(conf.blockdevs)}

\* What the guest finds: it was told of numbers, libvirt of the numbers' places,
\* and at these places the container has sources.
DisksSeen ==
  LET links == {p \in (boot.symlinks \cup boot.rules) \X ToSet(domain.disks) :
                  p[1].serial = p[2].serial}
  IN UNION {{<<p[1].dst, t.src, p[2].ro>> : t \in ThingsAt(p[2].at)} :
              p \in links}

DirectoriesSeen ==
  LET shares == {p \in boot.fstab \X ToSet(domain.filesystems) :
                   p[1].tag = p[2].tag}
  IN UNION {{<<p[1].dst, t.src, t.ro>> : t \in ThingsAt(p[2].at)} :
              p \in shares}

\* Whether the options ask for what from_spec makes of them: under Kubernetes it
\* translates the target, too, which is a path of the guest, into one of the host.
TargetsKept ==
  Engine = "kubernetes" =>
    \A b \in ToSet(conf.blockdevs) : PathInHost(b.dst) = b.dst

\* Create found of the first n mounts what it found when it told the guest.
SameSorts(n) == \A j \in 1..n : j \in DOMAIN told /\ found[j] = told[j]

\* In every run, although the numbers the guest goes by are those of the first
\* create: it finds every directory and file at its path, unless a mount has
\* become of another sort since, this one or one before it; and if none has, it
\* finds at each path what the configuration has there, the --blockdev options
\* included, and neither more nor something else, unless from_spec translated a
\* target.
GuestSeesConfig ==
  pc = "up" =>
    LET seen == DisksSeen \cup DirectoriesSeen
    IN /\ \A i \in DOMAIN found :
            found[i] \in {"shared", "disk"} /\ SameSorts(i) =>
              <<conf.mounts[i].dst, conf.mounts[i].src, conf.mounts[i].ro>> \in seen
       /\ found = told /\ TargetsKept => seen = Exposed

\* The names of the disks are distinct as long as there are no more than
\* letters, with the image and the cloud-init ISO among the disks.
DiskNamesDistinct ==
  domain # Absent =>
    (Len(domain.disks) <= Letters
       <=> IsInjective([i \in DOMAIN domain.disks |-> domain.disks[i].dev]))

\* The VM has the fewest CPUs that can use up the container's quota, unless
\* there is none or it makes no sense; never zero.
VcpusFitQuota ==
  domain # Absent =>
    /\ domain.vcpus > 0
    /\ LET q == conf.cpu[1]
           p == conf.cpu[2]
       IN conf.cpu # <<>> /\ q > 0 /\ p > 0 /\ q + p <= MaxWord =>
            domain.vcpus * p >= q /\ (domain.vcpus - 1) * p < q
=============================================================================
