------------------------- MODULE ContainerLifecycle -------------------------
(***************************************************************************)
(* One container, from the first `create` the engine asks of crun-vm to    *)
(* the last `delete`: the steps of commands::create::create and            *)
(* commands::delete::delete, each of which may fail or be cut short, the   *)
(* files and mounts they leave under the container's private directory,    *)
(* and what the entrypoint, the guest, the user and the host do meanwhile. *)
(*                                                                         *)
(* The engine serialises its calls about one container, so a single `pc`   *)
(* is enough; everything that is not a call interleaves with its steps.    *)
(***************************************************************************)
EXTENDS Naturals

CONSTANTS
  HostKeys,    \* key pairs the user may keep in ~/.ssh/id_rsa
  GenKey,      \* the key pair ssh-keygen makes for the container
  NoKey,       \* no key pair
  OptionSet,   \* the containers under study: their options and engine
  MaxMounts    \* bound: the engine stops retrying when a stack is this high

Keys == HostKeys \cup {GenKey}

Engines == {"podman", "docker", "kubernetes", "unknown"}

\* What create reads from the OCI configuration. `overlays`: whether
\* --merge-libvirt-xml is given; `devices`: whether --device gives a block
\* device; `print`: --print-libvirt-xml or --print-config-json.
Options ==
  [engine : Engines, privileged : BOOLEAN, readonly : BOOLEAN,
   persistent : BOOLEAN, random_ssh_key_pair : BOOLEAN, emulated : BOOLEAN,
   bootc : BOOLEAN, disk_size : BOOLEAN, devices : BOOLEAN,
   overlays : BOOLEAN, print : BOOLEAN]

ASSUME KeysAssumption == GenKey \notin HostKeys /\ NoKey \notin Keys
ASSUME OptionsAssumption == OptionSet \subseteq Options
ASSUME BoundAssumption == MaxMounts \in Nat \ {0}

VARIABLES
  opts,       \* the container's options: they never change
  hostKey,    \* the user's key pair, or NoKey
  files,      \* marker files and nodes in the private directory
  disk,       \* state of each file the VM's disk can be
  keyIn,      \* the key in root/.ssh and in each first-boot configuration
  xml,        \* crun-vm/domain.xml
  defined,    \* the domain libvirt keeps in the container's root
  mnt,        \* how many mounts are stacked on each mount point
  crun,       \* the container as crun knows it
  vm,         \* whether the VM runs
  prepare,    \* the bootc conversion process (prepare.sh)
  pc,         \* the next step of the current call, or how the last one ended
  first,      \* create's local is_first_create
  pubKey,     \* create's local ssh_pub_key
  rootKnown   \* delete's local: root_path is Some

vars == <<opts, hostKey, files, disk, keyIn, xml, defined, mnt, crun, vm,
          prepare, pc, first, pubKey, rootKnown>>

FileNames == {"create-ran", "image", "block-node", "ssh-successful"}
DiskNames == {"user-image", "overlay", "bootc-image"}
KeyPlaces == {"container", "cloud-init", "ignition"}
MountPoints == {"image", "image-file", "ssh"}

CreateSteps ==
  {"validate", "root", "marker", "link", "mount-image", "bind-image",
   "overlay", "devices", "ssh", "cloud-init", "ignition", "generate",
   "merge", "crun", "spawn"}
UnmountSteps == {"unmount-ssh", "unmount-file", "unmount-image"}
DeleteSteps == {"get-root", "crun-delete"} \cup UnmountSteps
Outcomes ==
  {"idle", "created", "rejected", "conflict", "nokey", "failed", "deleted"}

-----------------------------------------------------------------------------
(* What the code decides from the options.                                 *)

\* Engine::detect recognises the engine.
EngineKnown == opts.engine # "unknown"

Unprivileged == ~opts.privileged

\* CustomOptions::from_spec. Plausible bug: without its check of --persistent.
OptionsUnchecked == TRUE
OptionsValid == ~(opts.readonly /\ opts.persistent)

\* is_bootc_container.
BootcAllowed ==
  /\ opts.bootc => opts.engine \in {"podman", "docker"} /\ ~opts.emulated
  /\ opts.disk_size => opts.bootc

Accepted == Unprivileged /\ EngineKnown /\ OptionsValid /\ BootcAllowed

\* Plausible bug: --random-ssh-key-pair is not looked at.
WantsUserKeyAnyway == opts.engine = "podman"

\* The user's key pair is used unless an option or the engine forbids it...
WantsUserKey == opts.engine = "podman" /\ ~opts.random_ssh_key_pair

\* ...provided that the user has one when create looks.
UseUserKey == WantsUserKey /\ hostKey # NoKey

\* The file behind the VM's disk.
DiskFile ==
  IF opts.bootc THEN "bootc-image"
  ELSE IF opts.persistent THEN "user-image" ELSE "overlay"

\* The key `exec` logs in with: root/.ssh, or what is mounted over it.
VisibleKey == IF mnt["ssh"] > 0 THEN hostKey ELSE keyIn["container"]

\* is_first_create: create_new on the marker succeeds once. Plausible bug: it
\* is opened without create_new.
FirstCreateAlways == TRUE
FirstCreate == "create-ran" \notin files

\* What set_up_container_root removes of an earlier run.
StaleFiles == {"ssh-successful"}

\* Plausible bug: "not seen" taken for "mounted".
IsMountpointByDefault(m) == m # "image-file"

\* is_mountpoint compares devices, so it never sees the image file that is
\* bind-mounted on itself: file and directory are on the same overlayfs.
IsMountpoint(m) == m # "image-file" /\ mnt[m] > 0

\* One more mount on a mount point, over those that are there.
MountOver(m) == [mnt EXCEPT ![m] = @ + 1]

-----------------------------------------------------------------------------
Init ==
  /\ opts \in OptionSet
  /\ hostKey \in HostKeys \cup {NoKey}
  /\ files = {}
  /\ disk = [f \in DiskNames |->
               IF f = "user-image" /\ ~opts.bootc THEN "fresh" ELSE "none"]
  /\ keyIn = [p \in KeyPlaces |-> NoKey]
  /\ xml = "absent"
  /\ defined = "none"
  /\ mnt = [m \in MountPoints |-> 0]
  /\ crun = "none"
  /\ vm = FALSE
  /\ prepare = "none"
  /\ pc = "idle"
  /\ first = FALSE
  /\ pubKey = NoKey
  /\ rootKnown = FALSE

-----------------------------------------------------------------------------
(* create                                                                  *)

\* The engine calls create on a container crun does not have; or again after
\* a create that failed once crun had it.
CallCreate ==
  /\ pc \in Outcomes
  /\ crun = "none" \/ (crun = "created" /\ pc = "failed")
  /\ \A m \in MountPoints : mnt[m] < MaxMounts
  /\ pc' = "validate"
  /\ UNCHANGED <<opts, hostKey, files, disk, keyIn, xml, defined, mnt, crun,
                 vm, prepare, first, pubKey, rootKnown>>

Validate ==
  /\ pc = "validate"
  /\ pc' = IF Accepted THEN "root" ELSE "rejected"
  /\ UNCHANGED <<opts, hostKey, files, disk, keyIn, xml, defined, mnt, crun,
                 vm, prepare, first, pubKey, rootKnown>>

SetUpContainerRoot ==
  /\ pc = "root"
  /\ files' = files \ StaleFiles
  /\ pc' = "marker"
  /\ UNCHANGED <<opts, hostKey, disk, keyIn, xml, defined, mnt, crun, vm,
                 prepare, first, pubKey, rootKnown>>

IsFirstCreate ==
  /\ pc = "marker"
  /\ first' = FirstCreate
  /\ files' = files \cup {"create-ran"}
  /\ pc' = IF opts.bootc THEN "devices" ELSE "link"
  /\ UNCHANGED <<opts, hostKey, disk, keyIn, xml, defined, mnt, crun, vm,
                 prepare, pubKey, rootKnown>>

LinkImage ==
  /\ pc = "link"
  /\ files' = files \cup {"image"}
  /\ pc' = "mount-image"
  /\ UNCHANGED <<opts, hostKey, disk, keyIn, xml, defined, mnt, crun, vm,
                 prepare, first, pubKey, rootKnown>>

MountImage ==
  /\ pc = "mount-image"
  /\ mnt' = IF IsMountpoint("image")
            THEN mnt ELSE MountOver("image")
  /\ pc' = IF opts.persistent THEN "bind-image" ELSE "overlay"
  /\ UNCHANGED <<opts, hostKey, files, disk, keyIn, xml, defined, crun, vm,
                 prepare, first, pubKey, rootKnown>>

\* No is_mountpoint here: every create stacks one more bind mount.
BindImage ==
  /\ pc = "bind-image"
  /\ mnt' = MountOver("image-file")
  /\ pc' = "devices"
  /\ UNCHANGED <<opts, hostKey, files, disk, keyIn, xml, defined, crun, vm,
                 prepare, first, pubKey, rootKnown>>

\* `qemu-img create` would overwrite an overlay that is already there.
CreateOverlay ==
  /\ pc = "overlay"
  /\ disk' = IF first THEN [disk EXCEPT !["overlay"] = "fresh"] ELSE disk
  /\ pc' = "devices"
  /\ UNCHANGED <<opts, hostKey, files, keyIn, xml, defined, mnt, crun, vm,
                 prepare, first, pubKey, rootKnown>>

\* mknod fails with EEXIST on a node an earlier create made.
SetUpDevices ==
  /\ pc = "devices"
  /\ files' = IF opts.devices THEN files \cup {"block-node"} ELSE files
  /\ pc' = IF opts.devices /\ "block-node" \in files
           THEN "conflict" ELSE "ssh"
  /\ UNCHANGED <<opts, hostKey, disk, keyIn, xml, defined, mnt, crun, vm,
                 prepare, first, pubKey, rootKnown>>

\* Plausible bug: with the user's key pair, cloud-init is left out.
AfterSshWithoutCloudInit ==
  IF ~first THEN "crun" ELSE IF UseUserKey THEN "ignition" ELSE "cloud-init"

\* The first-boot configuration and the domain are for the first create only.
AfterSsh == IF first THEN "cloud-init" ELSE "crun"

\* The user's ~/.ssh is mounted at every create, without looking whether it
\* already is.
MountUserSshDir ==
  /\ pc = "ssh"
  /\ UseUserKey
  /\ mnt' = MountOver("ssh")
  /\ pubKey' = hostKey
  /\ pc' = AfterSsh
  /\ UNCHANGED <<opts, hostKey, files, disk, keyIn, xml, defined, crun, vm,
                 prepare, first, rootKnown>>

GenerateKeyPair ==
  /\ pc = "ssh"
  /\ ~UseUserKey /\ first
  /\ keyIn' = [keyIn EXCEPT !["container"] = GenKey]
  /\ pubKey' = GenKey
  /\ pc' = AfterSsh
  /\ UNCHANGED <<opts, hostKey, files, disk, xml, defined, mnt, crun, vm,
                 prepare, first, rootKnown>>

\* A later create makes no key: it reads whatever root/.ssh shows.
ReadOldKey ==
  /\ pc = "ssh"
  /\ ~UseUserKey /\ ~first
  /\ pubKey' = VisibleKey
  /\ pc' = IF VisibleKey = NoKey THEN "nokey" ELSE AfterSsh
  /\ UNCHANGED <<opts, hostKey, files, disk, keyIn, xml, defined, mnt, crun,
                 vm, prepare, first, rootKnown>>

SetUpSshKeyPair == MountUserSshDir \/ GenerateKeyPair \/ ReadOldKey

ApplyToCloudInitConfig ==
  /\ pc = "cloud-init"
  /\ keyIn' = [keyIn EXCEPT !["cloud-init"] = pubKey]
  /\ pc' = "ignition"
  /\ UNCHANGED <<opts, hostKey, files, disk, xml, defined, mnt, crun, vm,
                 prepare, first, pubKey, rootKnown>>

ApplyToIgnitionConfig ==
  /\ pc = "ignition"
  /\ keyIn' = [keyIn EXCEPT !["ignition"] = pubKey]
  /\ pc' = "generate"
  /\ UNCHANGED <<opts, hostKey, files, disk, xml, defined, mnt, crun, vm,
                 prepare, first, pubKey, rootKnown>>

GenerateDomain ==
  /\ pc = "generate"
  /\ xml' = "base"
  /\ pc' = "merge"
  /\ UNCHANGED <<opts, hostKey, files, disk, keyIn, defined, mnt, crun, vm,
                 prepare, first, pubKey, rootKnown>>

MergeOverlays ==
  /\ pc = "merge"
  /\ xml' = "merged"
  /\ pc' = "crun"
  /\ UNCHANGED <<opts, hostKey, files, disk, keyIn, defined, mnt, crun, vm,
                 prepare, first, pubKey, rootKnown>>

\* crun refuses a container it already has.
CrunCreate ==
  /\ pc = "crun"
  /\ crun' = "created"
  /\ pc' = IF crun # "none" THEN "failed" ELSE "spawn"
  /\ UNCHANGED <<opts, hostKey, files, disk, keyIn, xml, defined, mnt, vm,
                 prepare, first, pubKey, rootKnown>>

\* create's last act, after which it has succeeded: the first create of a bootc
\* container starts its conversion.
SpawnPrepare ==
  /\ pc = "spawn"
  /\ prepare' = IF first /\ opts.bootc THEN "running" ELSE prepare
  /\ pc' = "created"
  /\ UNCHANGED <<opts, hostKey, files, disk, keyIn, xml, defined, mnt, crun,
                 vm, first, pubKey, rootKnown>>

CreateStep ==
  \/ Validate \/ SetUpContainerRoot \/ IsFirstCreate
  \/ LinkImage \/ MountImage \/ BindImage \/ CreateOverlay
  \/ SetUpDevices \/ SetUpSshKeyPair
  \/ ApplyToCloudInitConfig \/ ApplyToIgnitionConfig
  \/ GenerateDomain \/ MergeOverlays
  \/ CrunCreate \/ SpawnPrepare

-----------------------------------------------------------------------------
(* delete                                                                  *)

CallDelete ==
  /\ pc \in Outcomes
  /\ pc' = "get-root"
  /\ UNCHANGED <<opts, hostKey, files, disk, keyIn, xml, defined, mnt, crun,
                 vm, prepare, first, pubKey, rootKnown>>

\* Plausible bug: the mounts are taken away while the container is still there.
UnmountFirst ==
  /\ pc = "get-root"
  /\ rootKnown' \in BOOLEAN
  /\ rootKnown' => crun # "none"
  /\ pc' = IF rootKnown' THEN "unmount-ssh" ELSE "crun-delete"
  /\ UNCHANGED <<opts, hostKey, files, disk, keyIn, xml, defined, mnt, crun,
                 vm, prepare, first, pubKey>>

\* `crun state` knows the root only while crun has the container, and any
\* error of it is ignored.
GetRootPath ==
  /\ pc = "get-root"
  /\ rootKnown' \in BOOLEAN
  /\ rootKnown' => crun # "none"
  /\ pc' = "crun-delete"
  /\ UNCHANGED <<opts, hostKey, files, disk, keyIn, xml, defined, mnt, crun,
                 vm, prepare, first, pubKey>>

CrunDelete ==
  /\ pc = "crun-delete"
  /\ crun' = "none"
  /\ vm' = FALSE
  /\ pc' = IF rootKnown THEN "unmount-ssh" ELSE "deleted"
  /\ UNCHANGED <<opts, hostKey, files, disk, keyIn, xml, defined, mnt,
                 prepare, first, pubKey, rootKnown>>

UnmountTarget ==
  CASE pc = "unmount-ssh" -> "ssh"
    [] pc = "unmount-file" -> "image-file"
    [] pc = "unmount-image" -> "image"

NextUnmount ==
  CASE pc = "unmount-ssh" -> "unmount-file"
    [] pc = "unmount-file" -> "unmount-image"
    [] pc = "unmount-image" -> "deleted"

\* Plausible bug: umount2 on a path that names nothing mounted.
DetachNothing(m) == mnt

\* MNT_DETACH takes along what is mounted under the mount point, which is how
\* the image file's bind mounts go.
Detach(m) ==
  [n \in MountPoints |->
     IF n = m THEN mnt[n] - 1
     ELSE IF m = "image" /\ n = "image-file" THEN 0 ELSE mnt[n]]

\* `while is_mountpoint`, since mounts may be stacked. Plausible bug: `if`.
AfterUmountOnce == NextUnmount
AfterUmount == pc

\* The body of ensure_unmounted's loop.
Umount ==
  /\ pc \in UnmountSteps
  /\ IsMountpoint(UnmountTarget)
  /\ mnt' = Detach(UnmountTarget)
  /\ pc' = AfterUmount
  /\ UNCHANGED <<opts, hostKey, files, disk, keyIn, xml, defined, crun, vm,
                 prepare, first, pubKey, rootKnown>>

\* ensure_unmounted returns: on to the next mount point.
Unmounted ==
  /\ pc \in UnmountSteps
  /\ ~IsMountpoint(UnmountTarget)
  /\ pc' = NextUnmount
  /\ UNCHANGED <<opts, hostKey, files, disk, keyIn, xml, defined, mnt, crun,
                 vm, prepare, first, pubKey, rootKnown>>

DeleteStep == GetRootPath \/ CrunDelete \/ Umount \/ Unmounted

\* Any step may fail (or crun-vm be killed at it) and end the call there; only
\* the writing of domain.xml leaves something half done.
Fail ==
  /\ pc \in (CreateSteps \cup DeleteSteps) \ {"get-root"}
  /\ pc' = "failed"
  /\ xml' \in IF pc \in {"generate", "merge"} THEN {xml, "partial"} ELSE {xml}
  /\ UNCHANGED <<opts, hostKey, files, disk, keyIn, defined, mnt, crun, vm,
                 prepare, first, pubKey, rootKnown>>

-----------------------------------------------------------------------------
(* The container, the guest, the user and the host                         *)

\* crun start: only after a create that succeeded.
Start ==
  /\ pc = "created"
  /\ crun = "created"
  /\ crun' = "running"
  /\ UNCHANGED <<opts, hostKey, files, disk, keyIn, xml, defined, mnt, vm,
                 prepare, pc, first, pubKey, rootKnown>>

\* Plausible bug: the entrypoint waits whatever the container is.
ImageReadyAlwaysWaits == disk["bootc-image"] # "none"

\* The entrypoint of a bootc container waits until there is an image.
ImageReady == opts.bootc => disk["bootc-image"] # "none"

\* entrypoint.sh defines the domain unless libvirt has one, and starts it.
Boot ==
  /\ crun = "running" /\ ~vm
  /\ ~opts.print
  /\ ImageReady
  /\ defined # "none" \/ xml \in {"base", "merged"}
  /\ defined' = IF defined = "none" THEN xml ELSE defined
  /\ vm' = TRUE
  /\ UNCHANGED <<opts, hostKey, files, disk, keyIn, xml, mnt, crun, prepare,
                 pc, first, pubKey, rootKnown>>

\* `virsh define` fails on a missing or unreadable domain.xml, which ends the
\* script; and with a --print option the entrypoint is just `cat`.
EntrypointEnds ==
  /\ crun = "running" /\ ~vm
  /\ \/ opts.print
     \/ ImageReady /\ defined = "none" /\ xml \in {"absent", "partial"}
  /\ crun' = "stopped"
  /\ UNCHANGED <<opts, hostKey, files, disk, keyIn, xml, defined, mnt, vm,
                 prepare, pc, first, pubKey, rootKnown>>

\* The VM or its container ends: shut down from inside, stopped or killed.
Stop ==
  /\ crun = "running"
  /\ crun' = "stopped"
  /\ vm' = FALSE
  /\ UNCHANGED <<opts, hostKey, files, disk, keyIn, xml, defined, mnt,
                 prepare, pc, first, pubKey, rootKnown>>

GuestWrites ==
  /\ vm
  /\ disk' = [disk EXCEPT ![DiskFile] = "written"]
  /\ UNCHANGED <<opts, hostKey, files, keyIn, xml, defined, mnt, crun, vm,
                 prepare, pc, first, pubKey, rootKnown>>

\* exec.sh remembers that ssh worked once.
ExecConnects ==
  /\ vm
  /\ files' = files \cup {"ssh-successful"}
  /\ UNCHANGED <<opts, hostKey, disk, keyIn, xml, defined, mnt, crun, vm,
                 prepare, pc, first, pubKey, rootKnown>>

\* prepare.sh hands the image to the entrypoint that waits for it...
PrepareDelivers ==
  /\ prepare = "running" /\ crun = "running"
  /\ prepare' = "done"
  /\ disk' = [disk EXCEPT !["bootc-image"] = "fresh"]
  /\ UNCHANGED <<opts, hostKey, files, keyIn, xml, defined, mnt, crun, vm,
                 pc, first, pubKey, rootKnown>>

\* ...or a command of it fails.
PrepareDies ==
  /\ prepare = "running"
  /\ prepare' = "dead"
  /\ UNCHANGED <<opts, hostKey, files, disk, keyIn, xml, defined, mnt, crun,
                 vm, pc, first, pubKey, rootKnown>>

\* The user makes, replaces or removes ~/.ssh/id_rsa; not while it is a lower
\* layer of a mounted overlayfs, which leaves the effect undefined.
HostKeyChange ==
  /\ mnt["ssh"] = 0
  /\ hostKey' \in HostKeys \cup {NoKey}
  /\ UNCHANGED <<opts, files, disk, keyIn, xml, defined, mnt, crun, vm,
                 prepare, pc, first, pubKey, rootKnown>>

\* The host restarts: mounts, processes and crun's state (in /run) are gone.
Reboot ==
  /\ mnt' = [m \in MountPoints |-> 0]
  /\ crun' = "none"
  /\ vm' = FALSE
  /\ prepare' = IF prepare = "running" THEN "dead" ELSE prepare
  /\ pc' = "idle"
  /\ UNCHANGED <<opts, hostKey, files, disk, keyIn, xml, defined, first,
                 pubKey, rootKnown>>

Environment ==
  \/ Start \/ Boot \/ EntrypointEnds \/ Stop
  \/ GuestWrites \/ ExecConnects
  \/ PrepareDelivers \/ PrepareDies
  \/ HostKeyChange \/ Reboot

Next ==
  \/ CallCreate \/ CreateStep
  \/ CallDelete \/ DeleteStep
  \/ Fail
  \/ Environment

Spec == Init /\ [][Next]_vars

\* A call that was made runs on, and so does an entrypoint: they are processes
\* that wait for nobody in these steps. Nothing obliges the engine, the user
\* or the guest to act.
Fairness ==
  /\ WF_vars(CreateStep)
  /\ WF_vars(DeleteStep)
  /\ WF_vars(Boot)
  /\ WF_vars(EntrypointEnds)

FairSpec == Spec /\ Fairness

-----------------------------------------------------------------------------
(* Safety                                                                  *)

\* Every variable stays in the set its code counterpart ranges over.
TypeOK ==
  /\ opts \in Options
  /\ hostKey \in HostKeys \cup {NoKey}
  /\ files \subseteq FileNames
  /\ disk \in [DiskNames -> {"none", "fresh", "written"}]
  /\ keyIn \in [KeyPlaces -> Keys \cup {NoKey}]
  /\ xml \in {"absent", "partial", "base", "merged"}
  /\ defined \in {"none", "base", "merged"}
  /\ mnt \in [MountPoints -> Nat]
  /\ crun \in {"none", "created", "running", "stopped"}
  /\ vm \in BOOLEAN
  /\ prepare \in {"none", "running", "done", "dead"}
  /\ pc \in CreateSteps \cup DeleteSteps \cup Outcomes
  /\ first \in BOOLEAN
  /\ pubKey \in Keys \cup {NoKey}
  /\ rootKnown \in BOOLEAN

\* However many creates failed half way before, and although only the first
\* writes them: a VM that runs has its disk, the mount under it, and one and
\* the same key in its cloud-init and its Ignition configuration.
BootsFullyProvisioned ==
  vm => /\ disk[DiskFile] # "none"
        /\ ~opts.bootc => mnt["image"] > 0
        /\ keyIn["cloud-init"] # NoKey
        /\ keyIn["ignition"] = keyIn["cloud-init"]

\* Where the user's key pair is not to be used (--random-ssh-key-pair, Docker,
\* Kubernetes), the key exec offers is the one the guest was given, whatever
\* the user does with their own.
RandomKeyAuthorised ==
  vm /\ (opts.engine # "podman" \/ opts.random_ssh_key_pair) =>
    VisibleKey = keyIn["cloud-init"] /\ VisibleKey \notin HostKeys

\* A delete that found the container's root leaves nothing mounted, even when
\* failed creates had stacked several mounts on one mount point.
CleanAfterDelete ==
  pc = "deleted" /\ rootKnown => \A m \in MountPoints : mnt[m] = 0

\* As long as crun has the container, the image it needs is mounted, once; and
\* with --persistent the bind mount is there that keeps the engine from
\* deleting the user's file.
MountsMatchContainer ==
  crun # "none" /\ ~opts.bootc =>
    /\ mnt["image"] = 1
    /\ opts.persistent => mnt["image-file"] > 0

\* Once a create has written everything, every later one finds the generated
\* key pair again, whatever becomes of the user's keys. (With the user's own
\* key pair a later create may find none: container/ssh holds no copy of it.)
RestartRepeatable ==
  xml = "merged" /\ (opts.engine # "podman" \/ opts.random_ssh_key_pair) =>
    pc # "nokey"

\* exec's memory that ssh worked is of this run of the container, not of an
\* earlier one: until the VM runs there is none.
MarkerFresh == crun = "created" => "ssh-successful" \notin files

\* The user's image file is written only where --persistent asks for it, and
\* never under a read-only root.
UserImageUntouched ==
  disk["user-image"] = "written" => opts.persistent /\ ~opts.readonly

-----------------------------------------------------------------------------
(* What a step may never do                                                *)

\* What the guest wrote survives every restart, failed create, delete and host
\* restart.
DiskSurvivesRestart ==
  [][\A f \in DiskNames : disk[f] = "written" => disk'[f] = "written"]_vars

\* A conversion that ended is never started again in the same container.
ConvertedOnce ==
  [][(prepare \in {"done", "dead"} => prepare' = prepare)]_vars

\* ContainerLifecycle implements what VmInstance promises.
VmInstance == INSTANCE VmInstance
  WITH disk <- disk[DiskFile], key <- keyIn["ignition"], power <- vm
ImplementsVmInstance == VmInstance!Spec

\* What it takes for granted of the conversion is what ImageSupply promises.
Supply == INSTANCE ImageSupply
  WITH Containers <- {"this"},
       conversion <- [c \in {"this"} |-> prepare],
       image <- [c \in {"this"} |-> disk["bootc-image"] # "none"]
ImplementsImageSupply == Supply!Spec

-----------------------------------------------------------------------------
(* Liveness                                                                *)

\* Every call ends: in particular ensure_unmounted's loops do.
CallsReturn ==
  pc \in CreateSteps \cup DeleteSteps ~> pc \in Outcomes

\* A container that was started does not sit there: its VM boots or it stops.
StartedBoots ==
  ~opts.bootc /\ crun = "running" ~> vm \/ crun # "running"

-----------------------------------------------------------------------------
(* What the documentation says, and some behaviour contradicts             *)

\* delete cleans up crun-vm's mounts, even if creation failed midway through.
DeleteLeavesNoMount == pc = "deleted" => \A m \in MountPoints : mnt[m] = 0

\* The XML of --merge-libvirt-xml is merged before the domain is launched.
MergedXmlUsed == vm /\ opts.overlays => defined = "merged"

\* The key that exec logs in with is authorised in a guest that was set up
\* completely.
KeyAuthorised == vm /\ defined = "merged" => VisibleKey = keyIn["cloud-init"]

\* A VM that has run, and on whose disk something was kept, can be started
\* again.
RestartWorks == disk[DiskFile] = "written" => pc # "conflict"
=============================================================================
