# A verification project for crun-vm

crun-vm is an OCI runtime: a container engine (Podman, Docker, a Kubernetes
node) calls it instead of runc or crun, and it runs the virtual machine image
inside the container instead of the container itself. This directory holds TLA+
models of its behaviour, the TLC runs that check them on small instances, and
TLAPS proofs that hold for every instance.

- [1. The system](#1-the-system): components, state, operations, what is hard
- [2. The modules](#2-the-modules): how state and actions correspond to the code
- [3. The runs](#3-the-runs): questions, bounds, fairness, results
- [4. The proofs](#4-the-proofs): what is proved, from what, and how
- [5. What the models found](#5-what-the-models-found)
- [6. What is not modelled, and the plan](#6-what-is-not-modelled-and-the-plan)

Paths below are relative to the repository; `mod.rs` alone is
`src/commands/create/mod.rs`.

## 1. The system

crun-vm has no daemon. Each OCI call is one short-lived process; what one call
knows of another it learns from files and mounts in the container's *private
directory* (`<original root>/crun-vm-<id>/`), which lives as long as the
engine keeps the container. Everything hard about the program follows from
that: calls end at any point (most lines of `create` end in `?`), and the next
call must make do with what is there.

### 1.1 Components

| component | code | state it keeps | operations |
|---|---|---|---|
| Command dispatch | `src/lib.rs` | none | `create`, `delete`, `exec` are crun-vm's own; `start`, `state`, `kill` go to crun unchanged; anything else is refused |
| Container creation | `mod.rs` | everything under the private directory: marker `create-ran`, image link, mounts, keys, first-boot configuration, `domain.xml` | `create`, 15 steps, of which some are for the first create only |
| Container deletion | `src/commands/delete.rs` | none | ask crun for the root, delete, unmount |
| Mounting helpers | `src/util.rs` | the host's mount table | `is_mountpoint`, `bind_mount_file`, `bind_mount_dir_with_different_context`, `ensure_unmounted` |
| Engine detection | `create/engine.rs` | none | `Engine::detect` |
| Custom options | `create/custom_opts.rs` | none | parse the container's command line, refuse contradictions |
| Mounts and devices of the VM | `mod.rs:384-588` | lists of virtiofs, tmpfs and block-device mounts; device nodes in the private root | number them, give them container and guest paths |
| First-boot configuration | `create/first_boot.rs` | cloud-init directory and ISO, Ignition file | merge the user's configuration with hostname, key, password, mounts |
| libvirt domain | `create/domain.rs` | `domain.xml` | generate, then merge the user's overlays |
| SSH key pair | `mod.rs:720-780` | `root/.ssh` in the private root, or the user's `~/.ssh` mounted there | choose, generate, read |
| exec | `src/commands/exec.rs`, `embed/exec.sh` | marker `ssh-successful` | wait until ssh works, then run the command |
| Container entrypoint | `embed/entrypoint.sh`, `embed/virtiofsd.sh` | libvirt's own definition of the domain | wait for a converted image, define, start, shut down on SIGTERM |
| Bootable container conversion | `embed/bootc/*` | the pipe `progress`, `image.raw`, `image.qcow2`, markers `bootc-install-success` and `success`, `config.json`, the engine's store of converted images | `prepare.sh`, run beside the container |
| Tests, utilities, build | `tests/`, `util/`, `build.rs` | none | for developers |

### 1.2 How they interact

The engine serialises the calls about one container; nothing serialises them
with the container's own processes, the conversion, the guest, the user or the
host.

- **Calls.** Engine → crun-vm → crun. `create` prepares the private directory
  and ends in `crun create`; `start` makes crun run the entrypoint; `exec` runs
  `exec.sh` in the container.
- **Files.** `create` of one run and `create` of the next meet at the marker
  files; `create` and the entrypoint at `domain.xml`; `create` and `exec` at
  `ssh-successful`; `create` and the guest at the first-boot configuration.
- **Mounts.** Made by `create`, taken away by `delete`, or by a host restart.
- **A spawned process.** The first `create` of a bootable container spawns
  `prepare.sh` and does not wait. It meets the entrypoint at a named pipe: the
  pipe's opening is the rendezvous, its end of file is the news that the
  conversion is over, and the marker `success` says how it went.
- **Shared between containers.** The engine's storage, where conversions leave
  images for one another.

### 1.3 What is hard, and what makes each part correct

*Creation* is only a *first create* once, and what decides that is a marker made
near its beginning (`mod.rs:193`). A create that fails after the marker leaves a
container whose next create skips all provisioning. Correct means: a VM that
runs nevertheless has its disk, its mount and one consistent first-boot
configuration (`BootsFullyProvisioned`); what the guest wrote is never taken
back (`DiskSurvivesRestart`); a container that was set up with the generated key
pair finds it again (`RestartRepeatable`); the whole is some run of the abstract `VmInstance`
(`ImplementsVmInstance`).

*Mounting and deletion.* Mounts may be stacked, because the user's `.ssh` and the
image file are mounted without asking whether they are; `is_mountpoint` compares
devices and cannot see a file bind-mounted on itself; the root is learnt from
`crun state`, which fails for a container crun does not have. Correct means: the
image is mounted, once, exactly while it must be (`MountsMatchContainer`), a
delete that found the root leaves nothing (`CleanAfterDelete`), the unmount loops
end (`CallsReturn`).

*SSH keys.* Which pair is used is decided at every create from files the user may
change; the guest is given a key once. Correct means: where the user's pair is
not wanted, `exec` offers the key that was authorised (`RandomKeyAuthorised`).

*The entrypoint* is process 1 of the container: bash looks at a SIGTERM only between
two commands, what it does then depends on the line it is at, and whether a VM runs
is known only to libvirt. Any run may be killed anywhere, and the next starts on what
it left. Correct means: a VM that runs when the SIGTERM is looked at is not cut off
by the script (`GracefulShutdown`), a killed run does not make the next one fail
(`Restartable`), a SIGTERM ends the container if the guest obeys (`StopHonoured`),
the end of the VM ends it (`VmEndEndsContainer`), and nothing else but what the
user, the engine or a dying daemon forces on it (`LastsAsLongAsVm`, and
`ImplementsVmRun`, which implies it).

*exec* waits for a guest it knows only by the errors of ssh, and trusts a marker file
that other execs write and that outlives a reboot of the guest. Correct means: the
marker is of this run (`MarkerFresh`) and says that the guest was reached in it
(`ReachedBefore`); an exec does not fail merely because the guest boots
(`BootIsWaitedFor`), does not run its command when it says it timed out
(`TimedOutNotRun`), and does time out (`LimitEndsRetries`).

*Mounts and devices.* Each is redirected to a numbered place of the container; libvirt
and the guest are told at the first create which number goes where, and later
creates number anew. Three functions in two files count for themselves. Correct
means: the guest finds at each path what the configuration asks for there
(`GuestSeesConfig`), and where it cannot, because the host changed, it does up to the
first mount that did.

*The libvirt domain.* Disk names come from an alphabet (`DiskNamesDistinct`), the
number of CPUs from a quotient of 64-bit numbers of different signedness
(`VcpusFitQuota`), and the user's XML is merged in element by element: completely
(`AllOrNothing`), the later file winning (`OverlaysWin`), without losing
(`BaseKept`) or touching (`OnlySaidChanges`) anything else, and without harm if
done twice (`OnceIsEnough`).

*The conversion* runs while its container is stopped, started again, or deleted,
any of its commands may fail, krun reports success whatever happened, and other
conversions use the same cache. Correct means: no VM is given, and no cache
keeps, an unfinished image (`OnlyCompleteImages`, `OnlyCompleteCached`); the
image is moved only when nobody builds from it any more (`HandedOverAtTheEnd`);
success means there is an image (`SuccessMeansImage`); one conversion per
container (`ConvertsOnce`); and neither side waits for ever, unless the other is killed
before the two have met (`PrepareReturns`, `ConversionHeard`).

*First boot, options, engine detection* are functions of the configuration. Their
part in the numbering of disks and in the translation of paths is in
`GuestConfig`; see section 6 for the rest.

## 2. The modules

| module | what it is |
|---|---|
| `VmInstance` | abstract: what one container's VM may do at all |
| `ContainerLifecycle` | one container through creates, restarts, failures, deletes and host restarts; implements `VmInstance` |
| `MCContainerLifecycle` | the containers TLC looks at |
| `ContainerLifecycle_proofs` | inductive invariant, theorems, refinement proofs |
| `BootcConversion` | several bootable containers, their `prepare.sh`, entrypoints, pipes and the common cache |
| `ImageSupply` | abstract: what a bootable container may count on of its conversion; implemented by both |
| `MCBootcConversion` | instances for TLC |
| `BootcConversion_proofs` | inductive invariant, theorems, refinement proof |
| `VmRun` | abstract: what one run of a container does with its VM |
| `Entrypoint` | `entrypoint.sh` against signals, virsh, libvirt and the guest; implements `VmRun` |
| `Entrypoint_proofs` | inductive invariant, theorems, refinement proof |
| `Exec` | several execs over the VM of `VmRun`, which it extends |
| `Exec_proofs` | inductive invariant and theorems |
| `GuestConfig` | mounts, devices and blockdevs from `config.json` into the guest, over several creates |
| `MCGuestConfig` | the configurations TLC looks at |
| `GuestConfig_proofs` | inductive invariant and theorems |
| `GuestView_proofs` | that the guest sees its configuration: the counting invariant and the theorem |
| `DomainMerge` | how `domain.xml` is generated and files are merged into it, element by element |
| `DomainMerge_proofs` | inductive invariant and theorems |
| `MergeMeaning` | what merging all the way down is to mean |
| `MCDomainMerge` | the trees TLC looks at, and `merge` as it calls itself |
| `MergeMeaning_proofs` | that merging means it, for trees of any depth |

### 2.1 `VmInstance`

Three variables: the disk (`"none"`, `"fresh"`, `"written"`), the key authorised
in the guest, whether the VM runs. Five actions: the disk is provided once, the
VM is personalised once, it boots only with both, the guest writes, it halts.
There is deliberately no action that takes the disk back from `"written"` or
changes the key.

### 2.2 `ContainerLifecycle`

One action per step of `create` and `delete`, in the order of the code; `pc` is
the step the current call is at, or how the last call ended. A single `pc` is
enough because the engine serialises calls about one container. Every other
actor (entrypoint, guest, exec, `prepare.sh`, user, host) has actions of its own
that interleave with the steps.

| variable | code |
|---|---|
| `opts` | the custom options, the engine, the read-only flag, whether the image is bootable |
| `hostKey` | `~/.ssh/id_rsa(.pub)` of the user |
| `files` | `crun-vm/create-ran`, `image/image`, the mknod'ed node, `crun-vm/ssh-successful` |
| `disk` | the user's image, `image-overlay.qcow2`, the converted image |
| `keyIn` | the key in `root/.ssh` and in the two first-boot configurations |
| `xml`, `defined` | `domain.xml` (absent, partial, generated, merged) and libvirt's copy of it |
| `mnt` | how many mounts are stacked on `crun-vm/image`, on the image file, on `root/.ssh` |
| `crun`, `vm`, `prepare` | the container in crun, the VM, the conversion |
| `first`, `pubKey`, `rootKnown` | the locals `is_first_create`, `ssh_pub_key`, `root_path` |

| actions | code |
|---|---|
| `Validate` | `mod.rs:36-43`: all checks before the first effect |
| `SetUpContainerRoot`, `IsFirstCreate` | `mod.rs:210-276`, `:193-208` |
| `LinkImage`, `MountImage`, `BindImage`, `CreateOverlay` | `set_up_vm_image`, both branches |
| `SetUpDevices` | the mknod of `mod.rs:525` |
| `MountUserSshDir`, `GenerateKeyPair`, `ReadOldKey` | the branches of `set_up_ssh_key_pair` |
| `ApplyToCloudInitConfig`, `ApplyToIgnitionConfig`, `GenerateDomain`, `MergeOverlays` | `mod.rs:90-93`: first create only |
| `CrunCreate`, `SpawnPrepare` | `mod.rs:95-126` |
| `GetRootPath`, `CrunDelete`, `Umount`, `Unmounted` | `delete.rs:13-44`, `util.rs:182-188` |
| `Fail` | every `?` and every way to be killed: the call ends at the step it is at |
| `Start`, `Boot`, `EntrypointEnds`, `Stop`, `ExecConnects` | `start`, `entrypoint.sh`, the end of the container, `exec.sh:61-67` |
| `GuestWrites`, `HostKeyChange`, `Reboot` | guest, user, host |
| `PrepareDelivers`, `PrepareDies` | the conversion as seen from here; its inside is `BootcConversion` |

Decisions worth knowing:

- *A failed step has no effect except for `domain.xml`.* The steps are cut so that
  each has one lasting effect. What is left of a failing write matters only where
  a later call reads it; that is `domain.xml`, which is written, read back, merged
  and written again in place, and may therefore stay as it was or be truncated.
  An overlay that `qemu-img` left half made is covered too: no later create makes
  or boots one without the `domain.xml` that is written after it.
- *The image's own bind mount is invisible to `is_mountpoint`.* Both the file and
  its directory are on one overlayfs and report one device (`util.rs:63`). So
  `BindImage` stacks and `Umount` never sees it; the lazy unmount of the directory
  (`MNT_DETACH`) takes it along, which is what `Detach` says.
- *The user's keys change only while `~/.ssh` is not a lower layer of a mounted
  overlay*: overlayfs leaves the effect of such a change undefined.
- *`crun create` is not the end of create.* It may succeed and the call still fail, or
  be killed, before it returns (`SpawnPrepare`, which for all but the first create of
  a bootable container does nothing else), so a retry may find the container there;
  crun refuses it.
- *Crun's state is in `/run`*, mounts are in the kernel: a host restart loses both
  and keeps the private directory.
- *The engine does not retry without end.* `CallCreate` requires every stack of
  mounts to be below `MaxMounts`. This bounds TLC's state space; the proofs do not
  depend on its value.

### 2.3 `BootcConversion`

All variables are functions of the container. `pr[c]` is the step of `prepare.sh`,
`ep[c]` that of the entrypoint up to line 72, `ct[c]` the container's state;
`fifo`, `config`, `installed`, `qcow2`, `success`, `image` are the files; `built`
is what each conversion left in the engine's storage and `found` what
`prepare.sh:63` got from there.

- *The pipe.* Both `open`s block until the other side comes (`Rendezvous`); with a
  writer already there, as after a restart, the reader's returns at once
  (`OpenAgain`). `cat` ends when the last writer does (`ReadToEnd`). A line written
  without a reader is a SIGPIPE, which ends the script (`BrokenPipe`), and
  `prepare.sh` itself is not stopped with its container.
- *The engine* answers `container inspect` only when no create of that container is
  under way (the comment at `mod.rs:103-105`).
- *krun* exits successfully whatever happened in it, so only
  `bootc-install-success` tells. `qemu-img convert` would happily convert an
  unfinished `image.raw`; that is why `Convert` depends on `installed`.
- *Any command may fail* (`CommandFails`), and errexit ends the script, or it is
  killed, also while it waits to open the pipe; a retrieval or a conversion may leave
  part of an image under its final name.
- *`create`* is two steps here, the files it writes (among them `config.json`, anew
  at every create) and its return. Creates that fail are `ContainerLifecycle`'s
  subject.
- *Every restart here is a create of the same container*; `MaxStops` bounds them.
- *Other containers' past.* The containers in `Earlier` are removed, and the cache may
  have kept a complete image of each. That is all that matters of them (conversions
  leave nothing else in the engine's storage, and `OnlyCompleteCached` is what makes
  these images complete); it lets a conversion find none, one or several images
  without running several conversions before it.

*`ImageSupply`* is where this module and `ContainerLifecycle` meet. Three actions: a
conversion is spawned, once; it delivers the image, once; or it is given up. The image is
there or not, never in part, and does not go away. `BootcConversion` implements it
with "under way" for everything between the spawn and the entrypoint's `mv`;
`ContainerLifecycle`, whose `PrepareDelivers` and `PrepareDies` stand for all that,
implements it with its variable `prepare`. So what the one takes for granted is what the
other is proved to deliver.

### 2.4 `VmRun` and `Entrypoint`

`VmRun` says what a run of the container may do with its VM: launch it at most once,
and end when the VM is off, unless the end was *forced*. It is the meeting point of
two modules: `Entrypoint` implements it, `Exec` builds on it.

`Entrypoint` has one action per command of `entrypoint.sh` that matters; `pc` is the
command the script is at. The other actors are virsh in the background, libvirt's
daemon, the guest, the user at the console, and the engine.

| actions | `entrypoint.sh` |
|---|---|
| `SetTrap`, `CleanLocks`, `StartDaemons` | lines 4, 10-19, 33-41 |
| `NeedImage`, `SeeFifo`, `CatEnds`, `MoveImage`, `NoImage` | 58-72, the entrypoint's side of `BootcConversion` |
| `Define`, `DefineFails` | 88-90 |
| `Launch`, `SetShutdownTrap`, `WaitReturns` | 76-84 and 110, 111, 112 |
| `TermEarly`, `TermShutsDown` | the two traps, lines 4 and 111 |
| `Request`, `CheckOff`, `CheckOn`, `RequestAgain` | `__shutdown`, 93-104 |
| `VirshStarts`, `ConsoleCloses`, `Detach` | `virsh start --console` |
| `LibvirtdDies`, `GuestUp`, `GuestHalts`, `VmEnds`, `GuestReboots` | libvirt and the guest |
| `Start`, `Sigterm`, `Sigkill`, `End` | the engine and the kernel |

- *Signals.* `term` is a SIGTERM that bash has not looked at. With one pending no step
  of the script is taken but the trap; `wait` is interrupted by it, `cat` is not, and
  while a trap runs bash does not look at a second one. The kernel drops a SIGTERM
  that process 1 has no handler for, which is so before line 4.
- *`__shutdown` cannot fail.* It sets errexit, but is called on the left of `||`, where
  bash ignores errexit. So a failing virsh ends nothing: with the daemon dead the loop
  goes on until the engine kills the container.
- *`domstate` says 'shut off' also of a domain not started yet.* A SIGTERM at line 112
  before virsh has started the VM therefore ends the script at once; `ran` remembers
  whether there was a VM to shut down.
- *Locks.* That libvirt's daemons do not start over the locks of a killed run is
  libvirt's behaviour as the comment at line 10 has it, not something in this
  repository.
- *`obeys`* is whether the guest reacts to the power button at all; a guest that boots
  may miss it either way. `MaxReboots` bounds the guest's reboots in one run.

### 2.5 `Exec`

`Call` and `CallContainer` are `commands/exec.rs`: which time limit counts, that one in
the environment that is no number is refused, and whether `exec.sh` is involved. Then
follow the steps of `exec.sh`: look at the clock (`TimedOut`, `Attempt`), the answer of
ssh (`Answer`), and what is made of it (`Retry`, `GiveUp`, `GetThrough`); then the
command (`StartCommand`, `CommandFails`, `CommandEnds`).

- *Answers of ssh* are told apart as the script does: one of the four errors that are
  ignored, another error, success, and a refused key, which counts as reached. A VM
  that is off cannot let anybody in, one that boots may have sshd before it has the
  key, one that is on may still be unreachable.
- *Time.* `left[e]` is what is left until `end_time`. A sleep takes at least a unit of
  it, an attempt any amount, also none. `MaxLimit` bounds the limits, not the time
  that passes: nothing happens to an exec without a limit.
- *The container.* Execs go with it (`result = "gone"`), and the create that begins the
  next run removes the marker (`MarkerRemoved`).

### 2.6 `GuestConfig`

One action per entry of the three lists that `create` goes through, with the refusals,
and the two ways to go on (`WriteConfig`, `KeepConfig`). Before them the engine is
detected and paths are translated for Kubernetes (`CallCreate`, `CreateRefused`);
after them crun makes mount points and libvirt checks the domain (`CrunCreate`,
`BootVm`, `BootFails`).

| definitions | code |
|---|---|
| `Engine`, `HostsRead` | `engine.rs:27-106`, in the order of its three tests; the first reads the source of `/etc/hosts`, the second looks for `.dockerenv`, and either may fail (`CreateRefused`) |
| `Translated`, `PathInHost`, `Findable` | `custom_opts.rs:125-168` |
| `Fate` and the actions of the mounts | `mod.rs:408-502`; what becomes of a mount depends on its type, its target and on what the host has at its source *now* |
| `AttachDevice`, `MknodFails` | `mod.rs:504-542` |
| `AttachBlockdev`, `RefuseBlockdev` | `mod.rs:544-588` |
| `TypesKept` | `domain.rs:123-124`: `domain.xml` says of each disk whether it is a file or a block device; if that has changed since, QEMU may refuse it (`BootFails`) |
| `Disks`, `DevName`, `VcpuCount` | `domain.rs:104-150`, `:308-333` |
| `FirstBoot`, `Links` | `first_boot.rs:90-193` (cloud-init) and `:346-426` (Ignition), which say the same; `:438-469` |

- *A path is the sequence of its names*; prefixes are what `starts_with` compares.
- *The host* is a function from paths to kinds of file. It may change between any two
  steps, within what a file system can be (`Possible`), `MaxChanges` times.
- *Places persist.* `nodes` is what `crun-vm/mounts/block` in the container's root has
  from earlier creates: device nodes, and the empty files crun made to mount on.
  Both stop a later mknod.
- *What the guest sees* (`DisksSeen`, `DirectoriesSeen`) follows the chain: path in the
  guest, serial or tag, place in the container, source. `Exposed` is what the user asked
  for, without any numbers: of each `--blockdev` option the target as it was given
  (`docs/5-crun-vm.1.ronn:93-94`: a path in the VM), and the source as a path of the
  host. `TargetsKept` says that `from_spec` left the targets alone.
- *A disk's format* is `raw` or the option's, the same at every create, and left out.

### 2.7 `DomainMerge` and `MergeMeaning`

`DomainMerge` has `set_up_libvirt_domain_xml` with its loads and saves, and in
`MergeWith` what `merge` makes of one element of each tree, built of `Attributes`,
`TextOf`, `Kept` and `Added` as the function is. An element has a name, attributes, a
text and elements. The function goes through elements and texts as they come;
but of texts it keeps the base's or the overlay's, all or none, and of the base's
elements each at its place. So the order of the elements is what it is without the texts,
the text is one or the other's, and what is left out is between which elements the
pieces of a text are. A text is either white space (`Blank`) or says something, which is
what `trim` tells apart.

What becomes of the children that both elements have (`ToMerge`) is a parameter of
`MergeWith`. `Merge` of `MCDomainMerge` calls itself for them, as the function does;
`MergeElement`, by which `domain.xml` is merged, leaves them to the constant operator
`MergeChild`, for which the run's `.cfg` gives `Merge`. So what TLC runs is the recursive
function, while `DomainMerge` and `MergeMeaning` are without recursive operators, which
tlapm does not take. That `MergeChild` is `merge` again is, for the proofs, the condition
`MergedAllTheWay`.

What merging is to mean is said in `MergeMeaning` without merging, of places in a
tree. A place is told by the way to it from the root: by positions (`At`), which tells
every element, or by names (`Called`), of which one takes the first child each time, as
`get_child` and most readers of XML do. `Counterparts` are all elements of a set of files
that have the same names above them and themselves as an element at a place.

## 3. The runs

| run | instance | question | result |
|---|---|---|---|
| `lifecycle` | 16 containers, 2 user keys, `MaxMounts = 2`, fairness | the 11 properties of `ContainerLifecycle` | all hold |
| `bootc` | 2 containers of one image, 1 stop each, up to 2 images of earlier ones, fairness | the 8 properties of `BootcConversion` | all hold |
| `entrypoint` | 1 container, any number of runs, 1 reboot of the guest in each, fairness | the 6 properties of `Entrypoint` | all hold |
| `exec` | 2 execs, limits up to 2, any number of runs, fairness | the 5 properties of `Exec` | all hold |
| `guest_config` | 7 configurations, 3 paths of the host, 2 changes of it, 4 disk names, words up to 7 | the 4 properties of `GuestConfig` | all hold |
| `domain_merge` | all small domains and files, 1 or 2 files | the 6 properties of `DomainMerge` and `MergeMeaning` | all hold |
| `leaked_mounts` | a plain container | does delete always clean up mounts? | no |
| `unmerged_xml` | a container with `--merge-libvirt-xml` | is the XML merged before the VM is launched? | no |
| `key_changed` | a plain container | is the key exec offers always authorised? | no |
| `device_restart` | a container with a block device | can it be restarted? | no |
| `bootc_hangs` | 1 container, 1 stop | does the wait for the image end once there is one? | no |
| `bootc_twins` | 3 containers | can whoever finds a cached image use it? | no |

### 3.1 Bounds, and why they are enough

- `OptionSet` has a container for every option and engine, alone and in the pairs
  that interact (`MCContainerLifecycle.AllOptions`), among them one for each check
  that may refuse a container. Options never change, so no behaviour needs more
  than one.
- `HostKeys = {k1, k2}`: enough for "none, then one", "one, then none" and "one,
  then another"; keys are only compared.
- `MaxMounts = 2`: a create starts with at most one mount on each mount point and
  may add one, so stacks of two occur, the least where `while` and `if` differ in
  `ensure_unmounted` (the mutant `AfterUmountOnce` shows the case happens).
  Creates, deletes, restarts and failures are otherwise unbounded.
- Two converting containers are the least that share the cache; two `Earlier` ones let
  each find two images, or three. `Label` is one image: containers of different
  images never see each other's.
- `MaxStops = 1`: one stop at any point of the conversion, with the restart that
  follows. A conversion happens once, so that a second stop meets states that the
  first could have met.
- `MaxReboots = 1`: one reboot, at any point, between the power button and the end of
  the VM is what distinguishes asking once from asking again. Runs are unbounded, so
  that every run starts from whatever an earlier one may leave.
- `Execs`: two, of which one reaches the guest and the other profits. `MaxLimit = 2`:
  a limit that one attempt and one sleep use up, and one that lasts for a second try.
- `MCConfigs`: each way from a mount, device or blockdev to the guest, alone and after
  one of another sort, since only the numbers before it matter; each engine; each
  refusal. `MCHostPaths` has a path below another, as the translation needs. Of the two
  under Kubernetes with a `--blockdev`, one has a mount at its own path, so that the
  target is translated into itself, and the other a target that becomes another path.
  `Letters = 4` is enough for the image, the ISO and two disks, and there are
  configurations with none to three.
  `MaxWord = 7` makes the sum of quota and period overflow. `MaxChanges = 2`: a path
  changes and changes back.
- `MCInputs`: domains of up to two elements and files of up to two, with and
  without attributes and texts, equal or different names, at the top and one level
  deeper. Two files are the least where order matters. `MCPlaces` and `MCNamePlaces` are
  all ways to their elements: no merged domain has more than two levels below the root,
  or four elements on one. For other depths and sizes there are the theorems of 4.6.

`CHECK_DEADLOCK FALSE` is said of `BootcConversion` and `DomainMerge`. In the first,
with the stops used up and all containers up or stopped for good, there is nothing
left to do; the second is one sequential run that ends. The container of the other
modules can always be deleted, killed or created again.

### 3.2 Fairness, and why the code justifies it

Weak fairness for the steps of a call that was made, and for the entrypoint's:
they are processes that the scheduler runs and that wait for nobody in these
steps. In `BootcConversion` also for `prepare.sh`, for `create`'s return, and for
`start` (both engine operations `run` and `start` follow a create by a start). In
`Entrypoint` for the script, virsh, and a guest that boots or halts, which comes up or
goes down; in `Exec` for `exec.sh`. `GuestConfig` and `DomainMerge` have safety
properties only.

There is no fairness for calls (nobody must create or delete), for failures, for
kills, for ssh returning, for the conversion as `Entrypoint` sees it, for the user or
the host, nor for whether a guest reacts, which is `obeys`. Above all, `StopHonoured`
does not count on the engine's SIGKILL. Where a step waits (`Rendezvous`, `Inspect`),
fairness says only that it is taken if it stays possible.

### 3.3 What each property says

*Lifecycle.* `BootsFullyProvisioned`: whatever creates failed before, a running VM
has a disk, the mount under it and the same key in both configurations.
`RandomKeyAuthorised`: with a generated key, exec's key is the guest's, whatever
the user does with `~/.ssh`. `CleanAfterDelete`: a delete that found the root
leaves no mount, however many were stacked. `MountsMatchContainer`: while crun has
the container the image is mounted once, and the bind mount of `--persistent` is
there. `RestartRepeatable`: a complete container with the generated key pair finds it
at every later create. (With the user's own, or with `--device`, a later create may be
refused: `mod.rs:779` and section 5.)
`UserImageUntouched`: the
user's file is written only with `--persistent` and a writable root.
`DiskSurvivesRestart`: no step takes back what the guest wrote. `ImplementsVmInstance`: the refinement. `CallsReturn`,
`StartedBoots`: liveness.

*Bootc.* See 1.3; each property is stated beside its definition. `ConversionHeard`: a
container that was not stopped, and has its pipe, comes up or ends, whichever step of
the conversion fails, unless `prepare.sh` was killed before the two had opened the pipe
(`NobodyComes`, see section 5).

*Entrypoint.* `GracefulShutdown`: if a VM ran when the SIGTERM was looked at, the
script that ends in `__shutdown` ends with the VM off, also if virsh fails or the
guest reboots meanwhile. `Restartable`: the script fails in no run, whatever the last
was killed at, unless libvirt's daemon dies. `ImplementsVmRun`: one launch per run, and
no end over a running VM that was not forced. `StopHonoured`: a SIGTERM at any line but
`cat` ends the container by itself if the guest reacts to power buttons, if not to
every one. `VmEndEndsContainer`: no SIGTERM, however late, keeps a container whose VM
is off.

*Exec.* `TimedOutNotRun`, `ReachedBefore`, `BootIsWaitedFor` as in 1.3.
`LimitEndsRetries`: an exec with a limit does not try for ever, unless one attempt of
ssh does not return, to which the limit does not apply.

*GuestConfig.* `GuestSeesConfig`: in every run of a container, also after later creates
that number anew what they find, following what the first create wrote leads from the
path of each shared directory and file to its source, unless this mount or one before it
has become of another sort since (`SameSorts`, see section 5). If none has (`found =
told`), and no target was translated (`TargetsKept`), it leads from the paths the user
asked for, `--blockdev` included, to what they asked for there, and there are no others.
`DiskNamesDistinct`: names are distinct up to the number of letters and never beyond.
`VcpusFitQuota`: the fewest CPUs that can use up the quota.

*DomainMerge.* `AllOrNothing`: a refused file leaves the generated domain.
`BaseKept`, `OnlySaidChanges`: whatever the files say, also with repeated names, each
generated element is at its place in the end, with its name, its attributes and a text
if it had one, and no attribute or text in it is another than its own or one that a file
has in an element with the same names above it and itself. `OverlaysWin`: who takes the first child of each name finds
an element if the domain or a file has one there, and in it what they say, the later one
winning. `OnceIsEnough`: merging a file again changes nothing at a place, if no element
of the file that is merged on the way there has two children of one name.

`PROJECT.json` gives for each property a plausible bug (an operator of the model
that leaves out a check, or does things in another order) under which TLC finds
the property violated in the same run.

## 4. The proofs

### 4.1 One container

`ContainerLifecycle_proofs` is checked by TLAPS (SMT, Zenon, LS4) and holds for
every set of user keys, every set of options and every bound. Its assumptions are
the three that `ContainerLifecycle` names: `KeysAssumption` (the generated key is
not one of the user's, and "no key" is not a key), `OptionsAssumption` (the
containers have options of the right type), `BoundAssumption` (the bound is a
positive number).

| theorem | says |
|---|---|
| `TypeCorrect` | `Spec => []TypeOK` |
| `Invariance` | `Spec => []IInv`, the inductive invariant |
| `ProvisionedCorrect`, `RandomKeyCorrect`, `DeleteCorrect`, `MountsCorrect`, `RestartCorrect`, `MarkerCorrect`, `UserImageCorrect` | each safety invariant of the run `lifecycle`; and `MarkerFresh` |
| `DiskCorrect`, `ConversionCorrect` | `DiskSurvivesRestart`, and `ConvertedOnce`: a conversion that ended is never started again |
| `Refinement` | `Spec => ImplementsVmInstance` |
| `SupplyRefinement` | `Spec => ImplementsImageSupply` |

*Why an inductive invariant is needed.* `BootsFullyProvisioned` speaks of a
running VM, but what makes it true happened in an earlier call, perhaps several
failed calls ago. `IInv` is the argument:

1. `Control`: which steps a container of given options goes through, and that steps
   for the first create are taken in one only;
2. `Ahead`: while the first create is at a step, everything later is untouched, and
   before the marker everything is;
3. `Behind`: what lies before the step is done; and a `domain.xml`, in whatever
   state, is evidence of everything written before it, because it is written last.
   This is the point of the argument: a retry after a failed first create cannot
   boot unless the first create got as far as `domain.xml`, and then it had the
   disk and the keys;
4. `RandomKeys`: where the user's key is not wanted, every place has the generated
   one or none;
5. `Mounts`: how create puts up mounts and delete takes them down, step by step,
   with at most one mount of the image at any time;
6. `Marker`: exec's marker is gone from the beginning of a create until a VM runs.

There is one lemma per part, with one step per action, and `IInvStep` puts them
together. The refinement maps `disk[DiskFile]`, the key in the Ignition
configuration and `vm`; each action maps to one action of `VmInstance` or to a
stutter, and the guards of `VmInstance!Boot` and `VmInstance!Personalise` are
`Behind` and `Ahead`.

Three more theorems are about promises of the documentation that the runs of section 5
refute. Each says that the promise does hold of every behaviour in which one thing never
happens; so that is all that stands between the code and the promise.

| theorem | the promise | holds if |
|---|---|---|
| `MergedUnlessCut` | `MergedXmlUsed` | no create ends between generating `domain.xml` and having merged it (`MergeRuns`) |
| `AuthorisedUnlessChanged` | `KeyAuthorised` | the user does not make, replace or remove the key pair (`KeyStays`) |
| `NoMountUnlessCut` | `DeleteLeavesNoMount` | a create that mounts something reaches crun, and a delete learns the root and gets through (`CreateReachesCrun`, `DeleteGetsThrough`) |

Everything else may happen in these behaviours: any other failure, restarts of the
container and of the host, any guest. Each condition is an action property, and the proof
an invariant of its own on top of `IInv` (`Merged`, `OneKey`, `Accounted`).

### 4.2 The conversion

`BootcConversion_proofs` holds for any set of containers, of any images, and any
number of stops (`StopsAssumption`: the bound is a natural number).

| theorem | says |
|---|---|
| `TypeCorrect`, `Invariance` | `Spec => []TypeOK`, `Spec => []IInv` |
| `ImagesCorrect`, `CacheCorrect`, `HandOverCorrect`, `SuccessCorrect` | each safety invariant of the run `bootc` |
| `ConversionCorrect` | `Spec => ConvertsOnce` |
| `SupplyRefinement` | `Spec => ImplementsImageSupply` |
| `UsableUnlessTwins` | `Spec /\ CachedOnce /\ []OneAtATime => []CacheUsable` |

None of the invariants is inductive: the entrypoint tests `success` and then moves a
file it has never looked at, and `prepare.sh` builds a cached image from a file the
entrypoint may move. `IInv` adds one part for each meeting. `Pipe`: with the reader
past the opening of the pipe the writer is too, and with the reader past the end of
file the writer has ended, so that nobody builds from the file any more; this rests
on there being one `prepare.sh` per container. `Made`: at each step of `prepare.sh`
what has been found, installed or converted is complete, because its failures end the
script, and success is reported of such an image only. `Handed`: the entrypoint
waits only while it has no image, and moves one only after success.

The refinement needs one more, `Delivered`: a container has an image only since its
conversion reported success. With it no step of `prepare.sh` moves the supply but one
that ends in failure (`PrepareMoves`), and `MoveImage` is `Deliver`: the image that is
moved is whole, and the container has none yet.

`UsableUnlessTwins` is about what the run `bootc_twins` refutes: whoever finds an image
in the cache can use it. It holds if the cache does not have an image twice to begin with
(`CachedOnce`) and no two containers of one image are between looking into the cache
and adding to it at the same time (`OneAtATime`). It needs that what a conversion does not
find is still not there when it adds its own (`NotCached`).

### 4.3 The entrypoint

`Entrypoint_proofs` holds for any bound on reboots (`RebootsAssumption`: it is a natural
number).

| theorem | says |
|---|---|
| `TypeCorrect`, `Invariance` | `Spec => []TypeOK`, `Spec => []IInv` |
| `ShutdownCorrect`, `RestartCorrect` | each safety invariant of the run `entrypoint` |
| `WaitCorrect` | `Spec => []LastsAsLongAsVm` |
| `Refinement` | `Spec => ImplementsVmRun` |

The script decides by what it knows (where it is, whether virsh is still there, what
domstate says), the properties speak of the VM. `IInv` ties them together in three
parts: `Script`, what a position in the script says of what was started; `Launched`,
what the state of virsh says of the VM (nothing runs before virsh started it, and its
end is news of the VM's unless the daemon died); `Leaving`, what is true once the
script has decided to end. The refinement maps `launched` to "virsh is past starting"
and `forced` to the ends that are not of the script's own course.

### 4.4 Exec

`Exec_proofs` holds for any set of execs, any limit (`LimitAssumption`: natural) and any
two values for "no limit given" and "no number" that are not limits
(`UnsetAssumption`). `TypeCorrect`, `TimeoutCorrect`, `MarkerCorrect` and
`WaitingCorrect` state `TypeOK`, `TimedOutNotRun`, `ReachedBefore` and
`BootIsWaitedFor`. The invariant says of each exec what it may conclude from where it
is (`Known`), and of the marker that the guest was reached in this run; the latter is
what lets an exec that skips the waiting rest on another's experience.

### 4.5 The guest's configuration

`GuestConfig_proofs` holds for every set of configurations (`ConfigsAssumption`: lists of
mounts, devices and blockdevs, a quota and a period), every set of paths, every number
of letters and CPUs and every word (`NumbersAssumption`). `TypeCorrect`,
`DiskNamesCorrect` and `VcpusCorrect` state `TypeOK`, `DiskNamesDistinct` and
`VcpusFitQuota`. `Sizes` says that the lists grow with the index, `OneEach` that each
number has one file, `Written` what the first create wrote, which no later one changes.
The rest is arithmetic: a remainder repeats only after `Letters` names (`NamesRepeat`),
and a quotient rounded up is the least that suffices (`RoundedUp`).

`GuestView_proofs` builds on it and proves `GuestSeesCorrect`, `Spec =>
[]GuestSeesConfig`, for every configuration and after any number of creates, whatever
changes on the host before, between and during them. What it says depends on those
changes, as 3.3 has it: a change of what a path leads to disturbs nothing; a change of
sort disturbs the mounts from there on, and no mount before it; and where none has
changed its sort, each path of the guest leads to what the user asked for and there are
no other paths, if `from_spec` kept the targets. `GuestSeesGiven` is the last part
without that condition, about the options as `from_spec` returns them. This is hard
because three functions in two files number the same things, and because the numbers
that the guest goes by were made by another create than the mounts it sees. The
invariant therefore does not repeat the code's counting. It says what the numbers mean:

1. A mount, device or blockdev option is a *thing*; `Attached` and `Shared` are the
   things that become disks and directories of the guest. The `Number` of a thing is
   how many of them come before it (`NewThing`, `NumbersDistinct`: a new last thing has the
   next number and changes no other).
2. `MadeSoFar`: the lists of the current create have each thing it has been through at
   its number (`Listed`), and so do the mounts of the container and the device nodes
   (`Placed`, `Made`), apart from nodes that an earlier create left at numbers not reached.
3. `Told`: `domain.xml` and the first-boot configuration have what the first create
   found, by its numbers, and no create after it changes that.
4. If this create found what the first found (`found = told`), then both are about the
   same things with the same numbers, and the chain from a path of the guest over serial
   or tag and place leads to the thing's own source, and nowhere else (`DisksRight`,
   `DirectoriesRight`). `GivenThings` shows that what create is given is exactly those
   things, and `GivenAsAsked` that it is what the user asked for if the targets are kept.
5. If it found the same only of the first mounts, then these have the same numbers all
   the same, since a number counts only what comes before (`BeforeMount`, `NumbersKept`),
   and for each of them the chain holds by itself (`DiskSeen`, `DirectorySeen`).

Both theorems need one assumption more than the run did: `PlacesAssumption`, that a mount
which is neither a bind nor a tmpfs is not below `/crun-vm` in the container. Such a
mount is passed on to crun as it is (`mod.rs:408-502`) and could cover a place that create
gives to a source. Engines put only `/proc`, `/sys`, `/dev` and what is below them there;
nothing of theirs is in `/crun-vm`, which is crun-vm's own directory. Binds and tmpfs,
which are what users ask for, may be anywhere, and the theorem says that they do no harm;
a user who has an engine mount something more unusual (say, a devpts) in `/crun-vm` is
outside of it, as is one whose engine mounts by itself there.

### 4.6 The merge of domain.xml

`DomainMerge_proofs` holds for any domain, any list of files of any contents, and whatever
`MergeChild` is (`InputsAssumption`: what generate writes is a `<domain>`, and a list of
files is a list).

| theorem | says |
|---|---|
| `TypeCorrect`, `Invariance` | `Spec => []TypeOK`, `Spec => []IInv` |
| `AllOrNothingHolds` | `Spec => []AllOrNothing`: a refused file leaves the generated domain |
| `RootsCorrect` | `Spec => []RootOverridden`: each attribute of the root is as the last file says that has it, and else as it was generated; and there are no others |

`IInv` says what is in `domain.xml` at each place of the function (`Written`), and what the
attributes of `base_root` are after the files so far (`Roots`); the step of a merge is the
lemma `RootMerged`, which rests on what one element merged with another is (`MergeRoot`).

`MergeMeaning_proofs` goes all the way down. Its theorems state the four properties of
`MergeMeaning`, for trees of any depth, any number of files and any places
(`PlacesAssumption`: ways are sequences of numbers or names):

| theorem | says |
|---|---|
| `BaseKeptHolds` | `Spec => []BaseKept` |
| `OnlySaidChangesHolds` | `Spec => []OnlySaidChanges` |
| `OverlaysWinHolds` | `Spec => []OverlaysWin` |
| `OnceIsEnoughHolds` | `Spec => []OnceIsEnough` |

All four are about a set `U` of trees that has all domains and files (`InputsAmong(U)`)
and in which merging is what it is in the code (`MergedAllTheWay(U)`): children of trees
are trees, two trees merged are one, and `MergeChild` is `MergeElement` again. The set of
all finite trees is such a set, with the recursive `merge` for `MergeChild`, which
ends on them; and TLC evaluates `MergedAllTheWay(Trees)` for a set of small ones as an
assumption of `MCDomainMerge`.

The argument:

1. *Induction.* The library's induction rules cannot be used (an operator is their
   parameter), but that every set of numbers has a least member can (`Least`, from
   `WFMin`). It gives induction over a set of numbers (`Induction`), and that a function
   defined by recursion over them is one (`OneIteration`), so that the ways of
   `MergeMeaning`, and `Added`, are what they look like (`WayIs`, `ChildIs`, `NameWayIs`,
   `CounterpartsAre`, `AddedIs`).
2. *One element.* `MergeIs` says what one tree merged with another is. What is found below
   it, at a position (`MergedChildAt`) or as the first of a name (`MergedChildCalled`),
   is again a tree merged with another, or a child of one of the two.
3. *One merge.* Induction along a way carries this to all places: the element there is
   what was there merged with at most one counterpart (`MergedWay`, `MergedCalled`), and
   a file merged again meets itself (`AgainBelow`, `AgainSame`).
4. *All files.* `doc` after the files so far is an invariant of `merge_overlays`:
   `DocDerives` for `BaseKept` and `OnlySaidChanges`, `DocSays` for `OverlaysWin` and
   `DocHasLast` for `OnceIsEnough`. Once it is done, `domain.xml` is `doc` (`AtTheEnd`).

### 4.7 Only model-checked

The liveness properties (`CallsReturn`, `StartedBoots`, `PrepareReturns`,
`ConversionHeard`, `StopHonoured`, `VmEndEndsContainer`, `LimitEndsRetries`): fairness
and ENABLED are out of the provers' reach. The counterexamples of section 5 are TLC's, and
that the recursive `Merge` of `MCDomainMerge` ends and satisfies `MergedAllTheWay` is
evaluated for small trees only.

Whatever safety property or refinement a passing run checks is a theorem.

## 5. What the models found

Each of the following is a run that ends in a counterexample. For the first three and the
last, a theorem says what keeps the promise (4.1, 4.2).

- **Mounts that delete does not find** (`leaked_mounts`). `create` mounts the image
  and fails before `crun create`; `delete` asks crun for the root, gets an error
  that is ignored on purpose, and unmounts nothing, which is what the comment at
  `delete.rs:23` wants to spare the user.
- **An unmerged domain** (`unmerged_xml`). Cut short between writing `domain.xml` and
  merging the user's overlays into it, the first create leaves a valid file that
  the next create takes for final.
- **A key the guest does not know** (`key_changed`). The first create found no user
  key and generated one; the user then makes a pair; the next create mounts that.
- **Containers with devices do not restart** (`device_restart`): mknod on an existing
  node fails.
- **A wait without end** (`bootc_hangs`). The container is stopped after `success`
  and before the image is moved. The next entrypoint finds no image, and waits for
  a pipe that nobody writes to (or that is already removed).
- **Two cached images** (`bootc_twins`). Two simultaneous conversions of one image
  both miss the cache and both store; from then on the lookup yields two IDs, which
  are passed to `engine create` as one argument.

More follows from the models, or was met on the way, without a run of its own:

- A bootable container whose *first* create fails after the marker never has its
  conversion spawned (`mod.rs:102`), so its entrypoint polls for the pipe for ever;
  this is why `StartedBoots` excludes bootable containers.
- A restart while `prepare.sh` is between `:105` and `:110` rewrites `config.json` with
  the embedded template (`mod.rs:245`), so that krun is given placeholders; `RunKrun`
  has that branch, and the conversion then ends at `:113`.
- `prepare.sh` blocks in opening the pipe (`prepare.sh:19`) until the entrypoint comes.
  Killed meanwhile, it leaves the pipe there, and the entrypoint's `cat`, which waits for
  a writer, never returns. The same goes for one that dies before it makes the pipe, for
  which the entrypoint polls. `ConversionHeard` has these as its exceptions.
- `--blockdev` under Kubernetes: `custom_opts.rs:167` translates the target, too, into a
  path of the host, though `docs/5-crun-vm.1.ronn:93-94` calls it a path in the VM. The
  disk then appears in the guest at the host's path (`GuestSeesGiven`), and not where the
  user asked for it; and a target that is below no mount is refused. `GuestSeesConfig`
  compares with what the user asked for, and `TargetsKept` excludes these configurations
  from it. The run contains one.
- A source that changes its sort between two creates (a directory that has become a
  file) moves the numbers of all disks and directories after it, while guest and
  libvirt keep those of the first create: paths of the guest then lead to other
  sources. `GuestSeesConfig` says that the mounts before it are not disturbed. A file that
  has become a block device, or the other way round, keeps its number; but `domain.xml`
  has it as the other, and QEMU may refuse it (`TypesKept`).
- With the user's own key pair a later create is refused if the pair is gone
  (`mod.rs:750-780`): nothing is generated after the first create, and `container/ssh`
  has no copy.
- A SIGTERM between `entrypoint.sh:110` and `:111`, or at 112 before virsh has started
  the VM, ends the container at once; a VM that starts at that moment is cut off. A
  SIGTERM while `cat` waits for a conversion (`:64`) is not looked at before the
  conversion ends. If libvirt's daemon dies, `__shutdown` goes on until the engine kills
  the container.
- The time limit of exec applies neither to a single attempt of ssh nor to the command.
- In `merge_overlays`, an element of a file is merged into *every* element of its name
  (`domain.rs:223`), so that a `<disk>` in a file changes all disks, the image
  and the cloud-init ISO among them; of several elements of one name in the file, only
  the first counts where the domain has one (`:241`), and all are added where it has
  none. Given again, such a file merges its first into each of them. `OnceIsEnough` has the
  condition `Unambiguous` for this, and `OverlaysWin` speaks of the first of each name.
- An Ignition mount unit is named by putting `-` for `/` (`first_boot.rs:396-399`)
  without systemd's escaping: a mount at `/my-data` gets the name of `/my/data`'s unit,
  which systemd refuses because `Where=` is another path.

## 6. What is not modelled, and the plan

Modules, in the order they were written:

1. `VmInstance`, `ContainerLifecycle`, `ContainerLifecycle_proofs`: the core, since every
   other part acts on what it leaves behind.
2. `BootcConversion`, `BootcConversion_proofs`, `ImageSupply`: the only part with real concurrency
   between processes of crun-vm.
3. `VmRun`, `Entrypoint`, `Entrypoint_proofs`: signals.
4. `Exec`, `Exec_proofs`: the waiting for ssh, composed with `VmRun`.
5. `GuestConfig`, `GuestConfig_proofs`, `GuestView_proofs`, `DomainMerge`,
   `DomainMerge_proofs`, `MergeMeaning`, `MergeMeaning_proofs`: what the VM is given.

To come:

- `Entrypoint`'s side of the pipe (`SeeFifo`, `CatEnds`, `MoveImage`, `NoImage`) as an
  implementation of `ImageSupply`, too;
- `FirstBoot`: what the user's own cloud-init and Ignition configuration may contain and
  what becomes of it;
- a refinement from `Entrypoint` to the step from `Boot` to `Stop` of
  `ContainerLifecycle`.

Partly modelled:

- *Custom options*: the refusals and the translation of paths under Kubernetes are in
  the models (`cloud_init`, `ignition` and `merge_libvirt_xml` are translated like the
  blockdevs); how a command line is parsed is clap's, and whether its paths are absolute
  is one more refusal before the first effect.
- *First-boot configuration*: keys and when they are written, mounts, disks and links;
  not hostname, password and the merging with what the user brought, which is a
  function of two trees without state.
- *Mounting helpers*: mounting and unmounting; not SELinux labels, relabelling and the
  escaping of mount options, which are text.

Not modelled: memory size and CPU set of the domain, copied from the configuration;
extra mounts, rlimits and security settings of `config.json` (`mod.rs:590-689`,
`adjust_container_rlimits_and_resources`), fixed additions that nothing reads back; ISO creation, virtiofsd and passt, which are other
programs; the tests and utilities, scripts without state of the program; the build.
