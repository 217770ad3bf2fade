---------------------- MODULE ContainerLifecycle_proofs ----------------------
(***************************************************************************)
(* Theorems about ContainerLifecycle and their proofs.                     *)
(*                                                                         *)
(* IInv is the inductive invariant. What makes the invariants of           *)
(* ContainerLifecycle true is not visible in one state: a create that is   *)
(* not the first skips the steps that provision the VM, so everything      *)
(* rests on how far the first one came. IInv therefore says, for every     *)
(* step, what the first create has not touched yet (Ahead) and what it     *)
(* has (Behind), and ties domain.xml, the last thing written, to all that  *)
(* was written before it.                                                  *)
(***************************************************************************)
EXTENDS ContainerLifecycle, TLAPS

\* The steps of create from one on, in the order they are taken.
SpawnOn == {"spawn"}
CrunOn == {"crun"} \cup SpawnOn
MergeOn == {"merge"} \cup CrunOn
GenerateOn == {"generate"} \cup MergeOn
IgnitionOn == {"ignition"} \cup GenerateOn
CloudInitOn == {"cloud-init"} \cup IgnitionOn
SshOn == {"ssh"} \cup CloudInitOn
DevicesOn == {"devices"} \cup SshOn
MountedOn == {"bind-image", "overlay"} \cup DevicesOn
RootOn == {"marker", "link", "mount-image"} \cup MountedOn

\* Which steps are taken at all.
Control ==
  /\ pc \in {"link", "mount-image", "bind-image", "overlay"} => ~opts.bootc
  /\ pc = "bind-image" => opts.persistent
  /\ pc = "overlay" => ~opts.persistent
  /\ pc \in {"cloud-init", "ignition", "generate", "merge"} => first
  /\ pc \in CreateSteps => crun \in {"none", "created"}
  /\ pc \in UnmountSteps \cup {"deleted"} => crun = "none"
  /\ vm => crun = "running"
  /\ pc = "conflict" => opts.devices
  /\ pc \in RootOn \ {"marker"} => "create-ran" \in files

\* The first create is at a step: what comes later is untouched.
Ahead ==
  /\ first /\ pc \in {"link", "mount-image", "bind-image", "overlay"} =>
       disk["overlay"] = "none"
  /\ first /\ pc \in {"link", "mount-image", "bind-image", "overlay",
                      "devices", "ssh", "cloud-init"} =>
       keyIn["cloud-init"] = NoKey
  /\ first /\ pc \in {"link", "mount-image", "bind-image", "overlay",
                      "devices", "ssh", "cloud-init", "ignition"} =>
       keyIn["ignition"] = NoKey
  /\ first /\ pc \in {"link", "mount-image", "bind-image", "overlay",
                      "devices", "ssh", "cloud-init", "ignition",
                      "generate"} =>
       xml = "absent"
  /\ first /\ pc \in RootOn \ {"marker"} => prepare = "none"
  /\ "create-ran" \notin files =>
       /\ disk["overlay"] = "none"
       /\ \A p \in KeyPlaces : keyIn[p] = NoKey
       /\ xml = "absent"
       /\ prepare = "none"

\* ...and what comes earlier is done.
Behind ==
  /\ first /\ pc \in DevicesOn /\ ~opts.bootc /\ ~opts.persistent =>
       disk["overlay"] # "none"
  /\ pc \in {"cloud-init", "ignition"} => pubKey # NoKey
  /\ pc = "ignition" => keyIn["cloud-init"] = pubKey
  /\ pc \in {"generate", "merge"} \/ xml # "absent" =>
       /\ keyIn["cloud-init"] # NoKey
       /\ keyIn["ignition"] = keyIn["cloud-init"]
  /\ xml # "absent" /\ ~opts.bootc /\ ~opts.persistent =>
       disk["overlay"] # "none"
  /\ defined # "none" => xml # "absent"
  /\ vm => defined # "none" /\ ImageReady
  /\ ~opts.bootc => disk["user-image"] # "none"
  /\ disk["bootc-image"] # "none" => prepare = "done"
  /\ disk["user-image"] = "written" => opts.persistent /\ ~opts.readonly
  /\ ~(opts.readonly /\ opts.persistent) \/ ~vm
  /\ opts.readonly /\ opts.persistent =>
       /\ pc \notin CreateSteps \ {"validate"}
       /\ pc # "created" /\ crun = "none"

\* Where the user's key is not wanted there is only the generated one.
RandomKeys ==
  ~WantsUserKey =>
    /\ mnt["ssh"] = 0
    /\ keyIn["container"] \in {NoKey, GenKey}
    /\ keyIn["cloud-init"] \in {NoKey, keyIn["container"]}
    /\ pc \in {"cloud-init", "ignition"} => pubKey = keyIn["container"]
    /\ pc = "nokey" => keyIn["container"] = NoKey

\* What is mounted, as create goes up and delete comes down.
Mounts ==
  /\ mnt["image"] <= 1
  /\ mnt["image-file"] > 0 => mnt["image"] > 0
  /\ (pc \in MountedOn \/ crun # "none") /\ ~opts.bootc => mnt["image"] = 1
  /\ (pc \in DevicesOn \/ crun # "none") /\ ~opts.bootc /\ opts.persistent =>
       mnt["image-file"] > 0
  /\ pc \in {"unmount-file", "unmount-image"} => mnt["ssh"] = 0
  /\ pc = "deleted" /\ rootKnown => mnt["ssh"] = 0 /\ mnt["image"] = 0

\* The marker of exec is gone before crun has the container.
Marker ==
  pc \in RootOn \/ crun = "created" => "ssh-successful" \notin files

IInv ==
  TypeOK /\ Control /\ Ahead /\ Behind /\ RandomKeys /\ Mounts /\ Marker

-----------------------------------------------------------------------------
(* The inductive step, one lemma per part of the invariant.                *)

USE KeysAssumption, OptionsAssumption, BoundAssumption
USE DEF Keys, FileNames, DiskNames, KeyPlaces, MountPoints,
        CreateSteps, UnmountSteps, DeleteSteps, Outcomes,
        SpawnOn, CrunOn, MergeOn, GenerateOn, IgnitionOn, CloudInitOn, SshOn,
        DevicesOn, MountedOn, RootOn

\* No step takes a variable out of its set.
LEMMA TypeStep ==
  ASSUME TypeOK, [Next]_vars
  PROVE  TypeOK'
<1> USE DEF TypeOK
<1>1. CASE CallCreate
  BY <1>1 DEF CallCreate
<1>2. CASE Validate
  BY <1>2 DEF Validate, Accepted, OptionsValid
<1>3. CASE SetUpContainerRoot
  BY <1>3 DEF SetUpContainerRoot, StaleFiles
<1>4. CASE IsFirstCreate
  BY <1>4 DEF IsFirstCreate, FirstCreate
<1>5. CASE LinkImage
  BY <1>5 DEF LinkImage
<1>6. CASE MountImage
  BY <1>6 DEF MountImage, IsMountpoint, MountOver
<1>7. CASE BindImage
  BY <1>7 DEF BindImage, MountOver
<1>8. CASE CreateOverlay
  BY <1>8 DEF CreateOverlay
<1>9. CASE SetUpDevices
  BY <1>9 DEF SetUpDevices
<1>10. CASE MountUserSshDir
  BY <1>10 DEF MountUserSshDir, UseUserKey, AfterSsh, MountOver
<1>11. CASE GenerateKeyPair
  BY <1>11 DEF GenerateKeyPair, UseUserKey, AfterSsh
<1>12. CASE ReadOldKey
  BY <1>12 DEF ReadOldKey, UseUserKey, AfterSsh, VisibleKey
<1>13. CASE ApplyToCloudInitConfig
  BY <1>13 DEF ApplyToCloudInitConfig
<1>14. CASE ApplyToIgnitionConfig
  BY <1>14 DEF ApplyToIgnitionConfig
<1>15. CASE GenerateDomain
  BY <1>15 DEF GenerateDomain
<1>16. CASE MergeOverlays
  BY <1>16 DEF MergeOverlays
<1>17. CASE CrunCreate
  BY <1>17 DEF CrunCreate
<1>18. CASE SpawnPrepare
  BY <1>18 DEF SpawnPrepare
<1>19. CASE CallDelete
  BY <1>19 DEF CallDelete
<1>20. CASE GetRootPath
  BY <1>20 DEF GetRootPath
<1>21. CASE CrunDelete
  <2>1. /\ pc' \in CreateSteps \cup DeleteSteps \cup Outcomes
        /\ crun' \in {"none", "created", "running", "stopped"}
        /\ vm' \in BOOLEAN
    BY <1>21 DEF CrunDelete
  <2>2. UNCHANGED <<opts, hostKey, files, disk, keyIn, xml, defined, mnt, prepare,
                    first, pubKey, rootKnown>>
    BY <1>21 DEF CrunDelete
  <2> QED
    BY <2>1, <2>2
<1>22. CASE Umount
  BY <1>22 DEF Umount, IsMountpoint, UnmountTarget, NextUnmount, Detach,
      AfterUmount
<1>23. CASE Unmounted
  BY <1>23 DEF Unmounted, IsMountpoint, UnmountTarget, NextUnmount
<1>24. CASE Fail
  BY <1>24 DEF Fail
<1>25. CASE Start
  BY <1>25 DEF Start
<1>26. CASE Boot
  BY <1>26 DEF Boot, ImageReady
<1>27. CASE EntrypointEnds
  BY <1>27 DEF EntrypointEnds
<1>28. CASE Stop
  <2>1. crun' \in {"none", "created", "running", "stopped"}
    BY <1>28 DEF Stop
  <2>2. vm' \in BOOLEAN
    BY <1>28 DEF Stop
  <2> QED
    BY <1>28, <2>1, <2>2 DEF Stop
<1>29. CASE GuestWrites
  BY <1>29 DEF GuestWrites, DiskFile
<1>30. CASE ExecConnects
  BY <1>30 DEF ExecConnects
<1>31. CASE PrepareDelivers
  BY <1>31 DEF PrepareDelivers
<1>32. CASE PrepareDies
  BY <1>32 DEF PrepareDies
<1>33. CASE HostKeyChange
  BY <1>33 DEF HostKeyChange
<1>34. CASE Reboot
  BY <1>34 DEF Reboot
<1>35. CASE UNCHANGED vars
  BY <1>35 DEF vars
<1> QED
  BY <1>1, <1>2, <1>3, <1>4, <1>5, <1>6, <1>7, <1>8, <1>9, <1>10, <1>11,
     <1>12, <1>13, <1>14, <1>15, <1>16, <1>17, <1>18, <1>19, <1>20, <1>21,
     <1>22, <1>23, <1>24, <1>25, <1>26, <1>27, <1>28, <1>29, <1>30, <1>31,
     <1>32, <1>33, <1>34, <1>35
  DEF Next, CreateStep, DeleteStep, Environment, SetUpSshKeyPair

\* The order of the steps, and which of them a container goes through.
LEMMA ControlStep ==
  ASSUME TypeOK, Control, [Next]_vars
  PROVE  Control'
<1> USE DEF TypeOK, Control
<1>1. CASE CallCreate
  BY <1>1 DEF CallCreate
<1>2. CASE Validate
  BY <1>2 DEF Validate, Accepted, OptionsValid
<1>3. CASE SetUpContainerRoot
  BY <1>3 DEF SetUpContainerRoot, StaleFiles
<1>4. CASE IsFirstCreate
  BY <1>4 DEF IsFirstCreate, FirstCreate
<1>5. CASE LinkImage
  BY <1>5 DEF LinkImage
<1>6. CASE MountImage
  BY <1>6 DEF MountImage, IsMountpoint, MountOver
<1>7. CASE BindImage
  BY <1>7 DEF BindImage, MountOver
<1>8. CASE CreateOverlay
  BY <1>8 DEF CreateOverlay
<1>9. CASE SetUpDevices
  BY <1>9 DEF SetUpDevices
<1>10. CASE MountUserSshDir
  BY <1>10 DEF MountUserSshDir, UseUserKey, AfterSsh, MountOver
<1>11. CASE GenerateKeyPair
  BY <1>11 DEF GenerateKeyPair, UseUserKey, AfterSsh
<1>12. CASE ReadOldKey
  BY <1>12 DEF ReadOldKey, UseUserKey, AfterSsh, VisibleKey
<1>13. CASE ApplyToCloudInitConfig
  BY <1>13 DEF ApplyToCloudInitConfig
<1>14. CASE ApplyToIgnitionConfig
  BY <1>14 DEF ApplyToIgnitionConfig
<1>15. CASE GenerateDomain
  BY <1>15 DEF GenerateDomain
<1>16. CASE MergeOverlays
  BY <1>16 DEF MergeOverlays
<1>17. CASE CrunCreate
  BY <1>17 DEF CrunCreate
<1>18. CASE SpawnPrepare
  BY <1>18 DEF SpawnPrepare
<1>19. CASE CallDelete
  BY <1>19 DEF CallDelete
<1>20. CASE GetRootPath
  BY <1>20 DEF GetRootPath
<1>21. CASE CrunDelete
  BY <1>21 DEF CrunDelete
<1>22. CASE Umount
  BY <1>22 DEF Umount, IsMountpoint, UnmountTarget, NextUnmount, Detach,
      AfterUmount
<1>23. CASE Unmounted
  BY <1>23 DEF Unmounted, IsMountpoint, UnmountTarget, NextUnmount
<1>24. CASE Fail
  BY <1>24 DEF Fail
<1>25. CASE Start
  BY <1>25 DEF Start
<1>26. CASE Boot
  BY <1>26 DEF Boot, ImageReady
<1>27. CASE EntrypointEnds
  BY <1>27 DEF EntrypointEnds
<1>28. CASE Stop
  BY <1>28 DEF Stop
<1>29. CASE GuestWrites
  BY <1>29 DEF GuestWrites, DiskFile
<1>30. CASE ExecConnects
  BY <1>30 DEF ExecConnects
<1>31. CASE PrepareDelivers
  BY <1>31 DEF PrepareDelivers
<1>32. CASE PrepareDies
  BY <1>32 DEF PrepareDies
<1>33. CASE HostKeyChange
  BY <1>33, SMTT(30) DEF HostKeyChange
<1>34. CASE Reboot
  BY <1>34, SMTT(30) DEF Reboot
<1>35. CASE UNCHANGED vars
  BY <1>35, SMTT(30) DEF vars
<1> QED
  BY <1>1, <1>2, <1>3, <1>4, <1>5, <1>6, <1>7, <1>8, <1>9, <1>10, <1>11,
     <1>12, <1>13, <1>14, <1>15, <1>16, <1>17, <1>18, <1>19, <1>20, <1>21,
     <1>22, <1>23, <1>24, <1>25, <1>26, <1>27, <1>28, <1>29, <1>30, <1>31,
     <1>32, <1>33, <1>34, <1>35
  DEF Next, CreateStep, DeleteStep, Environment, SetUpSshKeyPair

\* What the first create has not come to stays untouched.
LEMMA AheadStep ==
  ASSUME TypeOK, TypeOK', Control, Ahead, Behind, [Next]_vars
  PROVE  Ahead'
<1> USE DEF TypeOK, Control, Ahead, Behind
<1>1. CASE CallCreate
  BY <1>1 DEF CallCreate
<1>2. CASE Validate
  BY <1>2 DEF Validate, Accepted, OptionsValid
<1>3. CASE SetUpContainerRoot
  BY <1>3 DEF SetUpContainerRoot, StaleFiles
<1>4. CASE IsFirstCreate
  BY <1>4 DEF IsFirstCreate, FirstCreate
<1>5. CASE LinkImage
  BY <1>5 DEF LinkImage
<1>6. CASE MountImage
  BY <1>6 DEF MountImage, IsMountpoint, MountOver
<1>7. CASE BindImage
  BY <1>7 DEF BindImage, MountOver
<1>8. CASE CreateOverlay
  BY <1>8 DEF CreateOverlay
<1>9. CASE SetUpDevices
  BY <1>9 DEF SetUpDevices
<1>10. CASE MountUserSshDir
  BY <1>10 DEF MountUserSshDir, UseUserKey, AfterSsh, MountOver
<1>11. CASE GenerateKeyPair
  BY <1>11 DEF GenerateKeyPair, UseUserKey, AfterSsh
<1>12. CASE ReadOldKey
  BY <1>12 DEF ReadOldKey, UseUserKey, AfterSsh, VisibleKey
<1>13. CASE ApplyToCloudInitConfig
  BY <1>13 DEF ApplyToCloudInitConfig
<1>14. CASE ApplyToIgnitionConfig
  BY <1>14 DEF ApplyToIgnitionConfig
<1>15. CASE GenerateDomain
  BY <1>15 DEF GenerateDomain
<1>16. CASE MergeOverlays
  BY <1>16 DEF MergeOverlays
<1>17. CASE CrunCreate
  BY <1>17 DEF CrunCreate
<1>18. CASE SpawnPrepare
  BY <1>18 DEF SpawnPrepare
<1>19. CASE CallDelete
  BY <1>19 DEF CallDelete
<1>20. CASE GetRootPath
  BY <1>20 DEF GetRootPath
<1>21. CASE CrunDelete
  BY <1>21 DEF CrunDelete
<1>22. CASE Umount
  BY <1>22 DEF Umount, IsMountpoint, UnmountTarget, NextUnmount, Detach,
      AfterUmount
<1>23. CASE Unmounted
  BY <1>23 DEF Unmounted, IsMountpoint, UnmountTarget, NextUnmount
<1>24. CASE Fail
  BY <1>24 DEF Fail
<1>25. CASE Start
  BY <1>25 DEF Start
<1>26. CASE Boot
  BY <1>26 DEF Boot, ImageReady
<1>27. CASE EntrypointEnds
  BY <1>27 DEF EntrypointEnds
<1>28. CASE Stop
  BY <1>28 DEF Stop
<1>29. CASE GuestWrites
  BY <1>29 DEF GuestWrites, DiskFile
<1>30. CASE ExecConnects
  BY <1>30 DEF ExecConnects
<1>31. CASE PrepareDelivers
  BY <1>31 DEF PrepareDelivers
<1>32. CASE PrepareDies
  BY <1>32 DEF PrepareDies
<1>33. CASE HostKeyChange
  BY <1>33, SMTT(30) DEF HostKeyChange
<1>34. CASE Reboot
  BY <1>34, SMTT(30) DEF Reboot
<1>35. CASE UNCHANGED vars
  BY <1>35, SMTT(30) DEF vars
<1> QED
  BY <1>1, <1>2, <1>3, <1>4, <1>5, <1>6, <1>7, <1>8, <1>9, <1>10, <1>11,
     <1>12, <1>13, <1>14, <1>15, <1>16, <1>17, <1>18, <1>19, <1>20, <1>21,
     <1>22, <1>23, <1>24, <1>25, <1>26, <1>27, <1>28, <1>29, <1>30, <1>31,
     <1>32, <1>33, <1>34, <1>35
  DEF Next, CreateStep, DeleteStep, Environment, SetUpSshKeyPair

\* What the first create has done stays done.
LEMMA BehindStep ==
  ASSUME TypeOK, TypeOK', Control, Ahead, Behind, [Next]_vars
  PROVE  Behind'
<1> USE DEF TypeOK, Control, Ahead, Behind, ImageReady, VisibleKey,
        UseUserKey, DiskFile
<1>1. CASE CallCreate
  BY <1>1 DEF CallCreate
<1>2. CASE Validate
  BY <1>2 DEF Validate, Accepted, OptionsValid
<1>3. CASE SetUpContainerRoot
  BY <1>3 DEF SetUpContainerRoot, StaleFiles
<1>4. CASE IsFirstCreate
  BY <1>4 DEF IsFirstCreate, FirstCreate
<1>5. CASE LinkImage
  BY <1>5 DEF LinkImage
<1>6. CASE MountImage
  BY <1>6 DEF MountImage, IsMountpoint, MountOver
<1>7. CASE BindImage
  BY <1>7 DEF BindImage, MountOver
<1>8. CASE CreateOverlay
  BY <1>8 DEF CreateOverlay
<1>9. CASE SetUpDevices
  BY <1>9 DEF SetUpDevices
<1>10. CASE MountUserSshDir
  BY <1>10 DEF MountUserSshDir, UseUserKey, AfterSsh, MountOver
<1>11. CASE GenerateKeyPair
  BY <1>11 DEF GenerateKeyPair, UseUserKey, AfterSsh
<1>12. CASE ReadOldKey
  BY <1>12 DEF ReadOldKey, UseUserKey, AfterSsh, VisibleKey
<1>13. CASE ApplyToCloudInitConfig
  BY <1>13 DEF ApplyToCloudInitConfig
<1>14. CASE ApplyToIgnitionConfig
  BY <1>14 DEF ApplyToIgnitionConfig
<1>15. CASE GenerateDomain
  BY <1>15 DEF GenerateDomain
<1>16. CASE MergeOverlays
  BY <1>16 DEF MergeOverlays
<1>17. CASE CrunCreate
  BY <1>17 DEF CrunCreate
<1>18. CASE SpawnPrepare
  BY <1>18 DEF SpawnPrepare
<1>19. CASE CallDelete
  BY <1>19 DEF CallDelete
<1>20. CASE GetRootPath
  BY <1>20 DEF GetRootPath
<1>21. CASE CrunDelete
  BY <1>21 DEF CrunDelete
<1>22. CASE Umount
  BY <1>22 DEF Umount, IsMountpoint, UnmountTarget, NextUnmount, Detach,
      AfterUmount
<1>23. CASE Unmounted
  BY <1>23 DEF Unmounted, IsMountpoint, UnmountTarget, NextUnmount
<1>24. CASE Fail
  BY <1>24 DEF Fail
<1>25. CASE Start
  BY <1>25 DEF Start
<1>26. CASE Boot
  BY <1>26 DEF Boot, ImageReady
<1>27. CASE EntrypointEnds
  BY <1>27 DEF EntrypointEnds
<1>28. CASE Stop
  BY <1>28 DEF Stop
<1>29. CASE GuestWrites
  BY <1>29 DEF GuestWrites, DiskFile
<1>30. CASE ExecConnects
  BY <1>30 DEF ExecConnects
<1>31. CASE PrepareDelivers
  BY <1>31 DEF PrepareDelivers
<1>32. CASE PrepareDies
  BY <1>32 DEF PrepareDies
<1>33. CASE HostKeyChange
  BY <1>33 DEF HostKeyChange
<1>34. CASE Reboot
  BY <1>34 DEF Reboot
<1>35. CASE UNCHANGED vars
  BY <1>35 DEF vars
<1> QED
  BY <1>1, <1>2, <1>3, <1>4, <1>5, <1>6, <1>7, <1>8, <1>9, <1>10, <1>11,
     <1>12, <1>13, <1>14, <1>15, <1>16, <1>17, <1>18, <1>19, <1>20, <1>21,
     <1>22, <1>23, <1>24, <1>25, <1>26, <1>27, <1>28, <1>29, <1>30, <1>31,
     <1>32, <1>33, <1>34, <1>35
  DEF Next, CreateStep, DeleteStep, Environment, SetUpSshKeyPair

\* The generated key stays the only one where the user's is not wanted.
LEMMA RandomKeysStep ==
  ASSUME TypeOK, TypeOK', Control, Ahead, Behind, RandomKeys, [Next]_vars
  PROVE  RandomKeys'
<1> USE DEF TypeOK, Control, Ahead, Behind, RandomKeys, UseUserKey,
        WantsUserKey
<1>1. CASE CallCreate
  BY <1>1 DEF CallCreate
<1>2. CASE Validate
  BY <1>2 DEF Validate, Accepted, OptionsValid
<1>3. CASE SetUpContainerRoot
  BY <1>3 DEF SetUpContainerRoot, StaleFiles
<1>4. CASE IsFirstCreate
  BY <1>4 DEF IsFirstCreate, FirstCreate
<1>5. CASE LinkImage
  BY <1>5 DEF LinkImage
<1>6. CASE MountImage
  BY <1>6 DEF MountImage, IsMountpoint, MountOver
<1>7. CASE BindImage
  BY <1>7 DEF BindImage, MountOver
<1>8. CASE CreateOverlay
  BY <1>8 DEF CreateOverlay
<1>9. CASE SetUpDevices
  BY <1>9 DEF SetUpDevices
<1>10. CASE MountUserSshDir
  BY <1>10 DEF MountUserSshDir, UseUserKey, AfterSsh, MountOver
<1>11. CASE GenerateKeyPair
  BY <1>11 DEF GenerateKeyPair, UseUserKey, AfterSsh
<1>12. CASE ReadOldKey
  BY <1>12 DEF ReadOldKey, UseUserKey, AfterSsh, VisibleKey
<1>13. CASE ApplyToCloudInitConfig
  BY <1>13 DEF ApplyToCloudInitConfig
<1>14. CASE ApplyToIgnitionConfig
  BY <1>14 DEF ApplyToIgnitionConfig
<1>15. CASE GenerateDomain
  BY <1>15 DEF GenerateDomain
<1>16. CASE MergeOverlays
  BY <1>16 DEF MergeOverlays
<1>17. CASE CrunCreate
  BY <1>17 DEF CrunCreate
<1>18. CASE SpawnPrepare
  BY <1>18 DEF SpawnPrepare
<1>19. CASE CallDelete
  BY <1>19 DEF CallDelete
<1>20. CASE GetRootPath
  BY <1>20 DEF GetRootPath
<1>21. CASE CrunDelete
  BY <1>21 DEF CrunDelete
<1>22. CASE Umount
  BY <1>22 DEF Umount, IsMountpoint, UnmountTarget, NextUnmount, Detach,
      AfterUmount
<1>23. CASE Unmounted
  BY <1>23 DEF Unmounted, IsMountpoint, UnmountTarget, NextUnmount
<1>24. CASE Fail
  BY <1>24 DEF Fail
<1>25. CASE Start
  BY <1>25 DEF Start
<1>26. CASE Boot
  BY <1>26 DEF Boot, ImageReady
<1>27. CASE EntrypointEnds
  BY <1>27 DEF EntrypointEnds
<1>28. CASE Stop
  BY <1>28 DEF Stop
<1>29. CASE GuestWrites
  BY <1>29 DEF GuestWrites, DiskFile
<1>30. CASE ExecConnects
  BY <1>30 DEF ExecConnects
<1>31. CASE PrepareDelivers
  BY <1>31 DEF PrepareDelivers
<1>32. CASE PrepareDies
  BY <1>32 DEF PrepareDies
<1>33. CASE HostKeyChange
  BY <1>33 DEF HostKeyChange
<1>34. CASE Reboot
  BY <1>34 DEF Reboot
<1>35. CASE UNCHANGED vars
  BY <1>35 DEF vars
<1> QED
  BY <1>1, <1>2, <1>3, <1>4, <1>5, <1>6, <1>7, <1>8, <1>9, <1>10, <1>11,
     <1>12, <1>13, <1>14, <1>15, <1>16, <1>17, <1>18, <1>19, <1>20, <1>21,
     <1>22, <1>23, <1>24, <1>25, <1>26, <1>27, <1>28, <1>29, <1>30, <1>31,
     <1>32, <1>33, <1>34, <1>35
  DEF Next, CreateStep, DeleteStep, Environment, SetUpSshKeyPair

\* The mounts follow create up and delete down.
LEMMA MountsStep ==
  ASSUME TypeOK, TypeOK', Control, Mounts, [Next]_vars
  PROVE  Mounts'
<1> USE DEF TypeOK, Control, Mounts
<1>1. CASE CallCreate
  BY <1>1 DEF CallCreate
<1>2. CASE Validate
  BY <1>2 DEF Validate, Accepted, OptionsValid
<1>3. CASE SetUpContainerRoot
  BY <1>3 DEF SetUpContainerRoot, StaleFiles
<1>4. CASE IsFirstCreate
  BY <1>4 DEF IsFirstCreate, FirstCreate
<1>5. CASE LinkImage
  BY <1>5 DEF LinkImage
<1>6. CASE MountImage
  BY <1>6 DEF MountImage, IsMountpoint, MountOver
<1>7. CASE BindImage
  BY <1>7 DEF BindImage, MountOver
<1>8. CASE CreateOverlay
  BY <1>8 DEF CreateOverlay
<1>9. CASE SetUpDevices
  BY <1>9 DEF SetUpDevices
<1>10. CASE MountUserSshDir
  BY <1>10 DEF MountUserSshDir, UseUserKey, AfterSsh, MountOver
<1>11. CASE GenerateKeyPair
  BY <1>11 DEF GenerateKeyPair, UseUserKey, AfterSsh
<1>12. CASE ReadOldKey
  BY <1>12 DEF ReadOldKey, UseUserKey, AfterSsh, VisibleKey
<1>13. CASE ApplyToCloudInitConfig
  BY <1>13 DEF ApplyToCloudInitConfig
<1>14. CASE ApplyToIgnitionConfig
  BY <1>14 DEF ApplyToIgnitionConfig
<1>15. CASE GenerateDomain
  BY <1>15 DEF GenerateDomain
<1>16. CASE MergeOverlays
  BY <1>16 DEF MergeOverlays
<1>17. CASE CrunCreate
  BY <1>17 DEF CrunCreate
<1>18. CASE SpawnPrepare
  BY <1>18 DEF SpawnPrepare
<1>19. CASE CallDelete
  BY <1>19 DEF CallDelete
<1>20. CASE GetRootPath
  BY <1>20 DEF GetRootPath
<1>21. CASE CrunDelete
  BY <1>21 DEF CrunDelete
<1>22. CASE Umount
  BY <1>22 DEF Umount, IsMountpoint, UnmountTarget, NextUnmount, Detach,
      AfterUmount
<1>23. CASE Unmounted
  BY <1>23 DEF Unmounted, IsMountpoint, UnmountTarget, NextUnmount
<1>24. CASE Fail
  BY <1>24 DEF Fail
<1>25. CASE Start
  BY <1>25 DEF Start
<1>26. CASE Boot
  BY <1>26 DEF Boot, ImageReady
<1>27. CASE EntrypointEnds
  BY <1>27 DEF EntrypointEnds
<1>28. CASE Stop
  BY <1>28 DEF Stop
<1>29. CASE GuestWrites
  BY <1>29 DEF GuestWrites, DiskFile
<1>30. CASE ExecConnects
  BY <1>30 DEF ExecConnects
<1>31. CASE PrepareDelivers
  BY <1>31 DEF PrepareDelivers
<1>32. CASE PrepareDies
  BY <1>32 DEF PrepareDies
<1>33. CASE HostKeyChange
  BY <1>33 DEF HostKeyChange
<1>34. CASE Reboot
  BY <1>34 DEF Reboot
<1>35. CASE UNCHANGED vars
  BY <1>35 DEF vars
<1> QED
  BY <1>1, <1>2, <1>3, <1>4, <1>5, <1>6, <1>7, <1>8, <1>9, <1>10, <1>11,
     <1>12, <1>13, <1>14, <1>15, <1>16, <1>17, <1>18, <1>19, <1>20, <1>21,
     <1>22, <1>23, <1>24, <1>25, <1>26, <1>27, <1>28, <1>29, <1>30, <1>31,
     <1>32, <1>33, <1>34, <1>35
  DEF Next, CreateStep, DeleteStep, Environment, SetUpSshKeyPair

\* The marker of exec is made by a running VM only.
LEMMA MarkerStep ==
  ASSUME TypeOK, TypeOK', Control, Marker, [Next]_vars
  PROVE  Marker'
<1> USE DEF TypeOK, Control, Marker
<1>1. CASE CallCreate
  BY <1>1 DEF CallCreate
<1>2. CASE Validate
  BY <1>2 DEF Validate, Accepted, OptionsValid
<1>3. CASE SetUpContainerRoot
  BY <1>3 DEF SetUpContainerRoot, StaleFiles
<1>4. CASE IsFirstCreate
  BY <1>4 DEF IsFirstCreate, FirstCreate
<1>5. CASE LinkImage
  BY <1>5 DEF LinkImage
<1>6. CASE MountImage
  BY <1>6 DEF MountImage, IsMountpoint, MountOver
<1>7. CASE BindImage
  BY <1>7 DEF BindImage, MountOver
<1>8. CASE CreateOverlay
  BY <1>8 DEF CreateOverlay
<1>9. CASE SetUpDevices
  BY <1>9 DEF SetUpDevices
<1>10. CASE MountUserSshDir
  BY <1>10 DEF MountUserSshDir, UseUserKey, AfterSsh, MountOver
<1>11. CASE GenerateKeyPair
  BY <1>11 DEF GenerateKeyPair, UseUserKey, AfterSsh
<1>12. CASE ReadOldKey
  BY <1>12 DEF ReadOldKey, UseUserKey, AfterSsh, VisibleKey
<1>13. CASE ApplyToCloudInitConfig
  BY <1>13 DEF ApplyToCloudInitConfig
<1>14. CASE ApplyToIgnitionConfig
  BY <1>14 DEF ApplyToIgnitionConfig
<1>15. CASE GenerateDomain
  BY <1>15 DEF GenerateDomain
<1>16. CASE MergeOverlays
  BY <1>16 DEF MergeOverlays
<1>17. CASE CrunCreate
  BY <1>17 DEF CrunCreate
<1>18. CASE SpawnPrepare
  BY <1>18 DEF SpawnPrepare
<1>19. CASE CallDelete
  BY <1>19 DEF CallDelete
<1>20. CASE GetRootPath
  BY <1>20 DEF GetRootPath
<1>21. CASE CrunDelete
  BY <1>21 DEF CrunDelete
<1>22. CASE Umount
  BY <1>22 DEF Umount, IsMountpoint, UnmountTarget, NextUnmount, Detach,
      AfterUmount
<1>23. CASE Unmounted
  BY <1>23 DEF Unmounted, IsMountpoint, UnmountTarget, NextUnmount
<1>24. CASE Fail
  BY <1>24 DEF Fail
<1>25. CASE Start
  BY <1>25 DEF Start
<1>26. CASE Boot
  BY <1>26 DEF Boot, ImageReady
<1>27. CASE EntrypointEnds
  BY <1>27 DEF EntrypointEnds
<1>28. CASE Stop
  BY <1>28 DEF Stop
<1>29. CASE GuestWrites
  BY <1>29 DEF GuestWrites, DiskFile
<1>30. CASE ExecConnects
  BY <1>30 DEF ExecConnects
<1>31. CASE PrepareDelivers
  BY <1>31 DEF PrepareDelivers
<1>32. CASE PrepareDies
  BY <1>32 DEF PrepareDies
<1>33. CASE HostKeyChange
  BY <1>33 DEF HostKeyChange
<1>34. CASE Reboot
  BY <1>34 DEF Reboot
<1>35. CASE UNCHANGED vars
  BY <1>35 DEF vars
<1> QED
  BY <1>1, <1>2, <1>3, <1>4, <1>5, <1>6, <1>7, <1>8, <1>9, <1>10, <1>11,
     <1>12, <1>13, <1>14, <1>15, <1>16, <1>17, <1>18, <1>19, <1>20, <1>21,
     <1>22, <1>23, <1>24, <1>25, <1>26, <1>27, <1>28, <1>29, <1>30, <1>31,
     <1>32, <1>33, <1>34, <1>35
  DEF Next, CreateStep, DeleteStep, Environment, SetUpSshKeyPair

\* IInv is inductive.
LEMMA IInvStep ==
  ASSUME IInv, [Next]_vars
  PROVE  IInv'
<1>1. TypeOK /\ Control /\ Ahead /\ Behind /\ RandomKeys /\ Mounts /\ Marker
  BY DEF IInv
<1>2. TypeOK'
  BY <1>1, TypeStep
<1>3. Control'
  BY <1>1, ControlStep
<1>4. Ahead'
  BY <1>1, <1>2, AheadStep
<1>5. Behind'
  BY <1>1, <1>2, BehindStep
<1>6. RandomKeys'
  BY <1>1, <1>2, RandomKeysStep
<1>7. Mounts'
  BY <1>1, <1>2, MountsStep
<1>8. Marker'
  BY <1>1, <1>2, MarkerStep
<1> QED
  BY <1>2, <1>3, <1>4, <1>5, <1>6, <1>7, <1>8 DEF IInv

\* A container crun-vm has not been called about satisfies IInv.
LEMMA IInvInit ==
  ASSUME Init
  PROVE  IInv
<1> USE DEF Init
<1>1. TypeOK
  BY DEF TypeOK
<1>2. Control
  BY DEF Control
<1>3. Ahead
  BY DEF Ahead
<1>4. Behind
  BY DEF Behind, ImageReady
<1>5. RandomKeys
  BY DEF RandomKeys
<1>6. Mounts
  BY DEF Mounts
<1>7. Marker
  BY DEF Marker
<1> QED
  BY <1>1, <1>2, <1>3, <1>4, <1>5, <1>6, <1>7 DEF IInv

-----------------------------------------------------------------------------
(* The invariants.                                                         *)

\* Every variable stays in its set.
THEOREM TypeCorrect == Spec => []TypeOK
<1>1. TypeOK /\ [Next]_vars => TypeOK'
  BY TypeStep
<1>2. Init => TypeOK
  BY IInvInit DEF IInv
<1> QED
  BY <1>1, <1>2, PTL DEF Spec

\* IInv holds at every state of every behaviour.
THEOREM Invariance == Spec => []IInv
<1>1. Init => IInv
  BY IInvInit
<1>2. IInv /\ [Next]_vars => IInv'
  BY IInvStep
<1> QED
  BY <1>1, <1>2, PTL DEF Spec

\* A VM that runs has its disk, mounted, and one key in both first-boot
\* configurations, whatever creates failed before.
THEOREM ProvisionedCorrect == Spec => []BootsFullyProvisioned
<1>1. IInv => BootsFullyProvisioned
  BY DEF IInv, TypeOK, BootsFullyProvisioned, Control, Behind, Mounts, DiskFile, ImageReady
<1> QED
  BY <1>1, Invariance, PTL

\* Where the user's key is not to be used, the key exec offers is the one the
\* guest was given.
THEOREM RandomKeyCorrect == Spec => []RandomKeyAuthorised
<1>1. IInv => RandomKeyAuthorised
  BY DEF IInv, TypeOK, RandomKeyAuthorised, Control, Behind, RandomKeys, WantsUserKey, VisibleKey
<1> QED
  BY <1>1, Invariance, PTL

\* A delete that found the root leaves nothing mounted, however many mounts
\* were stacked.
THEOREM DeleteCorrect == Spec => []CleanAfterDelete
<1>1. IInv => CleanAfterDelete
  BY DEF IInv, TypeOK, CleanAfterDelete, Mounts
<1> QED
  BY <1>1, Invariance, PTL

\* As long as crun has a container, its image is mounted once.
THEOREM MountsCorrect == Spec => []MountsMatchContainer
<1>1. IInv => MountsMatchContainer
  BY DEF IInv, TypeOK, MountsMatchContainer, Control, Mounts
<1> QED
  BY <1>1, Invariance, PTL

\* A container that was set up completely with the generated key pair finds it
\* again at every later create.
THEOREM RestartCorrect == Spec => []RestartRepeatable
<1>1. IInv => RestartRepeatable
  BY DEF IInv, TypeOK, RestartRepeatable, Behind, RandomKeys, WantsUserKey
<1> QED
  BY <1>1, Invariance, PTL

\* No memory of ssh having worked outlives the run of the container it is
\* about.
THEOREM MarkerCorrect == Spec => []MarkerFresh
<1>1. IInv => MarkerFresh
  BY DEF IInv, TypeOK, MarkerFresh, Marker
<1> QED
  BY <1>1, Invariance, PTL

\* Without --persistent, or under a read-only root, the user's image file is
\* not written.
THEOREM UserImageCorrect == Spec => []UserImageUntouched
<1>1. IInv => UserImageUntouched
  BY DEF IInv, TypeOK, UserImageUntouched, Behind
<1> QED
  BY <1>1, Invariance, PTL

-----------------------------------------------------------------------------
(* What no step does.                                                      *)

\* What the guest wrote is never taken back.
LEMMA DiskStep ==
  ASSUME IInv, Next
  PROVE  \A f \in DiskNames : disk[f] = "written" => disk'[f] = "written"
<1> USE DEF IInv, TypeOK
<1>1. CASE CreateOverlay
  BY <1>1 DEF CreateOverlay, Ahead
<1>2. CASE GuestWrites
  BY <1>2 DEF GuestWrites, DiskFile
<1>3. CASE PrepareDelivers
  BY <1>3 DEF PrepareDelivers, Behind
<1>4. CASE ~CreateOverlay /\ ~GuestWrites /\ ~PrepareDelivers
  BY <1>4 DEF Next, CreateStep, DeleteStep, Environment, SetUpSshKeyPair,
       CallCreate, Validate, SetUpContainerRoot, IsFirstCreate, LinkImage,
       MountImage, BindImage, SetUpDevices, MountUserSshDir, GenerateKeyPair,
       ReadOldKey, ApplyToCloudInitConfig, ApplyToIgnitionConfig,
       GenerateDomain, MergeOverlays, CrunCreate, SpawnPrepare, CallDelete,
       GetRootPath, CrunDelete, Umount, Unmounted, Fail, Start, Boot,
       EntrypointEnds, Stop, ExecConnects, PrepareDies, HostKeyChange, Reboot
<1> QED
  BY <1>1, <1>2, <1>3, <1>4

\* No restart, failed create, delete or host restart takes back what the guest
\* wrote.
THEOREM DiskCorrect == Spec => DiskSurvivesRestart
<1>1. IInv /\ [Next]_vars =>
        [\A f \in DiskNames : disk[f] = "written" => disk'[f] = "written"]_vars
  BY DiskStep
<1> QED
  BY <1>1, Invariance, PTL DEF Spec, DiskSurvivesRestart

\* A conversion that ended stays ended.
LEMMA ConversionStep ==
  ASSUME IInv, Next, prepare \in {"done", "dead"}
  PROVE  prepare' = prepare
<1>1. CASE SpawnPrepare
  BY <1>1 DEF SpawnPrepare, IInv, Ahead
<1>2. CASE PrepareDelivers \/ PrepareDies \/ Reboot
  BY <1>2 DEF PrepareDelivers, PrepareDies, Reboot
<1>3. CASE ~SpawnPrepare /\ ~PrepareDelivers /\ ~PrepareDies /\ ~Reboot
  BY <1>3 DEF Next, CreateStep, DeleteStep, Environment, SetUpSshKeyPair,
       CallCreate, Validate, SetUpContainerRoot, IsFirstCreate, LinkImage,
       MountImage, BindImage, CreateOverlay, SetUpDevices, MountUserSshDir,
       GenerateKeyPair, ReadOldKey, ApplyToCloudInitConfig,
       ApplyToIgnitionConfig, GenerateDomain, MergeOverlays, CrunCreate,
       CallDelete, GetRootPath, CrunDelete, Umount, Unmounted, Fail, Start,
       Boot, EntrypointEnds, Stop, GuestWrites, ExecConnects, HostKeyChange
<1> QED
  BY <1>1, <1>2, <1>3

\* The bootc conversion is not started a second time in one container.
THEOREM ConversionCorrect == Spec => ConvertedOnce
<1>1. IInv /\ [Next]_vars =>
        [(prepare \in {"done", "dead"} => prepare' = prepare)]_vars
  BY ConversionStep
<1> QED
  BY <1>1, Invariance, PTL DEF Spec, ConvertedOnce

-----------------------------------------------------------------------------
(* The refinement.                                                         *)

\* Every step of the container is one step of the instance, or none.
LEMMA RefinementStep ==
  ASSUME IInv, Next
  PROVE  VmInstance!Next \/ UNCHANGED <<disk[DiskFile], keyIn["ignition"], vm>>
<1> USE DEF IInv, TypeOK
<1>1. CASE CreateOverlay
  <2>1. CASE first
    <3>1. DiskFile = "overlay" /\ DiskFile' = "overlay"
      BY <1>1 DEF CreateOverlay, Control, DiskFile
    <3>2. disk["overlay"] = "none" /\ disk'["overlay"] = "fresh"
      BY <1>1, <2>1 DEF CreateOverlay, Ahead
    <3> QED
      BY <1>1, <3>1, <3>2 DEF CreateOverlay, VmInstance!Next,
         VmInstance!Provision
  <2>2. CASE ~first
    BY <1>1, <2>2 DEF CreateOverlay, DiskFile
  <2> QED
    BY <2>1, <2>2
<1>2. CASE PrepareDelivers
  <2>1. DiskFile' = DiskFile
    BY <1>2 DEF PrepareDelivers, DiskFile
  <2>2. disk["bootc-image"] = "none" /\ disk'["bootc-image"] = "fresh"
    BY <1>2 DEF PrepareDelivers, Behind
  <2>3. CASE DiskFile = "bootc-image"
    BY <1>2, <2>1, <2>2, <2>3 DEF PrepareDelivers, VmInstance!Next,
       VmInstance!Provision
  <2>4. CASE DiskFile # "bootc-image"
    BY <1>2, <2>1, <2>4 DEF PrepareDelivers, DiskFile
  <2> QED
    BY <2>3, <2>4
<1>3. CASE ApplyToIgnitionConfig
  <2>1. DiskFile' = DiskFile
    BY <1>3 DEF ApplyToIgnitionConfig, DiskFile
  <2>2. keyIn["ignition"] = NoKey /\ keyIn'["ignition"] # NoKey
    BY <1>3 DEF ApplyToIgnitionConfig, Control, Ahead, Behind
  <2> QED
    BY <1>3, <2>1, <2>2 DEF ApplyToIgnitionConfig, VmInstance!Next,
       VmInstance!Personalise
<1>4. CASE Boot
  <2>1. DiskFile' = DiskFile
    BY <1>4 DEF Boot, DiskFile
  <2>2. xml # "absent"
    BY <1>4 DEF Boot, Behind
  <2>3. disk[DiskFile] # "none" /\ keyIn["ignition"] # NoKey
    BY <1>4, <2>2 DEF Boot, ImageReady, Behind, DiskFile
  <2> QED
    BY <1>4, <2>1, <2>3 DEF Boot, VmInstance!Next, VmInstance!Boot
<1>5. CASE GuestWrites
  <2>1. DiskFile' = DiskFile /\ DiskFile \in DiskNames
    BY <1>5 DEF GuestWrites, DiskFile
  <2> QED
    BY <1>5, <2>1 DEF GuestWrites, VmInstance!Next, VmInstance!Write
<1>6. CASE Stop \/ CrunDelete \/ Reboot
  <2>1. DiskFile' = DiskFile
    BY <1>6 DEF Stop, CrunDelete, Reboot, DiskFile
  <2> QED
    BY <1>6, <2>1 DEF Stop, CrunDelete, Reboot, VmInstance!Next,
       VmInstance!Halt
<1>7. CASE /\ ~CreateOverlay /\ ~PrepareDelivers /\ ~ApplyToIgnitionConfig
           /\ ~Boot /\ ~GuestWrites /\ ~Stop /\ ~CrunDelete /\ ~Reboot
  <2>1. UNCHANGED <<opts, disk, keyIn["ignition"], vm>>
    BY <1>7 DEF Next, CreateStep, DeleteStep, Environment, SetUpSshKeyPair,
       CallCreate, Validate, SetUpContainerRoot, IsFirstCreate, LinkImage,
       MountImage, BindImage, SetUpDevices, MountUserSshDir, GenerateKeyPair,
       ReadOldKey, ApplyToCloudInitConfig, GenerateDomain, MergeOverlays,
       CrunCreate, SpawnPrepare, CallDelete, GetRootPath, Umount, Unmounted,
       Fail, Start, EntrypointEnds, ExecConnects, PrepareDies, HostKeyChange
  <2> QED
    BY <2>1 DEF DiskFile
<1> QED
  BY <1>1, <1>2, <1>3, <1>4, <1>5, <1>6, <1>7

\* ContainerLifecycle implements VmInstance: one disk, one personalisation, no
\* run without both, and nothing the guest wrote is taken back.
THEOREM Refinement == Spec => ImplementsVmInstance
<1>1. Init => VmInstance!Init
  BY DEF Init, VmInstance!Init, DiskFile
<1>2. IInv /\ [Next]_vars => [VmInstance!Next]_(VmInstance!vars)
  <2> SUFFICES ASSUME IInv, [Next]_vars
               PROVE  [VmInstance!Next]_(VmInstance!vars)
    OBVIOUS
  <2>1. CASE Next
    BY <2>1, RefinementStep DEF VmInstance!vars
  <2>2. CASE UNCHANGED vars
    BY <2>2 DEF vars, VmInstance!vars, DiskFile
  <2> QED
    BY <2>1, <2>2
<1> QED
  BY <1>1, <1>2, Invariance, PTL DEF Spec, ImplementsVmInstance,
     VmInstance!Spec

-----------------------------------------------------------------------------
(* The conversion, as this module sees it.                                 *)

\* Of its steps, only those of the conversion, and a host restart, move the
\* supply of the image; the guest writes to an image that is there.
LEMMA SupplyStep ==
  ASSUME IInv, Next
  PROVE  Supply!Next \/ UNCHANGED Supply!vars
<1> DEFINE this == {"this"}
           has == disk["bootc-image"] # "none"
<1> USE DEF IInv, TypeOK
<1>1. CASE SpawnPrepare
  <2>1. CASE first /\ opts.bootc
    <3>1. prepare = "none" /\ prepare' = "running" /\ UNCHANGED disk
      BY <1>1, <2>1 DEF SpawnPrepare, Ahead
    <3> QED
      BY <3>1 DEF Supply!Next, Supply!Spawn
  <2>2. CASE ~(first /\ opts.bootc)
    BY <1>1, <2>2 DEF SpawnPrepare, Supply!vars
  <2> QED
    BY <2>1, <2>2
<1>2. CASE PrepareDelivers
  <2>1. /\ prepare = "running" /\ prepare' = "done"
        /\ ~has /\ has'
    BY <1>2 DEF PrepareDelivers, Behind
  <2>2. /\ [c \in this |-> prepare'] = [[c \in this |-> prepare]
                                           EXCEPT !["this"] = "done"]
        /\ [c \in this |-> has'] = [[c \in this |-> has] EXCEPT !["this"] = TRUE]
    BY <2>1
  <2> QED
    BY <2>1, <2>2 DEF Supply!Next, Supply!Deliver
<1>3. CASE PrepareDies \/ (Reboot /\ prepare = "running")
  <2>1. prepare = "running" /\ prepare' = "dead" /\ UNCHANGED disk
    BY <1>3 DEF PrepareDies, Reboot
  <2> QED
    BY <2>1 DEF Supply!Next, Supply!GiveUp
<1>4. CASE GuestWrites
  <2>1. UNCHANGED prepare /\ has' = has
    BY <1>4 DEF GuestWrites, Behind, ImageReady, DiskFile
  <2> QED
    BY <2>1 DEF Supply!vars
<1>5. CASE CreateOverlay
  <2>1. UNCHANGED prepare /\ has' = has
    BY <1>5 DEF CreateOverlay
  <2> QED
    BY <2>1 DEF Supply!vars
<1>6. CASE /\ ~SpawnPrepare /\ ~PrepareDelivers /\ ~PrepareDies /\ ~GuestWrites
           /\ ~CreateOverlay /\ ~(Reboot /\ prepare = "running")
  <2>1. UNCHANGED <<prepare, disk>>
    BY <1>6 DEF Next, CreateStep, DeleteStep, Environment, SetUpSshKeyPair,
       CallCreate, Validate, SetUpContainerRoot, IsFirstCreate, LinkImage,
       MountImage, BindImage, SetUpDevices, MountUserSshDir, GenerateKeyPair,
       ReadOldKey, ApplyToCloudInitConfig, ApplyToIgnitionConfig,
       GenerateDomain, MergeOverlays, CrunCreate, CallDelete, GetRootPath,
       CrunDelete, Umount, Unmounted, Fail, Start, Boot, EntrypointEnds, Stop,
       ExecConnects, HostKeyChange, Reboot
  <2> QED
    BY <2>1 DEF Supply!vars
<1> QED
  BY <1>1, <1>2, <1>3, <1>4, <1>5, <1>6

\* All that the life of a container rests on, of the conversion, is what
\* ImageSupply promises: one conversion, and one image or none.
THEOREM SupplyRefinement == Spec => ImplementsImageSupply
<1>1. Init => Supply!Init
  <2> SUFFICES ASSUME Init PROVE Supply!Init
    OBVIOUS
  <2>1. prepare = "none" /\ disk["bootc-image"] = "none"
    BY DEF Init
  <2> QED
    BY <2>1 DEF Supply!Init
<1>2. IInv /\ [Next]_vars => [Supply!Next]_(Supply!vars)
  <2>1. ASSUME IInv, Next PROVE [Supply!Next]_(Supply!vars)
    BY <2>1, SupplyStep
  <2>2. ASSUME UNCHANGED vars PROVE UNCHANGED Supply!vars
    BY <2>2 DEF vars, Supply!vars
  <2> QED
    BY <2>1, <2>2
<1> QED
  BY <1>1, <1>2, Invariance, PTL DEF Spec, ImplementsImageSupply, Supply!Spec
-----------------------------------------------------------------------------
(* When the documentation is right. Each of three promises that            *)
(* ContainerLifecycle contradicts does hold of the behaviours in which one *)
(* thing never happens: so that is the only thing in its way.              *)

\* The merging of the user's XML, once it has begun, is not cut short.
MergeRuns == pc = "merge" => pc' \in {"merge", "crun"}

\* What the domain is as generated, it is only while create has yet to merge it.
Merged ==
  /\ xml = "base" => pc = "merge"
  /\ defined # "base"

LEMMA MergedStep ==
  ASSUME IInv, Merged, [Next]_vars, MergeRuns
  PROVE  Merged'
<1> USE DEF IInv, TypeOK, Merged, MergeRuns
<1>1. CASE GenerateDomain
  BY <1>1 DEF GenerateDomain
<1>2. CASE MergeOverlays
  BY <1>2 DEF MergeOverlays
<1>3. CASE Fail
  BY <1>3 DEF Fail
<1>4. CASE Boot
  BY <1>4 DEF Boot, Control
<1>5. CASE UNCHANGED vars
  BY <1>5 DEF vars
<1>6. CASE ~GenerateDomain /\ ~MergeOverlays /\ ~Fail /\ ~Boot /\ Next
  <2>1. UNCHANGED <<xml, defined>> /\ (pc = "merge" => pc' # "crun")
    BY <1>6 DEF Next, CreateStep, DeleteStep, Environment, SetUpSshKeyPair,
       CallCreate, Validate, SetUpContainerRoot, IsFirstCreate, LinkImage,
       MountImage, BindImage, CreateOverlay, SetUpDevices, MountUserSshDir,
       GenerateKeyPair, ReadOldKey, ApplyToCloudInitConfig,
       ApplyToIgnitionConfig, CrunCreate, SpawnPrepare, CallDelete,
       GetRootPath, CrunDelete, Umount, Unmounted, Start, EntrypointEnds,
       Stop, GuestWrites, ExecConnects, PrepareDelivers, PrepareDies,
       HostKeyChange, Reboot
  <2> QED
    BY <1>6, <2>1
<1> QED
  BY <1>1, <1>2, <1>3, <1>4, <1>5, <1>6

\* The user's XML is in every domain that is launched, if no create is cut short
\* between generating the domain and merging it: whatever else fails.
THEOREM MergedUnlessCut == Spec /\ [][MergeRuns]_vars => []MergedXmlUsed
<1>1. Init => Merged
  BY DEF Init, Merged
<1>2. IInv /\ Merged /\ [Next]_vars /\ [MergeRuns]_vars => Merged'
  BY MergedStep DEF MergeRuns, vars
<1>3. IInv /\ Merged => MergedXmlUsed
  BY DEF IInv, TypeOK, Behind, Merged, MergedXmlUsed
<1> QED
  BY <1>1, <1>2, <1>3, Invariance, PTL DEF Spec

-----------------------------------------------------------------------------
\* The user leaves their key pair alone: none is made, replaced or removed.
KeyStays == hostKey' = hostKey

\* Then a container is for good one with the user's key, whose ~/.ssh is mounted
\* as long as crun has it, or one with the generated key, and nothing mounted.
OneKey ==
  /\ UseUserKey =>
       /\ pc \in CloudInitOn \/ crun # "none" => mnt["ssh"] > 0
       /\ pc = "cloud-init" => pubKey = hostKey
       /\ keyIn["cloud-init"] \in {NoKey, hostKey}
  /\ ~UseUserKey =>
       /\ mnt["ssh"] = 0
       /\ pc = "cloud-init" => pubKey = keyIn["container"]
       /\ keyIn["container"] \in {NoKey, GenKey}
       /\ keyIn["cloud-init"] \in {NoKey, keyIn["container"]}

LEMMA OneKeyStep ==
  ASSUME IInv, OneKey, [Next]_vars, KeyStays
  PROVE  OneKey'
<1> USE DEF IInv, TypeOK, OneKey, KeyStays
<1>1. UseUserKey' = UseUserKey
  BY DEF UseUserKey, WantsUserKey, Next, CreateStep, DeleteStep, Environment,
     SetUpSshKeyPair, vars, CallCreate, Validate, SetUpContainerRoot,
     IsFirstCreate, LinkImage, MountImage, BindImage, CreateOverlay,
     SetUpDevices, MountUserSshDir, GenerateKeyPair, ReadOldKey,
     ApplyToCloudInitConfig, ApplyToIgnitionConfig, GenerateDomain,
     MergeOverlays, CrunCreate, SpawnPrepare, CallDelete, GetRootPath,
     CrunDelete, Umount, Unmounted, Fail, Start, Boot, EntrypointEnds, Stop,
     GuestWrites, ExecConnects, PrepareDelivers, PrepareDies, HostKeyChange,
     Reboot
<1>2. CASE MountUserSshDir
  BY <1>1, <1>2 DEF MountUserSshDir, MountOver, AfterSsh
<1>3. CASE GenerateKeyPair
  BY <1>1, <1>3 DEF GenerateKeyPair, AfterSsh, Ahead
<1>4. CASE ReadOldKey
  BY <1>1, <1>4 DEF ReadOldKey, AfterSsh
<1>5. CASE ApplyToCloudInitConfig
  BY <1>1, <1>5 DEF ApplyToCloudInitConfig
<1>6. CASE MountImage \/ BindImage
  BY <1>1, <1>6 DEF MountImage, BindImage, MountOver
<1>7. CASE Umount \/ Unmounted
  BY <1>1, <1>7 DEF Umount, Unmounted, Detach, AfterUmount, UnmountTarget,
     NextUnmount, IsMountpoint, Control
<1>8. CASE ApplyToIgnitionConfig
  BY <1>1, <1>8 DEF ApplyToIgnitionConfig
<1>9. CASE CrunCreate \/ SpawnPrepare \/ CrunDelete \/ Start \/ Stop
  BY <1>1, <1>9 DEF CrunCreate, SpawnPrepare, CrunDelete, Start, Stop
<1>10. CASE Reboot
  BY <1>1, <1>10 DEF Reboot
<1>11. CASE UNCHANGED vars
  BY <1>1, <1>11 DEF vars
<1>12. CASE /\ Next
            /\ ~MountUserSshDir /\ ~GenerateKeyPair /\ ~ReadOldKey
            /\ ~ApplyToCloudInitConfig /\ ~MountImage /\ ~BindImage
            /\ ~Umount /\ ~Unmounted /\ ~ApplyToIgnitionConfig
            /\ ~CrunCreate /\ ~SpawnPrepare /\ ~CrunDelete /\ ~Start
            /\ ~Stop /\ ~Reboot
  <2>1. /\ UNCHANGED <<mnt, keyIn, pubKey>>
        /\ crun' # "none" => crun # "none"
        /\ pc' \in CloudInitOn => \/ pc \in CloudInitOn /\ pc' # "cloud-init"
                                  \/ pc' = pc
    BY <1>12 DEF Next, CreateStep, DeleteStep, Environment, SetUpSshKeyPair,
       CallCreate, Validate, SetUpContainerRoot, IsFirstCreate, LinkImage,
       CreateOverlay, SetUpDevices, GenerateDomain, MergeOverlays, CallDelete,
       GetRootPath, Fail, Boot, EntrypointEnds, GuestWrites, ExecConnects,
       PrepareDelivers, PrepareDies, HostKeyChange
  <2> QED
    BY <1>1, <2>1
<1> QED
  BY <1>2, <1>3, <1>4, <1>5, <1>6, <1>7, <1>8, <1>9, <1>10, <1>11, <1>12

\* The key exec logs in with is the one the guest was given, if the user leaves
\* ~/.ssh alone: whichever of the two it is, and whatever fails.
THEOREM AuthorisedUnlessChanged == Spec /\ [][KeyStays]_vars => []KeyAuthorised
<1>1. Init => OneKey
  BY DEF Init, OneKey
<1>2. IInv /\ OneKey /\ [Next]_vars /\ [KeyStays]_vars => OneKey'
  BY OneKeyStep DEF KeyStays, vars
<1>3. IInv /\ OneKey => KeyAuthorised
  BY DEF IInv, TypeOK, Control, Behind, OneKey, KeyAuthorised, VisibleKey
<1> QED
  BY <1>1, <1>2, <1>3, Invariance, PTL DEF Spec

-----------------------------------------------------------------------------
\* A create that mounts something gets as far as crun: nothing fails in between,
\* nor is it refused for a device node or a key. Had crun the container already,
\* it does not matter.
CreateReachesCrun ==
  pc \in MountedOn \ {"spawn"} /\ crun = "none" =>
    pc' \notin {"failed", "conflict", "nokey"}

\* A delete learns the root of a container that crun has, and is not cut short.
DeleteGetsThrough ==
  /\ pc = "get-root" /\ pc' = "crun-delete" /\ crun # "none" => rootKnown'
  /\ pc \in {"crun-delete"} \cup UnmountSteps => pc' # "failed"

\* Then nothing is mounted but for a create under way, a container that crun
\* has, or a delete that knows what to unmount.
Accounted ==
  /\ (\E m \in MountPoints : mnt[m] > 0) =>
       \/ crun # "none"
       \/ pc \in MountedOn
       \/ pc \in UnmountSteps /\ rootKnown
  /\ pc = "crun-delete" /\ crun # "none" => rootKnown
  /\ pc = "spawn" => crun # "none"

LEMMA AccountedStep ==
  ASSUME IInv, IInv', Accounted, [Next]_vars, CreateReachesCrun,
         DeleteGetsThrough
  PROVE  Accounted'
<1> USE DEF IInv, TypeOK, Accounted, CreateReachesCrun, DeleteGetsThrough
<1>1. CASE MountImage \/ BindImage \/ MountUserSshDir
  BY <1>1 DEF MountImage, BindImage, MountUserSshDir, MountOver, IsMountpoint,
     AfterSsh
<1>2. CASE Umount
  BY <1>2 DEF Umount, Detach, AfterUmount, UnmountTarget, IsMountpoint
<1>3. CASE Unmounted
  BY <1>3 DEF Unmounted, UnmountTarget, NextUnmount, IsMountpoint, Mounts
<1>4. CASE GetRootPath
  BY <1>4 DEF GetRootPath
<1>5. CASE CrunDelete
  BY <1>5 DEF CrunDelete
<1>6. CASE Fail
  BY <1>6 DEF Fail
<1>7. CASE Reboot
  BY <1>7 DEF Reboot
<1>8. CASE SetUpDevices \/ ReadOldKey
  BY <1>8 DEF SetUpDevices, ReadOldKey, AfterSsh
<1>9. CASE CrunCreate \/ SpawnPrepare
  BY <1>9 DEF CrunCreate, SpawnPrepare
<1>10. CASE UNCHANGED vars
  BY <1>10 DEF vars
<1>11. CASE /\ Next
            /\ ~MountImage /\ ~BindImage /\ ~MountUserSshDir /\ ~Umount
            /\ ~Unmounted /\ ~GetRootPath /\ ~CrunDelete /\ ~Fail /\ ~Reboot
            /\ ~SetUpDevices /\ ~ReadOldKey /\ ~CrunCreate /\ ~SpawnPrepare
  <2>1. /\ UNCHANGED <<mnt, rootKnown>>
        /\ crun' = "none" <=> crun = "none"
        /\ pc \in MountedOn => pc' \in MountedOn
        /\ pc \in UnmountSteps => pc' = pc
        /\ pc' \in {"crun-delete", "spawn"} => pc = pc'
    BY <1>11 DEF Next, CreateStep, DeleteStep, Environment, SetUpSshKeyPair,
       CallCreate, Validate, SetUpContainerRoot, IsFirstCreate, LinkImage,
       CreateOverlay, GenerateKeyPair, ApplyToCloudInitConfig,
       ApplyToIgnitionConfig, GenerateDomain, MergeOverlays, CallDelete,
       AfterSsh, Start, Boot, EntrypointEnds, Stop, GuestWrites, ExecConnects,
       PrepareDelivers, PrepareDies, HostKeyChange
  <2> QED
    BY <2>1
<1> QED
  BY <1>1, <1>2, <1>3, <1>4, <1>5, <1>6, <1>7, <1>8, <1>9, <1>10, <1>11
  DEF Next, CreateStep, DeleteStep, Environment, SetUpSshKeyPair

\* delete leaves nothing mounted, if every create that mounts something reaches
\* crun and every delete learns the root and gets through: these two are all
\* that stands between the code and the promise.
THEOREM NoMountUnlessCut ==
  Spec /\ [][CreateReachesCrun /\ DeleteGetsThrough]_vars =>
    []DeleteLeavesNoMount
<1>1. Init => Accounted
  BY DEF Init, Accounted
<1>2. IInv /\ IInv' /\ Accounted /\ [Next]_vars
        /\ [CreateReachesCrun /\ DeleteGetsThrough]_vars => Accounted'
  BY AccountedStep DEF CreateReachesCrun, DeleteGetsThrough, vars
<1>3. IInv /\ Accounted => DeleteLeavesNoMount
  BY DEF IInv, TypeOK, Control, Accounted, DeleteLeavesNoMount
<1> QED
  BY <1>1, <1>2, <1>3, Invariance, PTL DEF Spec

=============================================================================
