-------------------------- MODULE GuestConfig_proofs --------------------------
(***************************************************************************)
(* Theorems about GuestConfig and their proofs, for all configurations,    *)
(* sets of paths, numbers of letters and of CPUs, and sizes of a word.     *)
(*                                                                         *)
(* Sizes says that create looks at the mounts one after another, and that  *)
(* its lists are lists, whatever it finds on the host. Written says what   *)
(* the first create put into domain.xml, whatever disks it has.            *)
(***************************************************************************)
EXTENDS GuestConfig, TLAPS

IsSeq(s) == \E S : s \in Seq(S)

\* The mounts are looked at one by one, and there are as many options as the
\* configuration has.
Lists ==
  IsSeq(found) /\ IsSeq(block) /\ IsSeq(blockdevs) /\ next \in Nat \ {0}
FewBlockdevs == Len(blockdevs) <= Len(conf.blockdevs)
FewFound == Len(found) <= Len(conf.mounts)
InMounts == pc = "mounts" => Len(found) = next - 1
Sizes == Lists /\ FewBlockdevs /\ FewFound /\ InMounts

\* Of each number there is one file.
OneEach == \A f, g \in nodes : f.n = g.n => f = g

\* The disks of domain.xml are named one after another.
Named ==
  /\ DOMAIN domain.disks = 1..Len(domain.disks)
  /\ Len(domain.disks) \in Nat
  /\ \A i \in 1..Len(domain.disks) : domain.disks[i].dev = DevName(i - 1)

\* What is in domain.xml, which is written together with the configuration for
\* the guest.
Written ==
  /\ domain # Absent <=> boot # Absent
  /\ domain # Absent => domain.vcpus = VcpuCount /\ Named

\* What stays as it was, or is of few values.
Plain ==
  /\ conf \in Configs
  /\ host \in [HostPaths -> Kinds] /\ Possible(host)
  /\ changes \in 0..MaxChanges
  /\ pc \in {"down", "mounts", "devices", "blockdevs", "config", "crun",
             "created", "up", "failed"}
  /\ begun \in BOOLEAN /\ first \in BOOLEAN

IInv == Plain /\ Sizes /\ OneEach /\ Written

-----------------------------------------------------------------------------
(* Lemmas about sequences and numbers                                      *)

USE NumbersAssumption

\* An element more makes a sequence longer by one.
LEMMA AppendLonger ==
  ASSUME NEW s, NEW e, IsSeq(s)
  PROVE  IsSeq(Append(s, e)) /\ Len(Append(s, e)) = Len(s) + 1
<1>1. PICK S : s \in Seq(S)
  BY DEF IsSeq
<1>2. s \in Seq(S \cup {e}) /\ e \in S \cup {e}
  BY <1>1
<1>3. Append(s, e) \in Seq(S \cup {e}) /\ Len(Append(s, e)) = Len(s) + 1
  BY <1>2
<1> QED
  BY <1>3 DEF IsSeq

\* The length of a sequence is a number.
LEMMA LenIsNat ==
  ASSUME NEW s, IsSeq(s)
  PROVE  Len(s) \in Nat
BY DEF IsSeq

\* The empty sequence is one.
LEMMA EmptyIsSeq == IsSeq(<<>>) /\ Len(<<>>) = 0
<1>1. <<>> \in Seq({})
  OBVIOUS
<1> QED
  BY <1>1 DEF IsSeq

\* A function on the first numbers is a sequence.
LEMMA FunctionIsSeq ==
  ASSUME NEW n \in Nat, NEW S, NEW f \in [1..n -> S]
  PROVE  f \in Seq(S) /\ Len(f) = n
OBVIOUS

\* A sequence made of another, element by element, is as long.
LEMMA MapIsSeq ==
  ASSUME NEW s, NEW f, IsSeq(s), DOMAIN f = DOMAIN s, f = [i \in DOMAIN s |-> f[i]]
  PROVE  IsSeq(f) /\ Len(f) = Len(s)
<1> DEFINE S == {f[i] : i \in DOMAIN s}
<1>1. Len(s) \in Nat /\ DOMAIN s = 1..Len(s)
  BY DEF IsSeq
<1>2. f \in [1..Len(s) -> S]
  BY <1>1
<1>3. f \in Seq(S) /\ Len(f) = Len(s)
  BY <1>1, <1>2, FunctionIsSeq
<1> QED
  BY <1>3 DEF IsSeq

\* The lists of a configuration are sequences.
LEMMA ConfigLists ==
  ASSUME conf \in Configs
  PROVE  /\ IsSeq(conf.mounts) /\ IsSeq(conf.devices) /\ IsSeq(conf.blockdevs)
         /\ Len(conf.mounts) \in Nat /\ Len(conf.devices) \in Nat
         /\ Len(conf.blockdevs) \in Nat
<1>1. IsSeq(conf.mounts) /\ IsSeq(conf.devices) /\ IsSeq(conf.blockdevs)
  BY ConfigsAssumption DEF IsSeq
<1> QED
  BY <1>1, LenIsNat

-----------------------------------------------------------------------------
(* The inductive step                                                      *)

\* No step takes a variable out of its set.
LEMMA PlainStep ==
  ASSUME IInv, [Next]_vars
  PROVE  Plain'
<1> USE DEF IInv, Plain, Possible
<1>1. CASE CallCreate
  BY <1>1 DEF CallCreate, Step, keptVars
<1>2. CASE CreateRefused
  BY <1>2 DEF CreateRefused, Fail, keptVars, mounts
<1>3. CASE KeepMount
  BY <1>3 DEF KeepMount, NextMount, Step, keptVars, mounts, Redirected
<1>4. CASE ShareDirectory
  BY <1>4 DEF ShareDirectory, NextMount, Step, keptVars, Redirected
<1>5. CASE AttachMount
  BY <1>5 DEF AttachMount, NextMount, Step, keptVars, Attach
<1>6. CASE TmpfsInGuest
  BY <1>6 DEF TmpfsInGuest, NextMount, Step, keptVars
<1>7. CASE RefuseMount
  BY <1>7 DEF RefuseMount, Fail, keptVars, mounts
<1>8. CASE ToDevices
  BY <1>8 DEF ToDevices, Step, keptVars, mounts
<1>9. CASE SkipCharDevice
  BY <1>9 DEF SkipCharDevice, NextDevice, Step, mounts
<1>10. CASE AttachDevice
  BY <1>10 DEF AttachDevice, NextDevice, Step, Attach
<1>11. CASE MknodFails
  BY <1>11 DEF MknodFails, Fail, keptVars, mounts
<1>12. CASE ToBlockdevs
  BY <1>12 DEF ToBlockdevs, Step, keptVars, mounts
<1>13. CASE AttachBlockdev
  BY <1>13 DEF AttachBlockdev, Step, keptVars, Attach
<1>14. CASE RefuseBlockdev
  BY <1>14 DEF RefuseBlockdev, Fail, keptVars, mounts
<1>15. CASE ToConfig
  BY <1>15 DEF ToConfig, Step, keptVars, mounts
<1>16. CASE WriteConfig
  BY <1>16 DEF WriteConfig, Step, mounts
<1>17. CASE KeepConfig
  BY <1>17 DEF KeepConfig, Step, keptVars, mounts
<1>18. CASE CrunCreate
  BY <1>18 DEF CrunCreate, Step, mounts
<1>19. CASE CrunFails
  BY <1>19 DEF CrunFails, Fail, keptVars, mounts
<1>20. CASE BootVm
  BY <1>20 DEF BootVm, Step, keptVars, mounts
<1>21. CASE BootFails
  BY <1>21 DEF BootFails, Fail, keptVars, mounts
<1>22. CASE Again
  BY <1>22 DEF Again, keptVars, mounts
<1>23. CASE HostChanges
  BY <1>23 DEF HostChanges, createVars, keptVars, mounts
<1>24. CASE UNCHANGED vars
  BY <1>24 DEF vars, createVars, keptVars, mounts
<1> QED
  BY <1>1, <1>2, <1>3, <1>4, <1>5, <1>6, <1>7, <1>8, <1>9, <1>10, <1>11,
     <1>12, <1>13, <1>14, <1>15, <1>16, <1>17, <1>18, <1>19, <1>20, <1>21,
     <1>22, <1>23, <1>24 DEF Next

\* Only what the lists are made of and where create is can make a difference.
LEMMA SizesFrame ==
  ASSUME Sizes, UNCHANGED <<conf, blockdevs, next, found, block>>,
         pc' # "mounts" \/ pc' = pc
  PROVE  Sizes'
BY DEF Sizes, Lists, FewBlockdevs, FewFound, InMounts

\* No step makes a list longer than what it is made of.
LEMMA SizesStep ==
  ASSUME IInv, [Next]_vars
  PROVE  Sizes'
<1>0. /\ conf \in Configs /\ IsSeq(found) /\ IsSeq(block) /\ IsSeq(blockdevs)
      /\ Len(found) \in Nat /\ Len(block) \in Nat /\ Len(blockdevs) \in Nat
      /\ Len(conf.mounts) \in Nat /\ Len(conf.devices) \in Nat
      /\ Len(conf.blockdevs) \in Nat /\ next \in Nat /\ next > 0
  BY LenIsNat, ConfigLists DEF IInv, Plain, Sizes, Lists
<1> USE DEF IInv, Sizes
<1>1. CASE CallCreate
  <2>1. IsSeq(conf.blockdevs)
    BY <1>0, ConfigLists
  <2>2. IsSeq(blockdevs') /\ Len(blockdevs') = Len(conf.blockdevs)
    <3>1. CASE Engine = "kubernetes"
      <4>1. /\ DOMAIN blockdevs' = DOMAIN conf.blockdevs
            /\ blockdevs' = [i \in DOMAIN conf.blockdevs |-> blockdevs'[i]]
        BY <1>1, <3>1 DEF CallCreate
      <4> QED
        BY <2>1, <4>1, MapIsSeq
    <3>2. CASE Engine # "kubernetes"
      BY <1>1, <3>2, <2>1 DEF CallCreate
    <3> QED
      BY <3>1, <3>2
  <2>3. /\ conf' = conf /\ pc' = "mounts" /\ next' = 1
        /\ found' = <<>> /\ block' = <<>>
    BY <1>1 DEF CallCreate, Step
  <2>4. Lists'
    BY <2>2, <2>3, EmptyIsSeq DEF Lists
  <2>5. FewBlockdevs' /\ FewFound'
    BY <1>0, <2>2, <2>3, EmptyIsSeq DEF FewBlockdevs, FewFound
  <2>6. InMounts'
    BY <2>3, EmptyIsSeq DEF InMounts
  <2> QED
    BY <2>4, <2>5, <2>6
<1>2. CASE CreateRefused
  <2>1. /\ UNCHANGED <<conf, blockdevs, next, found, block>>
        /\ pc' # "mounts" \/ pc' = pc
    BY <1>2 DEF CreateRefused, Fail, keptVars, mounts
  <2> QED
    BY <2>1, SizesFrame
<1>3. CASE KeepMount
  <2>1. /\ conf' = conf /\ blockdevs' = blockdevs
        /\ pc = "mounts" /\ pc' = "mounts" /\ next' = next + 1
        /\ next <= Len(conf.mounts)
        /\ block' = block
    BY <1>3 DEF KeepMount, NextMount, Step, mounts
  <2>2. IsSeq(found') /\ Len(found') = Len(found) + 1
    BY <1>0, <1>3, AppendLonger DEF KeepMount, NextMount
  <2>3. Lists'
    BY <1>0, <2>1, <2>2 DEF Lists
  <2>4. FewBlockdevs'
    BY <1>0, <2>1, <2>2 DEF FewBlockdevs
  <2>5. FewFound'
    BY <1>0, <2>1, <2>2 DEF FewFound, InMounts
  <2>6. InMounts'
    BY <1>0, <2>1, <2>2 DEF InMounts
  <2> QED
    BY <2>3, <2>4, <2>5, <2>6
<1>4. CASE ShareDirectory
  <2>1. /\ conf' = conf /\ blockdevs' = blockdevs
        /\ pc = "mounts" /\ pc' = "mounts" /\ next' = next + 1
        /\ next <= Len(conf.mounts)
        /\ block' = block
    BY <1>4 DEF ShareDirectory, NextMount, Step
  <2>2. IsSeq(found') /\ Len(found') = Len(found) + 1
    BY <1>0, <1>4, AppendLonger DEF ShareDirectory, NextMount
  <2>3. Lists'
    BY <1>0, <2>1, <2>2 DEF Lists
  <2>4. FewBlockdevs'
    BY <1>0, <2>1, <2>2 DEF FewBlockdevs
  <2>5. FewFound'
    BY <1>0, <2>1, <2>2 DEF FewFound, InMounts
  <2>6. InMounts'
    BY <1>0, <2>1, <2>2 DEF InMounts
  <2> QED
    BY <2>3, <2>4, <2>5, <2>6
<1>5. CASE AttachMount
  <2>1. /\ conf' = conf /\ blockdevs' = blockdevs
        /\ pc = "mounts" /\ pc' = "mounts" /\ next' = next + 1
        /\ next <= Len(conf.mounts)
    BY <1>5 DEF AttachMount, NextMount, Step, Attach
  <2>2. IsSeq(found') /\ Len(found') = Len(found) + 1
    BY <1>0, <1>5, AppendLonger DEF AttachMount, NextMount
  <2>3. IsSeq(block') /\ Len(block') = Len(block) + 1
    BY <1>0, <1>5, AppendLonger DEF AttachMount, Attach
  <2>4. Lists'
    BY <1>0, <2>1, <2>2, <2>3 DEF Lists
  <2>5. FewBlockdevs'
    BY <1>0, <2>1, <2>2, <2>3 DEF FewBlockdevs
  <2>6. FewFound'
    BY <1>0, <2>1, <2>2, <2>3 DEF FewFound, InMounts
  <2>7. InMounts'
    BY <1>0, <2>1, <2>2, <2>3 DEF InMounts
  <2> QED
    BY <2>4, <2>5, <2>6, <2>7
<1>6. CASE TmpfsInGuest
  <2>1. /\ conf' = conf /\ blockdevs' = blockdevs
        /\ pc = "mounts" /\ pc' = "mounts" /\ next' = next + 1
        /\ next <= Len(conf.mounts)
        /\ block' = block
    BY <1>6 DEF TmpfsInGuest, NextMount, Step
  <2>2. IsSeq(found') /\ Len(found') = Len(found) + 1
    BY <1>0, <1>6, AppendLonger DEF TmpfsInGuest, NextMount
  <2>3. Lists'
    BY <1>0, <2>1, <2>2 DEF Lists
  <2>4. FewBlockdevs'
    BY <1>0, <2>1, <2>2 DEF FewBlockdevs
  <2>5. FewFound'
    BY <1>0, <2>1, <2>2 DEF FewFound, InMounts
  <2>6. InMounts'
    BY <1>0, <2>1, <2>2 DEF InMounts
  <2> QED
    BY <2>3, <2>4, <2>5, <2>6
<1>7. CASE RefuseMount
  <2>1. /\ UNCHANGED <<conf, blockdevs, next, found, block>>
        /\ pc' # "mounts" \/ pc' = pc
    BY <1>7 DEF RefuseMount, Fail, keptVars, mounts
  <2> QED
    BY <2>1, SizesFrame
<1>8. CASE ToDevices
  <2>1. /\ conf' = conf /\ blockdevs' = blockdevs
        /\ pc = "mounts" /\ pc' = "devices" /\ next' = 1
        /\ next > Len(conf.mounts)
        /\ found' = found
        /\ block' = block
    BY <1>8 DEF ToDevices, Step, mounts
  <2>2. Lists'
    BY <1>0, <2>1 DEF Lists
  <2>3. FewBlockdevs'
    BY <1>0, <2>1 DEF FewBlockdevs
  <2>4. FewFound'
    BY <1>0, <2>1 DEF FewFound, InMounts
  <2>5. InMounts'
    BY <1>0, <2>1 DEF InMounts
  <2> QED
    BY <2>2, <2>3, <2>4, <2>5
<1>9. CASE SkipCharDevice
  <2>1. /\ conf' = conf /\ blockdevs' = blockdevs
        /\ pc = "devices" /\ pc' = "devices" /\ next' = next + 1
        /\ next <= Len(conf.devices)
        /\ found' = found
        /\ block' = block
    BY <1>9 DEF SkipCharDevice, NextDevice, Step, mounts
  <2>2. Lists'
    BY <1>0, <2>1 DEF Lists
  <2>3. FewBlockdevs'
    BY <1>0, <2>1 DEF FewBlockdevs
  <2>4. FewFound'
    BY <1>0, <2>1 DEF FewFound, InMounts
  <2>5. InMounts'
    BY <1>0, <2>1 DEF InMounts
  <2> QED
    BY <2>2, <2>3, <2>4, <2>5
<1>10. CASE AttachDevice
  <2>1. /\ conf' = conf /\ blockdevs' = blockdevs
        /\ pc = "devices" /\ pc' = "devices" /\ next' = next + 1
        /\ next <= Len(conf.devices)
        /\ found' = found
    BY <1>10 DEF AttachDevice, NextDevice, Step, Attach
  <2>2. IsSeq(block') /\ Len(block') = Len(block) + 1
    BY <1>0, <1>10, AppendLonger DEF AttachDevice, Attach
  <2>3. Lists'
    BY <1>0, <2>1, <2>2 DEF Lists
  <2>4. FewBlockdevs'
    BY <1>0, <2>1, <2>2 DEF FewBlockdevs
  <2>5. FewFound'
    BY <1>0, <2>1, <2>2 DEF FewFound, InMounts
  <2>6. InMounts'
    BY <1>0, <2>1, <2>2 DEF InMounts
  <2> QED
    BY <2>3, <2>4, <2>5, <2>6
<1>11. CASE MknodFails
  <2>1. /\ UNCHANGED <<conf, blockdevs, next, found, block>>
        /\ pc' # "mounts" \/ pc' = pc
    BY <1>11 DEF MknodFails, Fail, keptVars, mounts
  <2> QED
    BY <2>1, SizesFrame
<1>12. CASE ToBlockdevs
  <2>1. /\ conf' = conf /\ blockdevs' = blockdevs
        /\ pc = "devices" /\ pc' = "blockdevs" /\ next' = 1
        /\ next > Len(conf.devices)
        /\ found' = found
        /\ block' = block
    BY <1>12 DEF ToBlockdevs, Step, mounts
  <2>2. Lists'
    BY <1>0, <2>1 DEF Lists
  <2>3. FewBlockdevs'
    BY <1>0, <2>1 DEF FewBlockdevs
  <2>4. FewFound'
    BY <1>0, <2>1 DEF FewFound, InMounts
  <2>5. InMounts'
    BY <1>0, <2>1 DEF InMounts
  <2> QED
    BY <2>2, <2>3, <2>4, <2>5
<1>13. CASE AttachBlockdev
  <2>1. /\ conf' = conf /\ blockdevs' = blockdevs
        /\ pc = "blockdevs" /\ pc' = "blockdevs" /\ next' = next + 1
        /\ next <= Len(blockdevs)
        /\ found' = found
    BY <1>13 DEF AttachBlockdev, Step, Attach
  <2>2. IsSeq(block') /\ Len(block') = Len(block) + 1
    BY <1>0, <1>13, AppendLonger DEF AttachBlockdev, Attach
  <2>3. Lists'
    BY <1>0, <2>1, <2>2 DEF Lists
  <2>4. FewBlockdevs'
    BY <1>0, <2>1, <2>2 DEF FewBlockdevs
  <2>5. FewFound'
    BY <1>0, <2>1, <2>2 DEF FewFound, InMounts
  <2>6. InMounts'
    BY <1>0, <2>1, <2>2 DEF InMounts
  <2> QED
    BY <2>3, <2>4, <2>5, <2>6
<1>14. CASE RefuseBlockdev
  <2>1. /\ UNCHANGED <<conf, blockdevs, next, found, block>>
        /\ pc' # "mounts" \/ pc' = pc
    BY <1>14 DEF RefuseBlockdev, Fail, keptVars, mounts
  <2> QED
    BY <2>1, SizesFrame
<1>15. CASE ToConfig
  <2>1. /\ conf' = conf /\ blockdevs' = blockdevs
        /\ pc = "blockdevs" /\ pc' = "config" /\ next' = next
        /\ next > Len(blockdevs)
        /\ found' = found
        /\ block' = block
    BY <1>15 DEF ToConfig, Step, mounts
  <2>2. Lists'
    BY <1>0, <2>1 DEF Lists
  <2>3. FewBlockdevs'
    BY <1>0, <2>1 DEF FewBlockdevs
  <2>4. FewFound'
    BY <1>0, <2>1 DEF FewFound, InMounts
  <2>5. InMounts'
    BY <1>0, <2>1 DEF InMounts
  <2> QED
    BY <2>2, <2>3, <2>4, <2>5
<1>16. CASE WriteConfig
  <2>1. /\ UNCHANGED <<conf, blockdevs, next, found, block>>
        /\ pc' # "mounts" \/ pc' = pc
    BY <1>16 DEF WriteConfig, Step, mounts
  <2> QED
    BY <2>1, SizesFrame
<1>17. CASE KeepConfig
  <2>1. /\ UNCHANGED <<conf, blockdevs, next, found, block>>
        /\ pc' # "mounts" \/ pc' = pc
    BY <1>17 DEF KeepConfig, Step, keptVars, mounts
  <2> QED
    BY <2>1, SizesFrame
<1>18. CASE CrunCreate
  <2>1. /\ UNCHANGED <<conf, blockdevs, next, found, block>>
        /\ pc' # "mounts" \/ pc' = pc
    BY <1>18 DEF CrunCreate, Step, mounts
  <2> QED
    BY <2>1, SizesFrame
<1>19. CASE CrunFails
  <2>1. /\ UNCHANGED <<conf, blockdevs, next, found, block>>
        /\ pc' # "mounts" \/ pc' = pc
    BY <1>19 DEF CrunFails, Fail, keptVars, mounts
  <2> QED
    BY <2>1, SizesFrame
<1>20. CASE BootVm
  <2>1. /\ UNCHANGED <<conf, blockdevs, next, found, block>>
        /\ pc' # "mounts" \/ pc' = pc
    BY <1>20 DEF BootVm, Step, keptVars, mounts
  <2> QED
    BY <2>1, SizesFrame
<1>21. CASE BootFails
  <2>1. /\ UNCHANGED <<conf, blockdevs, next, found, block>>
        /\ pc' # "mounts" \/ pc' = pc
    BY <1>21 DEF BootFails, Fail, keptVars, mounts
  <2> QED
    BY <2>1, SizesFrame
<1>22. CASE Again
  <2>1. /\ UNCHANGED <<conf, blockdevs, next, found, block>>
        /\ pc' # "mounts" \/ pc' = pc
    BY <1>22 DEF Again, keptVars, mounts
  <2> QED
    BY <2>1, SizesFrame
<1>23. CASE HostChanges
  <2>1. /\ UNCHANGED <<conf, blockdevs, next, found, block>>
        /\ pc' # "mounts" \/ pc' = pc
    BY <1>23 DEF HostChanges, createVars, keptVars, mounts
  <2> QED
    BY <2>1, SizesFrame
<1>24. CASE UNCHANGED vars
  BY <1>24, SizesFrame DEF vars, createVars, keptVars, mounts
<1> QED
  BY <1>1, <1>2, <1>3, <1>4, <1>5, <1>6, <1>7, <1>8, <1>9, <1>10, <1>11,
     <1>12, <1>13, <1>14, <1>15, <1>16, <1>17, <1>18, <1>19, <1>20, <1>21,
     <1>22, <1>23, <1>24 DEF Next

\* No step makes a second file of one number.
LEMMA OneEachStep ==
  ASSUME IInv, [Next]_vars
  PROVE  OneEach'
<1> USE DEF IInv, OneEach
<1>1. CASE CallCreate
  BY <1>1 DEF CallCreate, Step, keptVars
<1>2. CASE CreateRefused
  BY <1>2 DEF CreateRefused, Fail, keptVars, mounts
<1>3. CASE KeepMount
  BY <1>3 DEF KeepMount, NextMount, Step, keptVars, mounts, Redirected
<1>4. CASE ShareDirectory
  BY <1>4 DEF ShareDirectory, NextMount, Step, keptVars, Redirected
<1>5. CASE AttachMount
  BY <1>5 DEF AttachMount, NextMount, Step, keptVars, Attach
<1>6. CASE TmpfsInGuest
  BY <1>6 DEF TmpfsInGuest, NextMount, Step, keptVars
<1>7. CASE RefuseMount
  BY <1>7 DEF RefuseMount, Fail, keptVars, mounts
<1>8. CASE ToDevices
  BY <1>8 DEF ToDevices, Step, keptVars, mounts
<1>9. CASE SkipCharDevice
  BY <1>9 DEF SkipCharDevice, NextDevice, Step, mounts
<1>10. CASE AttachDevice
  BY <1>10 DEF AttachDevice, NextDevice, NodeThere
<1>11. CASE MknodFails
  BY <1>11 DEF MknodFails, Fail, keptVars, mounts
<1>12. CASE ToBlockdevs
  BY <1>12 DEF ToBlockdevs, Step, keptVars, mounts
<1>13. CASE AttachBlockdev
  BY <1>13 DEF AttachBlockdev, Step, keptVars, Attach
<1>14. CASE RefuseBlockdev
  BY <1>14 DEF RefuseBlockdev, Fail, keptVars, mounts
<1>15. CASE ToConfig
  BY <1>15 DEF ToConfig, Step, keptVars, mounts
<1>16. CASE WriteConfig
  BY <1>16 DEF WriteConfig, Step, mounts
<1>17. CASE KeepConfig
  BY <1>17 DEF KeepConfig, Step, keptVars, mounts
<1>18. CASE CrunCreate
  BY <1>18 DEF CrunCreate, Step, mounts
<1>19. CASE CrunFails
  BY <1>19 DEF CrunFails, Fail, keptVars, mounts
<1>20. CASE BootVm
  BY <1>20 DEF BootVm, Step, keptVars, mounts
<1>21. CASE BootFails
  BY <1>21 DEF BootFails, Fail, keptVars, mounts
<1>22. CASE Again
  BY <1>22 DEF Again, keptVars, mounts
<1>23. CASE HostChanges
  BY <1>23 DEF HostChanges, createVars, keptVars, mounts
<1>24. CASE UNCHANGED vars
  BY <1>24 DEF vars, createVars, keptVars, mounts
<1> QED
  BY <1>1, <1>2, <1>3, <1>4, <1>5, <1>6, <1>7, <1>8, <1>9, <1>10, <1>11,
     <1>12, <1>13, <1>14, <1>15, <1>16, <1>17, <1>18, <1>19, <1>20, <1>21,
     <1>22, <1>23, <1>24 DEF Next

\* What WriteConfig makes of the disks is named one after another.
LEMMA DisksNamed ==
  ASSUME IsSeq(block)
  PROVE  /\ Disks \in Seq({Disks[i] : i \in 1..(Len(block) + 2)})
         /\ Len(Disks) = Len(block) + 2
         /\ \A i \in 1..Len(Disks) : Disks[i].dev = DevName(i - 1)
<1> DEFINE S == {Disks[i] : i \in 1..(Len(block) + 2)}
<1>1. Len(block) + 2 \in Nat
  BY LenIsNat
<1>2. Disks \in [1..(Len(block) + 2) -> S]
  BY DEF Disks
<1> HIDE DEF S
<1>3. Disks \in Seq(S) /\ Len(Disks) = Len(block) + 2
  BY <1>1, <1>2, FunctionIsSeq
<1>4. \A i \in 1..(Len(block) + 2) : Disks[i].dev = DevName(i - 1)
  BY DEF Disks
<1> QED
  BY <1>3, <1>4 DEF S

\* What is written depends on the configuration alone.
LEMMA WrittenFrame ==
  ASSUME Written, UNCHANGED <<conf, domain, boot>>
  PROVE  Written'
BY DEF Written, Named, VcpuCount, DevName

\* domain.xml and the first-boot configuration are written together, and once.
LEMMA WrittenStep ==
  ASSUME IInv, [Next]_vars
  PROVE  Written'
<1> USE DEF IInv
<1>1. CASE CallCreate
  <2>1. UNCHANGED <<conf, domain, boot>>
    BY <1>1 DEF CallCreate, Step, keptVars
  <2> QED
    BY <2>1, WrittenFrame
<1>2. CASE CreateRefused
  <2>1. UNCHANGED <<conf, domain, boot>>
    BY <1>2 DEF CreateRefused, Fail, keptVars, mounts
  <2> QED
    BY <2>1, WrittenFrame
<1>3. CASE KeepMount
  <2>1. UNCHANGED <<conf, domain, boot>>
    BY <1>3 DEF KeepMount, NextMount, Step, keptVars, mounts, Redirected
  <2> QED
    BY <2>1, WrittenFrame
<1>4. CASE ShareDirectory
  <2>1. UNCHANGED <<conf, domain, boot>>
    BY <1>4 DEF ShareDirectory, NextMount, Step, keptVars, Redirected
  <2> QED
    BY <2>1, WrittenFrame
<1>5. CASE AttachMount
  <2>1. UNCHANGED <<conf, domain, boot>>
    BY <1>5 DEF AttachMount, NextMount, Step, keptVars, Attach
  <2> QED
    BY <2>1, WrittenFrame
<1>6. CASE TmpfsInGuest
  <2>1. UNCHANGED <<conf, domain, boot>>
    BY <1>6 DEF TmpfsInGuest, NextMount, Step, keptVars
  <2> QED
    BY <2>1, WrittenFrame
<1>7. CASE RefuseMount
  <2>1. UNCHANGED <<conf, domain, boot>>
    BY <1>7 DEF RefuseMount, Fail, keptVars, mounts
  <2> QED
    BY <2>1, WrittenFrame
<1>8. CASE ToDevices
  <2>1. UNCHANGED <<conf, domain, boot>>
    BY <1>8 DEF ToDevices, Step, keptVars, mounts
  <2> QED
    BY <2>1, WrittenFrame
<1>9. CASE SkipCharDevice
  <2>1. UNCHANGED <<conf, domain, boot>>
    BY <1>9 DEF SkipCharDevice, NextDevice, Step, mounts
  <2> QED
    BY <2>1, WrittenFrame
<1>10. CASE AttachDevice
  <2>1. UNCHANGED <<conf, domain, boot>>
    BY <1>10 DEF AttachDevice, NextDevice, Step, Attach
  <2> QED
    BY <2>1, WrittenFrame
<1>11. CASE MknodFails
  <2>1. UNCHANGED <<conf, domain, boot>>
    BY <1>11 DEF MknodFails, Fail, keptVars, mounts
  <2> QED
    BY <2>1, WrittenFrame
<1>12. CASE ToBlockdevs
  <2>1. UNCHANGED <<conf, domain, boot>>
    BY <1>12 DEF ToBlockdevs, Step, keptVars, mounts
  <2> QED
    BY <2>1, WrittenFrame
<1>13. CASE AttachBlockdev
  <2>1. UNCHANGED <<conf, domain, boot>>
    BY <1>13 DEF AttachBlockdev, Step, keptVars, Attach
  <2> QED
    BY <2>1, WrittenFrame
<1>14. CASE RefuseBlockdev
  <2>1. UNCHANGED <<conf, domain, boot>>
    BY <1>14 DEF RefuseBlockdev, Fail, keptVars, mounts
  <2> QED
    BY <2>1, WrittenFrame
<1>15. CASE ToConfig
  <2>1. UNCHANGED <<conf, domain, boot>>
    BY <1>15 DEF ToConfig, Step, keptVars, mounts
  <2> QED
    BY <2>1, WrittenFrame
<1>16. CASE WriteConfig
  <2>1. domain' = Domain /\ boot' = FirstBoot /\ UNCHANGED <<conf, block>>
    BY <1>16 DEF WriteConfig, Step, mounts
  <2>2. "vcpus" \in DOMAIN Domain /\ "symlinks" \in DOMAIN FirstBoot
    BY DEF Domain, FirstBoot
  <2>3. DOMAIN Absent = {}
    BY DEF Absent
  <2>4. domain' # Absent /\ boot' # Absent
    BY <2>1, <2>2, <2>3
  <2>5. Domain.vcpus = VcpuCount /\ Domain.disks = Disks
    BY DEF Domain
  <2>6. VcpuCount' = VcpuCount
    BY <2>1 DEF VcpuCount
  <2>7. IsSeq(block)
    BY DEF Sizes, Lists
  <2>8. Named'
    BY <2>1, <2>5, <2>7, DisksNamed DEF Named, DevName
  <2> QED
    BY <2>1, <2>4, <2>5, <2>6, <2>8 DEF Written
<1>17. CASE KeepConfig
  <2>1. UNCHANGED <<conf, domain, boot>>
    BY <1>17 DEF KeepConfig, Step, keptVars, mounts
  <2> QED
    BY <2>1, WrittenFrame
<1>18. CASE CrunCreate
  <2>1. UNCHANGED <<conf, domain, boot>>
    BY <1>18 DEF CrunCreate, Step, mounts
  <2> QED
    BY <2>1, WrittenFrame
<1>19. CASE CrunFails
  <2>1. UNCHANGED <<conf, domain, boot>>
    BY <1>19 DEF CrunFails, Fail, keptVars, mounts
  <2> QED
    BY <2>1, WrittenFrame
<1>20. CASE BootVm
  <2>1. UNCHANGED <<conf, domain, boot>>
    BY <1>20 DEF BootVm, Step, keptVars, mounts
  <2> QED
    BY <2>1, WrittenFrame
<1>21. CASE BootFails
  <2>1. UNCHANGED <<conf, domain, boot>>
    BY <1>21 DEF BootFails, Fail, keptVars, mounts
  <2> QED
    BY <2>1, WrittenFrame
<1>22. CASE Again
  <2>1. UNCHANGED <<conf, domain, boot>>
    BY <1>22 DEF Again, keptVars, mounts
  <2> QED
    BY <2>1, WrittenFrame
<1>23. CASE HostChanges
  <2>1. UNCHANGED <<conf, domain, boot>>
    BY <1>23 DEF HostChanges, createVars, keptVars, mounts
  <2> QED
    BY <2>1, WrittenFrame
<1>24. CASE UNCHANGED vars
  BY <1>24, WrittenFrame DEF vars, createVars, keptVars, mounts
<1> QED
  BY <1>1, <1>2, <1>3, <1>4, <1>5, <1>6, <1>7, <1>8, <1>9, <1>10, <1>11,
     <1>12, <1>13, <1>14, <1>15, <1>16, <1>17, <1>18, <1>19, <1>20, <1>21,
     <1>22, <1>23, <1>24 DEF Next

\* Before the first create nothing is written.
LEMMA Initial == Init => IInv
<1> SUFFICES ASSUME Init PROVE IInv
  OBVIOUS
<1>1. 0 \in 0..MaxChanges /\ conf \in Configs
  BY DEF Init
<1>2. Plain
  BY <1>1 DEF Init, Plain, Possible
<1>3. Len(conf.mounts) >= 0 /\ Len(conf.blockdevs) >= 0
  BY <1>1, ConfigLists
<1>4. Lists /\ InMounts
  BY EmptyIsSeq DEF Init, Lists, InMounts
<1>5. FewBlockdevs /\ FewFound
  BY <1>3, EmptyIsSeq DEF Init, FewBlockdevs, FewFound
<1>6. OneEach /\ Written
  BY DEF Init, OneEach, Written
<1> QED
  BY <1>2, <1>4, <1>5, <1>6 DEF IInv, Sizes

-----------------------------------------------------------------------------
(* The theorems                                                            *)

\* Every reachable state satisfies the inductive invariant.
THEOREM Invariance == Spec => []IInv
<1>1. Init => IInv
  BY Initial
<1>2. IInv /\ [Next]_vars => IInv'
  BY PlainStep, SizesStep, OneEachStep, WrittenStep DEF IInv
<1> QED
  BY <1>1, <1>2, PTL DEF Spec

\* The variables stay in their sets, and no number has two files.
THEOREM TypeCorrect == Spec => []TypeOK
<1>1. IInv => TypeOK
  BY DEF IInv, Plain, Sizes, Lists, FewBlockdevs, FewFound, OneEach,
         Written, TypeOK
<1> QED
  BY <1>1, Invariance, PTL

\* Remainders of fewer numbers than the divisor are distinct, of more are not.
LEMMA NamesRepeat ==
  /\ \A i \in 0..(Letters - 1) : DevName(i) = i
  /\ DevName(Letters) = 0
BY DEF DevName

\* With any alphabet, the names are distinct up to its length and no further.
THEOREM DiskNamesCorrect == Spec => []DiskNamesDistinct
<1>1. ASSUME IInv, domain # Absent
      PROVE  Len(domain.disks) <= Letters
               <=> IsInjective([i \in DOMAIN domain.disks |->
                                  domain.disks[i].dev])
  <2> DEFINE n == Len(domain.disks)
             dev == [i \in DOMAIN domain.disks |-> domain.disks[i].dev]
  <2>1. /\ n \in Nat /\ DOMAIN dev = 1..n
        /\ \A i \in 1..n : dev[i] = DevName(i - 1)
    BY <1>1 DEF IInv, Written, Named
  <2> HIDE DEF n, dev
  <2>2. ASSUME n <= Letters PROVE IsInjective(dev)
    <3>1. \A i \in 1..n : dev[i] = i - 1
      BY <2>1, <2>2, NamesRepeat
    <3> QED
      BY <2>1, <3>1 DEF IsInjective
  <2>3. ASSUME n > Letters PROVE ~IsInjective(dev)
    <3>1. 1 \in 1..n /\ Letters + 1 \in 1..n /\ 1 # Letters + 1
      BY <2>1, <2>3
    <3>2. dev[1] = 0 /\ dev[Letters + 1] = 0
      BY <2>1, <3>1, NamesRepeat
    <3> QED
      BY <2>1, <3>1, <3>2 DEF IsInjective
  <2>4. n <= Letters \/ n > Letters
    BY <2>1
  <2> QED
    BY <2>2, <2>3, <2>4 DEF n, dev
<1>2. IInv => DiskNamesDistinct
  BY <1>1 DEF DiskNamesDistinct
<1> QED
  BY <1>2, Invariance, PTL

\* Division rounds down, so that what the code computes is rounded up.
LEMMA RoundedUp ==
  ASSUME NEW q \in Nat \ {0}, NEW p \in Nat \ {0}
  PROVE  LET v == (q + p - 1) \div p
         IN v \in Nat \ {0} /\ v * p >= q /\ (v - 1) * p < q
<1> DEFINE v == (q + p - 1) \div p
           r == (q + p - 1) % p
<1>1. v \in Int /\ r \in 0..(p - 1) /\ q + p - 1 = p * v + r
  OBVIOUS
<1>2. v * p = p * v /\ (v - 1) * p = p * v - p /\ p * v \in Int
  BY <1>1
<1>3. v > 0
  <2>1. ASSUME v <= 0 PROVE p * v <= 0
    BY <1>1, <2>1
  <2> QED
    BY <1>1, <1>2, <2>1
<1> QED
  BY <1>1, <1>2, <1>3

\* For every quota, period and word size, the VM has the fewest CPUs that do.
THEOREM VcpusCorrect == Spec => []VcpusFitQuota
<1>1. ASSUME IInv, domain # Absent
      PROVE  /\ domain.vcpus > 0
             /\ conf.cpu # <<>> /\ conf.cpu[1] > 0 /\ conf.cpu[2] > 0
                  /\ conf.cpu[1] + conf.cpu[2] <= MaxWord =>
                  /\ domain.vcpus * conf.cpu[2] >= conf.cpu[1]
                  /\ (domain.vcpus - 1) * conf.cpu[2] < conf.cpu[1]
  <2>1. domain.vcpus = VcpuCount
    BY <1>1 DEF IInv, Written
  <2>2. conf.cpu = <<>> \/ (conf.cpu[1] \in Int /\ conf.cpu[2] \in Nat /\ conf.cpu # <<>>)
    BY <1>1, ConfigsAssumption DEF IInv, Plain
  <2>3. CASE conf.cpu = <<>>
    BY <2>1, <2>3 DEF VcpuCount
  <2>4. CASE conf.cpu # <<>>
    <3> DEFINE q == conf.cpu[1]
               p == conf.cpu[2]
    <3>1. q \in Int /\ p \in Nat
      BY <2>2, <2>4
    <3>2. VcpuCount = IF q <= 0 \/ q + p > MaxWord \/ p = 0 THEN Cpus
                      ELSE (q + p - 1) \div p
      BY <2>4 DEF VcpuCount
    <3> HIDE DEF q, p
    <3>3. CASE q <= 0 \/ q + p > MaxWord \/ p = 0
      BY <2>1, <3>1, <3>2, <3>3 DEF q, p
    <3>4. CASE ~(q <= 0 \/ q + p > MaxWord \/ p = 0) /\ p > 0
      <4>1. q \in Nat \ {0} /\ p \in Nat \ {0}
        BY <3>1, <3>4
      <4>2. /\ VcpuCount \in Nat \ {0}
            /\ VcpuCount * p >= q /\ (VcpuCount - 1) * p < q
        BY <3>2, <3>4, <4>1, RoundedUp
      <4> QED
        BY <2>1, <4>1, <4>2 DEF q, p
    <3> QED
      BY <3>1, <3>3, <3>4
  <2> QED
    BY <2>3, <2>4
<1>2. IInv => VcpusFitQuota
  BY <1>1 DEF VcpusFitQuota
<1> QED
  BY <1>2, Invariance, PTL
===============================================================================
