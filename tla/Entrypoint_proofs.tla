-------------------------- MODULE Entrypoint_proofs --------------------------
(***************************************************************************)
(* Theorems about Entrypoint and their proofs, for every bound on the      *)
(* guest's reboots.                                                        *)
(*                                                                         *)
(* What the script does with a SIGTERM depends on where it is, and whether *)
(* a VM runs is known only to libvirt. IInv ties the two together: Script, *)
(* what the script's position says of what was started; Launched, what the *)
(* state of virsh says of the VM; Leaving, what is true once the script    *)
(* has decided to end.                                                     *)
(***************************************************************************)
EXTENDS Entrypoint, TLAPS

\* Up to the launch nothing was launched; up to the shutdown no SIGTERM has
\* met a VM; libvirt's daemon runs, or has died, from its start on.
Script ==
  /\ pc \in {"off", "begin"} \cup (EarlySteps \ {"trap"}) => virsh = "none"
  /\ pc \in {"begin", "wait"} \cup EarlySteps => ~ran
  /\ pc = "daemons" => ~locks
  /\ pc \in {"begin", "locks", "daemons"} => libvirtd = "down"
  /\ pc \in Steps \ {"begin", "locks", "daemons"} => libvirtd # "down"

\* A VM runs only after virsh started it, and virsh's end is news of the VM's,
\* unless the daemon between them died.
Launched ==
  /\ virsh \in {"none", "starting"} => vm = "off"
  /\ virsh = "ended" /\ libvirtd = "up" => vm = "off"
  /\ pc # "off" /\ ran => virsh \notin {"none", "starting"}

\* Why the script ends, and what it knows then.
Leaving ==
  /\ pc \in Steps => exit = "none"
  /\ pc = "exit" => exit \notin {"none", "killed"}
  /\ pc = "exit" /\ exit = "no-image" => virsh = "none"
  /\ pc = "exit" /\ exit = "ended" => virsh = "ended" /\ libvirtd # "down"
  /\ pc = "exit" /\ exit = "shutdown" /\ ran => vm = "off"
  /\ exit = "failed" => libvirtd = "died" /\ (pc = "exit" => virsh = "none")

IInv == TypeOK /\ Script /\ Launched /\ Leaving

-----------------------------------------------------------------------------
(* The inductive step                                                      *)

USE RebootsAssumption
USE DEF Steps, EarlySteps, ShutdownSteps, Running

\* No step takes a variable out of its set.
LEMMA TypeStep ==
  ASSUME TypeOK, [Next]_vars
  PROVE  TypeOK'
<1> USE DEF TypeOK
<1>1. CASE SetTrap
  BY <1>1 DEF SetTrap, Advance
<1>2. CASE CleanLocks
  <2>1. pc' \in Steps /\ locks' \in BOOLEAN
    BY <1>2 DEF CleanLocks, Advance
  <2>2. UNCHANGED <<exit, libvirtd, defined, image, term, virsh, vm, obeys, ran,
                    reboots>>
    BY <1>2 DEF CleanLocks, Advance
  <2> QED
    BY <2>1, <2>2
<1>3. CASE StartDaemons
  BY <1>3 DEF StartDaemons, Advance
<1>4. CASE NeedImage
  BY <1>4 DEF NeedImage, Advance
<1>5. CASE SeeFifo
  BY <1>5 DEF SeeFifo, Advance
<1>6. CASE CatEnds
  BY <1>6 DEF CatEnds
<1>7. CASE MoveImage
  BY <1>7 DEF MoveImage, Advance
<1>8. CASE NoImage
  BY <1>8 DEF NoImage, Leave
<1>9. CASE Define
  BY <1>9 DEF Define, Advance, ListIsEmpty
<1>10. CASE DefineFails
  BY <1>10 DEF DefineFails, Leave, ListIsEmpty
<1>11. CASE Launch
  BY <1>11 DEF Launch
<1>12. CASE SetShutdownTrap
  BY <1>12 DEF SetShutdownTrap, Advance
<1>13. CASE TermEarly
  BY <1>13 DEF TermEarly, Leave
<1>14. CASE WaitReturns
  BY <1>14 DEF WaitReturns, Leave
<1>15. CASE TermShutsDown
  <2>1. ran' \in BOOLEAN
    BY <1>15, Zenon DEF TermShutsDown
  <2>2. pc' \in Steps /\ term' \in BOOLEAN
    BY <1>15 DEF TermShutsDown
  <2>3. UNCHANGED <<exit, locks, libvirtd, defined, image, virsh, vm, obeys,
                    reboots>>
    BY <1>15 DEF TermShutsDown
  <2> QED
    BY <2>1, <2>2, <2>3
<1>16. CASE Request
  BY <1>16 DEF Request, PowerButton
<1>17. CASE CheckOff
  BY <1>17 DEF CheckOff, Leave, ShutOff
<1>18. CASE CheckOn
  BY <1>18 DEF CheckOn, ShutOff
<1>19. CASE RequestAgain
  BY <1>19 DEF RequestAgain, PowerButton
<1>20. CASE VirshStarts
  BY <1>20 DEF VirshStarts
<1>21. CASE ConsoleCloses
  BY <1>21 DEF ConsoleCloses
<1>22. CASE Detach
  BY <1>22 DEF Detach
<1>23. CASE LibvirtdDies
  BY <1>23 DEF LibvirtdDies
<1>24. CASE GuestUp
  BY <1>24 DEF GuestUp, VmBecomes
<1>25. CASE GuestHalts
  BY <1>25 DEF GuestHalts, VmBecomes
<1>26. CASE VmEnds
  BY <1>26 DEF VmEnds, VmBecomes
<1>27. CASE GuestReboots
  BY <1>27 DEF GuestReboots, VmBecomes
<1>28. CASE Start
  <2>1. reboots' \in 0..MaxReboots
    BY <1>28 DEF Start
  <2> QED
    BY <1>28, <2>1 DEF Start
<1>29. CASE Sigterm
  BY <1>29 DEF Sigterm
<1>30. CASE End
  BY <1>30 DEF End, Gone
<1>31. CASE Sigkill
  BY <1>31 DEF Sigkill, Gone
<1>32. CASE UNCHANGED vars
  BY <1>32 DEF vars
<1> QED
  BY <1>1, <1>2, <1>3, <1>4, <1>5, <1>6, <1>7, <1>8, <1>9, <1>10, <1>11,
     <1>12, <1>13, <1>14, <1>15, <1>16, <1>17, <1>18, <1>19, <1>20, <1>21,
     <1>22, <1>23, <1>24, <1>25, <1>26, <1>27, <1>28, <1>29, <1>30, <1>31,
     <1>32 DEF Next, ScriptStep

\* Script is inductive: the script goes one way only, until it ends.
LEMMA ScriptStepKeeps ==
  ASSUME TypeOK, Script, [Next]_vars
  PROVE  Script'
<1> USE DEF TypeOK, Script
<1>1. CASE SetTrap
  BY <1>1 DEF SetTrap, Advance
<1>2. CASE CleanLocks
  BY <1>2 DEF CleanLocks, Advance
<1>3. CASE StartDaemons
  BY <1>3 DEF StartDaemons, Advance
<1>4. CASE NeedImage
  BY <1>4 DEF NeedImage, Advance
<1>5. CASE SeeFifo
  BY <1>5 DEF SeeFifo, Advance
<1>6. CASE CatEnds
  BY <1>6 DEF CatEnds
<1>7. CASE MoveImage
  BY <1>7 DEF MoveImage, Advance
<1>8. CASE NoImage
  BY <1>8 DEF NoImage, Leave
<1>9. CASE Define
  BY <1>9 DEF Define, Advance, ListIsEmpty
<1>10. CASE DefineFails
  BY <1>10 DEF DefineFails, Leave, ListIsEmpty
<1>11. CASE Launch
  BY <1>11 DEF Launch
<1>12. CASE SetShutdownTrap
  BY <1>12 DEF SetShutdownTrap, Advance
<1>13. CASE TermEarly
  BY <1>13 DEF TermEarly, Leave
<1>14. CASE WaitReturns
  BY <1>14 DEF WaitReturns, Leave
<1>15. CASE TermShutsDown
  BY <1>15 DEF TermShutsDown
<1>16. CASE Request
  BY <1>16 DEF Request, PowerButton
<1>17. CASE CheckOff
  BY <1>17 DEF CheckOff, Leave, ShutOff
<1>18. CASE CheckOn
  BY <1>18 DEF CheckOn, ShutOff
<1>19. CASE RequestAgain
  BY <1>19 DEF RequestAgain, PowerButton
<1>20. CASE VirshStarts
  BY <1>20 DEF VirshStarts
<1>21. CASE ConsoleCloses
  BY <1>21 DEF ConsoleCloses
<1>22. CASE Detach
  BY <1>22 DEF Detach
<1>23. CASE LibvirtdDies
  BY <1>23 DEF LibvirtdDies
<1>24. CASE GuestUp
  BY <1>24 DEF GuestUp, VmBecomes
<1>25. CASE GuestHalts
  BY <1>25 DEF GuestHalts, VmBecomes
<1>26. CASE VmEnds
  BY <1>26 DEF VmEnds, VmBecomes
<1>27. CASE GuestReboots
  BY <1>27 DEF GuestReboots, VmBecomes
<1>28. CASE Start
  BY <1>28 DEF Start
<1>29. CASE Sigterm
  BY <1>29 DEF Sigterm
<1>30. CASE End
  BY <1>30 DEF End, Gone
<1>31. CASE Sigkill
  BY <1>31 DEF Sigkill, Gone
<1>32. CASE UNCHANGED vars
  BY <1>32 DEF vars
<1> QED
  BY <1>1, <1>2, <1>3, <1>4, <1>5, <1>6, <1>7, <1>8, <1>9, <1>10, <1>11,
     <1>12, <1>13, <1>14, <1>15, <1>16, <1>17, <1>18, <1>19, <1>20, <1>21,
     <1>22, <1>23, <1>24, <1>25, <1>26, <1>27, <1>28, <1>29, <1>30, <1>31,
     <1>32 DEF Next, ScriptStep

\* Launched rests on Script: virsh starts a VM only after the launch, and the
\* shutdown begins only after that.
LEMMA LaunchedStep ==
  ASSUME TypeOK, Script, Launched, [Next]_vars
  PROVE  Launched'
<1> USE DEF TypeOK, Script, Launched
<1>1. CASE SetTrap
  BY <1>1 DEF SetTrap, Advance
<1>2. CASE CleanLocks
  BY <1>2 DEF CleanLocks, Advance
<1>3. CASE StartDaemons
  BY <1>3 DEF StartDaemons, Advance
<1>4. CASE NeedImage
  BY <1>4 DEF NeedImage, Advance
<1>5. CASE SeeFifo
  BY <1>5 DEF SeeFifo, Advance
<1>6. CASE CatEnds
  BY <1>6 DEF CatEnds
<1>7. CASE MoveImage
  BY <1>7 DEF MoveImage, Advance
<1>8. CASE NoImage
  BY <1>8 DEF NoImage, Leave
<1>9. CASE Define
  BY <1>9 DEF Define, Advance, ListIsEmpty
<1>10. CASE DefineFails
  BY <1>10 DEF DefineFails, Leave, ListIsEmpty
<1>11. CASE Launch
  BY <1>11 DEF Launch
<1>12. CASE SetShutdownTrap
  BY <1>12 DEF SetShutdownTrap, Advance
<1>13. CASE TermEarly
  BY <1>13 DEF TermEarly, Leave
<1>14. CASE WaitReturns
  BY <1>14 DEF WaitReturns, Leave
<1>15. CASE TermShutsDown
  BY <1>15 DEF TermShutsDown
<1>16. CASE Request
  BY <1>16 DEF Request, PowerButton
<1>17. CASE CheckOff
  BY <1>17 DEF CheckOff, Leave, ShutOff
<1>18. CASE CheckOn
  BY <1>18 DEF CheckOn, ShutOff
<1>19. CASE RequestAgain
  BY <1>19 DEF RequestAgain, PowerButton
<1>20. CASE VirshStarts
  BY <1>20 DEF VirshStarts
<1>21. CASE ConsoleCloses
  BY <1>21 DEF ConsoleCloses
<1>22. CASE Detach
  BY <1>22 DEF Detach
<1>23. CASE LibvirtdDies
  BY <1>23 DEF LibvirtdDies
<1>24. CASE GuestUp
  BY <1>24 DEF GuestUp, VmBecomes
<1>25. CASE GuestHalts
  BY <1>25 DEF GuestHalts, VmBecomes
<1>26. CASE VmEnds
  BY <1>26 DEF VmEnds, VmBecomes
<1>27. CASE GuestReboots
  BY <1>27 DEF GuestReboots, VmBecomes
<1>28. CASE Start
  BY <1>28 DEF Start
<1>29. CASE Sigterm
  BY <1>29 DEF Sigterm
<1>30. CASE End
  BY <1>30 DEF End, Gone
<1>31. CASE Sigkill
  BY <1>31 DEF Sigkill, Gone
<1>32. CASE UNCHANGED vars
  BY <1>32 DEF vars
<1> QED
  BY <1>1, <1>2, <1>3, <1>4, <1>5, <1>6, <1>7, <1>8, <1>9, <1>10, <1>11,
     <1>12, <1>13, <1>14, <1>15, <1>16, <1>17, <1>18, <1>19, <1>20, <1>21,
     <1>22, <1>23, <1>24, <1>25, <1>26, <1>27, <1>28, <1>29, <1>30, <1>31,
     <1>32 DEF Next, ScriptStep

\* Leaving rests on both: the script ends for one reason, of which nothing that
\* happens before the container is gone takes anything back.
LEMMA LeavingStep ==
  ASSUME IInv, [Next]_vars
  PROVE  Leaving'
<1> USE DEF IInv, TypeOK, Script, Launched, Leaving
<1>1. CASE SetTrap
  BY <1>1 DEF SetTrap, Advance
<1>2. CASE CleanLocks
  BY <1>2 DEF CleanLocks, Advance
<1>3. CASE StartDaemons
  BY <1>3 DEF StartDaemons, Advance
<1>4. CASE NeedImage
  BY <1>4 DEF NeedImage, Advance
<1>5. CASE SeeFifo
  BY <1>5 DEF SeeFifo, Advance
<1>6. CASE CatEnds
  BY <1>6 DEF CatEnds
<1>7. CASE MoveImage
  BY <1>7 DEF MoveImage, Advance
<1>8. CASE NoImage
  BY <1>8 DEF NoImage, Leave
<1>9. CASE Define
  BY <1>9 DEF Define, Advance, ListIsEmpty
<1>10. CASE DefineFails
  BY <1>10 DEF DefineFails, Leave, ListIsEmpty
<1>11. CASE Launch
  BY <1>11 DEF Launch
<1>12. CASE SetShutdownTrap
  BY <1>12 DEF SetShutdownTrap, Advance
<1>13. CASE TermEarly
  BY <1>13 DEF TermEarly, Leave
<1>14. CASE WaitReturns
  BY <1>14 DEF WaitReturns, Leave
<1>15. CASE TermShutsDown
  BY <1>15 DEF TermShutsDown
<1>16. CASE Request
  BY <1>16 DEF Request, PowerButton
<1>17. CASE CheckOff
  BY <1>17 DEF CheckOff, Leave, ShutOff
<1>18. CASE CheckOn
  BY <1>18 DEF CheckOn, ShutOff
<1>19. CASE RequestAgain
  BY <1>19 DEF RequestAgain, PowerButton
<1>20. CASE VirshStarts
  BY <1>20 DEF VirshStarts
<1>21. CASE ConsoleCloses
  BY <1>21 DEF ConsoleCloses
<1>22. CASE Detach
  BY <1>22 DEF Detach
<1>23. CASE LibvirtdDies
  BY <1>23 DEF LibvirtdDies
<1>24. CASE GuestUp
  BY <1>24 DEF GuestUp, VmBecomes
<1>25. CASE GuestHalts
  BY <1>25 DEF GuestHalts, VmBecomes
<1>26. CASE VmEnds
  BY <1>26 DEF VmEnds, VmBecomes
<1>27. CASE GuestReboots
  BY <1>27 DEF GuestReboots, VmBecomes
<1>28. CASE Start
  BY <1>28 DEF Start
<1>29. CASE Sigterm
  BY <1>29 DEF Sigterm
<1>30. CASE End
  BY <1>30 DEF End, Gone
<1>31. CASE Sigkill
  BY <1>31 DEF Sigkill, Gone
<1>32. CASE UNCHANGED vars
  BY <1>32 DEF vars
<1> QED
  BY <1>1, <1>2, <1>3, <1>4, <1>5, <1>6, <1>7, <1>8, <1>9, <1>10, <1>11,
     <1>12, <1>13, <1>14, <1>15, <1>16, <1>17, <1>18, <1>19, <1>20, <1>21,
     <1>22, <1>23, <1>24, <1>25, <1>26, <1>27, <1>28, <1>29, <1>30, <1>31,
     <1>32 DEF Next, ScriptStep

\* The invariant: what the script's position, virsh, libvirt and the VM know of
\* one another, at any time of any run of the container.
THEOREM Invariance == Spec => []IInv
<1>1. Init => IInv
  <2> SUFFICES ASSUME Init PROVE IInv
    OBVIOUS
  <2>1. reboots \in 0..MaxReboots
    BY DEF Init
  <2>2. TypeOK
    BY <2>1 DEF Init, TypeOK
  <2> QED
    BY <2>2 DEF Init, IInv, Script, Launched, Leaving
<1>2. IInv /\ [Next]_vars => IInv'
  BY TypeStep, ScriptStepKeeps, LaunchedStep, LeavingStep DEF IInv
<1> QED
  BY <1>1, <1>2, PTL DEF Spec

\* Every variable keeps its type.
THEOREM TypeCorrect == Spec => []TypeOK
<1>1. IInv => TypeOK
  BY DEF IInv
<1> QED
  BY <1>1, Invariance, PTL

\* __shutdown leaves no VM running that ran when it was called.
THEOREM ShutdownCorrect == Spec => []GracefulShutdown
<1>1. IInv => GracefulShutdown
  BY DEF IInv, Leaving, GracefulShutdown
<1> QED
  BY <1>1, Invariance, PTL

\* `wait` returns only after the VM, short of a detached console or a dead
\* daemon.
THEOREM WaitCorrect == Spec => []LastsAsLongAsVm
<1>1. IInv => LastsAsLongAsVm
  BY DEF IInv, Leaving, Launched, LastsAsLongAsVm
<1> QED
  BY <1>1, Invariance, PTL

\* Nothing an earlier run left, wherever it was killed, makes the script fail.
THEOREM RestartCorrect == Spec => []Restartable
<1>1. IInv => Restartable
  BY DEF IInv, Leaving, Restartable
<1> QED
  BY <1>1, Invariance, PTL

-----------------------------------------------------------------------------
(* The refinement                                                          *)

\* Every step is one of VmRun, or none.
LEMMA RefinementStep ==
  ASSUME IInv, Next
  PROVE  VmRun!VmRunNext \/ UNCHANGED VmRun!vmRunVars
<1> USE DEF IInv, TypeOK, VmRun!vmRunVars
<1>1. CASE SetTrap
  BY <1>1 DEF SetTrap, Advance, Script, Leaving
<1>2. CASE CleanLocks
  BY <1>2 DEF CleanLocks, Advance, Script, Leaving
<1>3. CASE StartDaemons
  <2>1. ~locks /\ libvirtd = "down"
    BY <1>3 DEF StartDaemons, Advance, Script
  <2>2. libvirtd' = "up" /\ exit' = exit /\ pc' = "image"
    BY <1>3, <2>1 DEF StartDaemons, Advance
  <2> QED
    BY <1>3, <2>1, <2>2 DEF StartDaemons, Advance
<1>4. CASE NeedImage
  BY <1>4 DEF NeedImage, Advance, Script, Leaving
<1>5. CASE SeeFifo
  BY <1>5 DEF SeeFifo, Advance, Script, Leaving
<1>6. CASE CatEnds
  BY <1>6 DEF CatEnds, Script, Leaving
<1>7. CASE MoveImage
  BY <1>7 DEF MoveImage, Advance, Script, Leaving
<1>8. CASE NoImage
  BY <1>8 DEF NoImage, Leave, Script, Leaving
<1>9. CASE Define
  BY <1>9 DEF Define, Advance, ListIsEmpty, Script, Leaving
<1>10. CASE DefineFails
  BY <1>10 DEF DefineFails, Leave, ListIsEmpty, Script, Leaving
<1>11. CASE Launch
  BY <1>11 DEF Launch, Script, Leaving
<1>12. CASE SetShutdownTrap
  BY <1>12 DEF SetShutdownTrap, Advance, Script, Leaving
<1>13. CASE TermEarly
  BY <1>13 DEF TermEarly, Leave, Leaving, VmRun!VmRunNext, VmRun!ForceEnd
<1>14. CASE WaitReturns
  BY <1>14 DEF WaitReturns, Leave, Leaving, VmRun!VmRunNext, VmRun!ForceEnd
<1>15. CASE TermShutsDown
  BY <1>15 DEF TermShutsDown, Script, Leaving
<1>16. CASE Request
  BY <1>16 DEF Request, PowerButton, VmRun!VmRunNext, VmRun!GuestStep
<1>17. CASE CheckOff
  BY <1>17 DEF CheckOff, Leave, ShutOff, Leaving, VmRun!VmRunNext,
     VmRun!ForceEnd
<1>18. CASE CheckOn
  BY <1>18 DEF CheckOn, ShutOff, Script, Leaving
<1>19. CASE RequestAgain
  BY <1>19 DEF RequestAgain, PowerButton, VmRun!VmRunNext, VmRun!GuestStep
<1>20. CASE VirshStarts
  BY <1>20 DEF VirshStarts, Script, Leaving, VmRun!VmRunNext,
     VmRun!LaunchVm
<1>21. CASE ConsoleCloses
  BY <1>21 DEF ConsoleCloses, Script, Leaving
<1>22. CASE Detach
  BY <1>22 DEF Detach, Script, Leaving
<1>23. CASE LibvirtdDies
  BY <1>23 DEF LibvirtdDies, VmRun!VmRunNext, VmRun!ForceEnd
<1>24. CASE GuestUp
  BY <1>24 DEF GuestUp, VmBecomes, VmRun!VmRunNext, VmRun!GuestStep
<1>25. CASE GuestHalts
  BY <1>25 DEF GuestHalts, VmBecomes, VmRun!VmRunNext, VmRun!GuestStep
<1>26. CASE VmEnds
  BY <1>26 DEF VmEnds, VmBecomes, VmRun!VmRunNext, VmRun!GuestStep
<1>27. CASE GuestReboots
  BY <1>27 DEF GuestReboots, VmBecomes, VmRun!VmRunNext, VmRun!GuestStep
<1>28. CASE Start
  BY <1>28 DEF Start, Script, VmRun!VmRunNext, VmRun!Begin
<1>29. CASE Sigterm
  BY <1>29 DEF Sigterm, Script, Leaving
<1>30. CASE End
  BY <1>30 DEF End, Gone, Launched, Leaving, VmRun!VmRunNext, VmRun!Quit,
     VmRun!RunOver
<1>31. CASE Sigkill
  BY <1>31 DEF Sigkill, Gone, VmRun!VmRunNext, VmRun!Kill, VmRun!RunOver
<1> QED
  BY <1>1, <1>2, <1>3, <1>4, <1>5, <1>6, <1>7, <1>8, <1>9, <1>10, <1>11,
     <1>12, <1>13, <1>14, <1>15, <1>16, <1>17, <1>18, <1>19, <1>20, <1>21,
     <1>22, <1>23, <1>24, <1>25, <1>26, <1>27, <1>28, <1>29, <1>30, <1>31
     DEF Next, ScriptStep

\* Entrypoint implements VmRun: one launch in a run, which lasts until the VM
\* is off, unless it is forced to end.
THEOREM Refinement == Spec => ImplementsVmRun
<1>1. Init => VmRun!VmRunInit
  BY DEF Init, VmRun!VmRunInit
<1>2. IInv /\ [Next]_vars => [VmRun!VmRunNext]_(VmRun!vmRunVars)
  <2> SUFFICES ASSUME IInv, [Next]_vars
               PROVE  [VmRun!VmRunNext]_(VmRun!vmRunVars)
    OBVIOUS
  <2>1. CASE Next
    BY <2>1, RefinementStep
  <2>2. CASE UNCHANGED vars
    BY <2>2 DEF vars, VmRun!vmRunVars
  <2> QED
    BY <2>1, <2>2
<1> QED
  BY <1>1, <1>2, Invariance, PTL DEF Spec, ImplementsVmRun, VmRun!VmRunSpec
=============================================================================
