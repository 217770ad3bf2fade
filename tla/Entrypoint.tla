----------------------------- MODULE Entrypoint -----------------------------
(***************************************************************************)
(* embed/entrypoint.sh, the process 1 of a container: it starts libvirt's  *)
(* daemons and the VM, waits for the VM to end, and is what a SIGTERM of   *)
(* the engine reaches. One container, started any number of times, with    *)
(* what a killed run leaves to the next one.                               *)
(*                                                                         *)
(* bash looks at a signal between two commands, so a step of the script    *)
(* with a SIGTERM pending is not taken, save `cat`, which is waited for,   *)
(* and `wait`, which the signal interrupts. While its trap runs, bash      *)
(* does not look at another SIGTERM.                                       *)
(***************************************************************************)
EXTENDS Naturals

CONSTANT MaxReboots   \* bound: how often the guest reboots in one run

ASSUME RebootsAssumption == MaxReboots \in Nat

VARIABLES
  pc,        \* where the script is
  term,      \* a SIGTERM that bash has not looked at yet
  exit,      \* why the script ended
  locks,     \* files of libvirt in /var/lock
  libvirtd,  \* the daemon: "down", "up" or "died"
  defined,   \* whether libvirt has the domain
  image,     \* whether there is an image/image
  virsh,     \* the `virsh start --console` in the background
  vm,        \* the VM; "halting" once the guest noticed the power button
  obeys,     \* whether the guest reacts to the power button
  ran,       \* whether the VM ran when the SIGTERM was looked at
  reboots    \* how often the guest rebooted in this run

vars == <<pc, term, exit, locks, libvirtd, defined, image, virsh, vm, obeys,
          ran, reboots>>

\* The steps during which a SIGTERM just ends the script (line 4).
EarlySteps ==
  {"locks", "daemons", "image", "poll", "cat", "mv", "define", "launch",
   "trap"}

\* The steps of __shutdown.
ShutdownSteps == {"request", "check", "again"}

Steps == {"begin"} \cup EarlySteps \cup {"wait"} \cup ShutdownSteps

Running == pc # "off"

-----------------------------------------------------------------------------
Init ==
  /\ pc = "off"
  /\ term = FALSE
  /\ exit = "none"
  /\ locks = FALSE
  /\ libvirtd = "down"
  /\ defined = FALSE
  /\ image \in BOOLEAN
  /\ virsh = "none"
  /\ vm = "off"
  /\ obeys \in BOOLEAN
  /\ ran = FALSE
  /\ reboots = 0

-----------------------------------------------------------------------------
(* The script, up to the launch of the VM                                  *)

\* One step of the script that touches only the script.
Advance(from, to) ==
  /\ pc = from /\ ~term
  /\ pc' = to
  /\ UNCHANGED <<term, virsh, vm, obeys, ran, reboots>>

\* errexit, or exit in a trap: the script is about to be gone.
Leave(why) ==
  /\ pc' = "exit"
  /\ exit' = why
  /\ UNCHANGED <<term, locks, libvirtd, defined, image, virsh, vm, obeys,
                 reboots>>

SetTrap ==
  /\ Advance("begin", "locks")
  /\ UNCHANGED <<exit, locks, libvirtd, defined, image>>

\* Plausible bug: what a killed container left in /var/lock stays.
KeepLocks ==
  /\ Advance("locks", "daemons")
  /\ UNCHANGED <<exit, locks, libvirtd, defined, image>>

CleanLocks ==
  /\ Advance("locks", "daemons")
  /\ locks' = FALSE
  /\ UNCHANGED <<exit, libvirtd, defined, image>>

\* The daemons do not start over the locks of others.
StartDaemons ==
  /\ Advance("daemons", IF locks THEN "exit" ELSE "image")
  /\ exit' = IF locks THEN "failed" ELSE exit
  /\ locks' = TRUE
  /\ libvirtd' = IF locks THEN libvirtd ELSE "up"
  /\ UNCHANGED <<defined, image>>

NeedImage ==
  /\ Advance("image", IF image THEN "define" ELSE "poll")
  /\ UNCHANGED <<exit, locks, libvirtd, defined, image>>

\* The pipe of the conversion is there: when, and whether, is not up to us...
SeeFifo ==
  /\ Advance("poll", "cat")
  /\ UNCHANGED <<exit, locks, libvirtd, defined, image>>

\* ...nor is when cat ends. It does not hear the SIGTERM that bash gets.
CatEnds ==
  /\ pc = "cat"
  /\ pc' = "mv"
  /\ UNCHANGED <<term, exit, locks, libvirtd, defined, image, virsh, vm,
                 obeys, ran, reboots>>

MoveImage ==
  /\ Advance("mv", "define")
  /\ image' = TRUE
  /\ UNCHANGED <<exit, locks, libvirtd, defined>>

\* The conversion reported no success.
NoImage ==
  /\ pc = "mv" /\ ~term
  /\ Leave("no-image")
  /\ UNCHANGED ran

\* `virsh list` says nothing when there is no domain, or no daemon.
ListIsEmpty == ~defined \/ libvirtd # "up"

Define ==
  /\ ~ListIsEmpty \/ (libvirtd = "up" /\ ~defined)
  /\ Advance("define", "launch")
  /\ defined' = TRUE
  /\ UNCHANGED <<exit, locks, libvirtd, image>>

\* libvirt refuses a domain of a name it has.
DefineFails ==
  /\ pc = "define" /\ ~term
  /\ ListIsEmpty /\ (libvirtd # "up" \/ defined)
  /\ Leave("failed")
  /\ UNCHANGED ran

Launch ==
  /\ pc = "launch" /\ ~term
  /\ pc' = "trap"
  /\ virsh' = "starting"
  /\ UNCHANGED <<term, exit, locks, libvirtd, defined, image, vm, obeys, ran,
                 reboots>>

SetShutdownTrap ==
  /\ Advance("trap", "wait")
  /\ UNCHANGED <<exit, locks, libvirtd, defined, image>>

\* `exit 143`, the trap of line 4.
TermEarly ==
  /\ pc \in EarlySteps \ {"cat"}
  /\ term
  /\ Leave("early")
  /\ UNCHANGED ran

\* Plausible bug: libvirt's daemon is a child of the script, too.
WaitForDaemon ==
  /\ pc = "wait"
  /\ virsh \in {"ended", "detached"} /\ libvirtd = "died"
  /\ Leave(virsh)
  /\ UNCHANGED ran

\* Plausible bug: a signal just interrupts `wait`.
WaitInterrupted ==
  /\ pc = "wait"
  /\ virsh \in {"ended", "detached"} \/ term
  /\ Leave(IF term THEN "ended" ELSE virsh)
  /\ UNCHANGED ran

\* virsh, which is all there is to wait for, has ended.
WaitReturns ==
  /\ pc = "wait"
  /\ virsh \in {"ended", "detached"}
  /\ Leave(virsh)
  /\ UNCHANGED ran

-----------------------------------------------------------------------------
(* __shutdown. It is called on the left of `||`, so that errexit, although *)
(* set in it, is without effect, and a virsh that fails ends nothing.      *)

TermShutsDown ==
  /\ pc = "wait" /\ term
  /\ pc' = "request"
  /\ term' = FALSE
  /\ ran' = (vm # "off")
  /\ UNCHANGED <<exit, locks, libvirtd, defined, image, virsh, vm, obeys,
                 reboots>>

\* Plausible bug: the VM is suspended.
SuspendButton == IF vm = "on" /\ libvirtd = "up" THEN {"paused"} ELSE {vm}

\* What `virsh shutdown` makes of the VM: the guest gets a power button
\* pressed, which it may miss while it boots.
PowerButton ==
  IF ~obeys \/ libvirtd # "up" THEN {vm}
  ELSE CASE vm = "on"      -> {"halting"}
         [] vm = "booting" -> {"booting", "halting"}
         [] OTHER          -> {vm}

Request ==
  /\ pc = "request"
  /\ vm' \in PowerButton
  /\ pc' = "check"
  /\ UNCHANGED <<term, exit, locks, libvirtd, defined, image, virsh, obeys,
                 ran, reboots>>

\* Plausible bug: the loop goes on as long as domstate says 'running'.
NotRunning == libvirtd # "up" \/ vm = "off"

\* domstate says 'shut off': also of a domain that was never started, but not
\* when virsh fails.
ShutOff == libvirtd = "up" /\ vm = "off"

CheckOff ==
  /\ pc = "check" /\ ShutOff
  /\ Leave("shutdown")
  /\ UNCHANGED ran

CheckOn ==
  /\ pc = "check" /\ ~ShutOff
  /\ pc' = "again"
  /\ UNCHANGED <<term, exit, locks, libvirtd, defined, image, virsh, vm,
                 obeys, ran, reboots>>

\* Plausible bug: the VM is asked once.
AskOnce ==
  /\ pc = "again"
  /\ pc' = "check"
  /\ UNCHANGED <<term, exit, locks, libvirtd, defined, image, virsh, vm,
                 obeys, ran, reboots>>

RequestAgain ==
  /\ pc = "again"
  /\ vm' \in PowerButton
  /\ pc' = "check"
  /\ UNCHANGED <<term, exit, locks, libvirtd, defined, image, virsh, obeys,
                 ran, reboots>>

ScriptStep ==
  \/ SetTrap \/ CleanLocks \/ StartDaemons
  \/ NeedImage \/ MoveImage \/ NoImage
  \/ Define \/ DefineFails \/ Launch \/ SetShutdownTrap
  \/ TermEarly \/ WaitReturns \/ TermShutsDown
  \/ Request \/ CheckOff \/ CheckOn \/ RequestAgain

-----------------------------------------------------------------------------
(* virsh, libvirt and the guest                                            *)

VirshStarts ==
  /\ virsh = "starting"
  /\ \/ libvirtd = "up" /\ virsh' = "console" /\ vm' = "booting"
     \/ virsh' = "ended" /\ vm' = vm
  /\ UNCHANGED <<pc, term, exit, locks, libvirtd, defined, image, obeys, ran,
                 reboots>>

\* The console is closed with the VM, or with the daemon.
ConsoleCloses ==
  /\ virsh = "console"
  /\ vm = "off" \/ libvirtd = "died"
  /\ virsh' = "ended"
  /\ UNCHANGED <<pc, term, exit, locks, libvirtd, defined, image, vm, obeys,
                 ran, reboots>>

\* The user presses ctrl-].
Detach ==
  /\ virsh = "console"
  /\ virsh' = "detached"
  /\ UNCHANGED <<pc, term, exit, locks, libvirtd, defined, image, vm, obeys,
                 ran, reboots>>

LibvirtdDies ==
  /\ Running /\ libvirtd = "up"
  /\ libvirtd' = "died"
  /\ UNCHANGED <<pc, term, exit, locks, defined, image, virsh, vm, obeys,
                 ran, reboots>>

VmBecomes(from, to) ==
  /\ vm \in from
  /\ vm' = to
  /\ UNCHANGED <<pc, term, exit, locks, libvirtd, defined, image, virsh,
                 obeys, ran>>

GuestUp == VmBecomes({"booting"}, "on") /\ UNCHANGED reboots
GuestHalts == VmBecomes({"halting"}, "off") /\ UNCHANGED reboots

\* The guest powers off by itself, or qemu dies.
VmEnds == VmBecomes({"booting", "on"}, "off") /\ UNCHANGED reboots

GuestReboots ==
  /\ reboots < MaxReboots
  /\ VmBecomes({"on"}, "booting")
  /\ reboots' = reboots + 1

-----------------------------------------------------------------------------
(* The engine and the kernel                                               *)

Start ==
  /\ pc = "off"
  /\ pc' = "begin"
  /\ exit' = "none"
  /\ term' = FALSE
  /\ libvirtd' = "down"
  /\ ran' = FALSE
  /\ reboots' = 0
  /\ UNCHANGED <<locks, defined, image, virsh, vm, obeys>>

\* The kernel drops a SIGTERM for which process 1 has no handler.
Sigterm ==
  /\ pc \in Steps
  /\ term' = (pc # "begin" \/ term)
  /\ UNCHANGED <<pc, exit, locks, libvirtd, defined, image, virsh, vm, obeys,
                 ran, reboots>>

\* With process 1 goes all that runs in the container.
Gone ==
  /\ pc' = "off"
  /\ vm' = "off"
  /\ virsh' = "none"
  /\ UNCHANGED <<term, locks, libvirtd, defined, image, obeys, ran, reboots>>

End ==
  /\ pc = "exit"
  /\ UNCHANGED exit
  /\ Gone

\* The time the engine grants after a SIGTERM is over, or it was not granted.
Sigkill ==
  /\ Running
  /\ exit' = "killed"
  /\ Gone

-----------------------------------------------------------------------------
Next ==
  \/ ScriptStep \/ SeeFifo \/ CatEnds
  \/ VirshStarts \/ ConsoleCloses \/ Detach \/ LibvirtdDies
  \/ GuestUp \/ GuestHalts \/ VmEnds \/ GuestReboots
  \/ Start \/ Sigterm \/ End \/ Sigkill

Spec == Init /\ [][Next]_vars

\* Processes run on, a guest that boots comes up and one that halts goes down.
\* Nothing is assumed of the conversion, the user or the engine: above all not
\* that it kills the container some time.
Fairness ==
  /\ WF_vars(ScriptStep)
  /\ WF_vars(End)
  /\ WF_vars(VirshStarts)
  /\ WF_vars(ConsoleCloses)
  /\ WF_vars(GuestUp)
  /\ WF_vars(GuestHalts)

FairSpec == Spec /\ Fairness

-----------------------------------------------------------------------------
(* Safety                                                                  *)

\* Every variable stays in the set its code counterpart ranges over.
TypeOK ==
  /\ pc \in Steps \cup {"off", "exit"}
  /\ term \in BOOLEAN
  /\ exit \in {"none", "failed", "no-image", "early", "ended", "detached",
               "shutdown", "killed"}
  /\ locks \in BOOLEAN
  /\ libvirtd \in {"down", "up", "died"}
  /\ defined \in BOOLEAN
  /\ image \in BOOLEAN
  /\ virsh \in {"none", "starting", "console", "ended", "detached"}
  /\ vm \in {"off", "booting", "on", "halting"}
  /\ obeys \in BOOLEAN
  /\ ran \in BOOLEAN
  /\ reboots \in 0..MaxReboots

\* A VM that ran when the SIGTERM was looked at is not cut off by the script:
\* __shutdown waits until it is off, even when virsh fails or the guest does
\* not react.
GracefulShutdown == pc = "exit" /\ exit = "shutdown" /\ ran => vm = "off"

\* Without a SIGTERM, the container goes on for as long as its VM runs, unless
\* the user leaves the console or libvirt's daemon dies.
LastsAsLongAsVm ==
  pc = "exit" /\ exit = "ended" /\ libvirtd = "up" => vm = "off"

\* Wherever a run was killed, what it leaves (locks, the domain, the image)
\* does not make the script fail in the next one.
Restartable == exit = "failed" => libvirtd = "died"

\* Entrypoint implements what VmRun promises of each run.
VmRun == INSTANCE VmRun
  WITH up <- Running,
       launched <- virsh \notin {"none", "starting"},
       forced <- \/ libvirtd = "died"
                 \/ exit \in {"killed", "early", "detached"}
                 \/ exit = "shutdown" /\ ~ran
ImplementsVmRun == VmRun!VmRunSpec

-----------------------------------------------------------------------------
(* Liveness                                                                *)

\* A container that got a SIGTERM ends by itself, without being killed, if its
\* guest reacts to the power button: even if the guest misses the first one,
\* reboots instead, or was not started yet. Not while cat runs.
StopHonoured ==
  obeys /\ term /\ pc \in Steps \ {"begin", "cat"}
    ~> pc \in {"off", "cat"} \/ libvirtd = "died"

\* A container whose VM ended ends, also when a SIGTERM arrives meanwhile.
VmEndEndsContainer ==
  pc = "wait" /\ virsh # "starting" /\ vm = "off"
    ~> pc = "off" \/ libvirtd = "died"
=============================================================================
