-------------------------------- MODULE Exec --------------------------------
(***************************************************************************)
(* exec: commands::exec::exec turns the user's command into a call of      *)
(* embed/exec.sh, which tries ssh until the guest lets it in, and only     *)
(* then runs the command. Several execs in one container, over the life of *)
(* the VM that VmRun describes; what one learns of the VM it leaves to the *)
(* others in the marker ssh-successful.                                    *)
(*                                                                         *)
(* Time is what is left to each exec: every second of sleep takes at least *)
(* one unit of it, and an attempt of ssh takes as many as it likes.        *)
(***************************************************************************)
EXTENDS VmRun, Naturals

CONSTANTS
  Execs,           \* the execs that may be under way at once
  MaxLimit,        \* bound: the longest time limit
  Unset, Invalid   \* a limit that is not given, one that is no number

TimeLimits == 0..MaxLimit

ASSUME LimitAssumption == MaxLimit \in Nat
ASSUME UnsetAssumption == Unset \notin TimeLimits /\ Invalid \notin TimeLimits

VARIABLES
  st,       \* where each exec is
  limit,    \* exec.sh's timeout; 0 for none
  left,     \* the time left to it, if it has a limit
  answer,   \* what came of its last attempt of ssh
  runs,     \* how often its command was started in the guest
  result,   \* how it ended
  marker,   \* ssh-successful
  reached   \* whether sshd in the guest was reached in this run

execVars == <<st, limit, left, answer, runs, result, marker, reached>>
vars == <<vmRunVars, execVars>>

\* exec.sh in its loop, in its last ssh, and a command in the container.
Probing == {"check", "attempt", "judge"}
Steps == Probing \cup {"command", "running", "inside"}

-----------------------------------------------------------------------------
Init ==
  /\ VmRunInit
  /\ st = [e \in Execs |-> "idle"]
  /\ limit = [e \in Execs |-> 0]
  /\ left = [e \in Execs |-> 0]
  /\ answer = [e \in Execs |-> "none"]
  /\ runs = [e \in Execs |-> 0]
  /\ result = [e \in Execs |-> "none"]
  /\ marker = FALSE
  /\ reached = FALSE

-----------------------------------------------------------------------------
(* crun-vm exec                                                            *)

\* build_command: the option, else the environment variable, else none. A limit
\* that is no number is refused, with --container as without.
TimeLimit(option, env) ==
  IF option # Unset THEN option ELSE IF env # Unset THEN env ELSE 0

Options == TimeLimits \cup {Unset}
EnvVars == TimeLimits \cup {Unset, Invalid}

Called(e, step, secs) ==
  /\ st' = [st EXCEPT ![e] = step]
  /\ limit' = [limit EXCEPT ![e] = secs]
  /\ left' = [left EXCEPT ![e] = secs]
  /\ answer' = [answer EXCEPT ![e] = "none"]
  /\ runs' = [runs EXCEPT ![e] = 0]
  /\ result' = [result EXCEPT ![e] = "none"]
  /\ UNCHANGED <<vmRunVars, marker, reached>>

\* exec.sh looks at the marker first.
Call(e) ==
  /\ up /\ st[e] = "idle"
  /\ \E option \in Options, env \in EnvVars :
       /\ TimeLimit(option, env) # Invalid
       /\ Called(e, IF marker THEN "command" ELSE "check",
                 TimeLimit(option, env))

\* --container: a command in the container, without exec.sh.
CallContainer(e) ==
  /\ up /\ st[e] = "idle"
  /\ \E option \in Options, env \in EnvVars :
       /\ TimeLimit(option, env) # Invalid
       /\ Called(e, "inside", 0)

-----------------------------------------------------------------------------
(* exec.sh                                                                 *)

GoTo(e, step) ==
  /\ st' = [st EXCEPT ![e] = step]
  /\ UNCHANGED <<vmRunVars, limit, answer, result>>

Exit(e, how) ==
  /\ st' = [st EXCEPT ![e] = "idle"]
  /\ result' = [result EXCEPT ![e] = how]
  /\ UNCHANGED <<vmRunVars, limit, left, answer, runs, marker, reached>>

TimeIsUp(e) == limit[e] > 0 /\ left[e] = 0

\* Plausible bug: the limit is on the command, too, which is then left behind.
TimedOutAnywhere(e) ==
  /\ st[e] \in {"check", "running"}
  /\ TimeIsUp(e)
  /\ Exit(e, "timeout")

TimedOut(e) ==
  /\ st[e] = "check"
  /\ TimeIsUp(e)
  /\ Exit(e, "timeout")

Attempt(e) ==
  /\ st[e] = "check"
  /\ ~TimeIsUp(e)
  /\ GoTo(e, "attempt")
  /\ UNCHANGED <<left, runs, marker, reached>>

\* ssh fails in one of the ways that are ignored or in another; or sshd
\* answers, if only to refuse the key, as it may before the guest has it.
Answers ==
  CASE vm = "off"     -> {"retry", "fatal"}
    [] vm = "booting" -> {"retry", "fatal", "denied"}
    [] OTHER          -> {"retry", "fatal", "ok", "denied"}

\* An attempt may take for ever: ssh is given no limit.
Answer(e) ==
  /\ st[e] = "attempt"
  /\ \E a \in Answers :
       /\ answer' = [answer EXCEPT ![e] = a]
       /\ reached' = (reached \/ a \in {"ok", "denied"})
  /\ \E t \in 0..left[e] : left' = [left EXCEPT ![e] = t]
  /\ st' = [st EXCEPT ![e] = "judge"]
  /\ UNCHANGED <<vmRunVars, limit, runs, result, marker>>

\* Plausible bug: the sleep is not counted.
SleepsNot(e) == UNCHANGED left

\* sleep 1
Sleeps(e) ==
  \E t \in 0..left[e] :
    /\ t < left[e] \/ left[e] = 0
    /\ left' = [left EXCEPT ![e] = t]

\* Plausible bug: a guest that boots is taken for one that cannot be reached.
IgnoredNone(e) == FALSE

\* ignore_errors
Ignored(e) == answer[e] = "retry"

Retry(e) ==
  /\ st[e] = "judge"
  /\ Ignored(e)
  /\ Sleeps(e)
  /\ GoTo(e, "check")
  /\ UNCHANGED <<runs, marker, reached>>

GiveUp(e) ==
  /\ st[e] = "judge"
  /\ ~Ignored(e) /\ answer[e] \notin {"ok", "denied"}
  /\ Exit(e, "failed")

\* A refused key, too, ends the waiting: the user may have a password.
GetThrough(e) ==
  /\ st[e] = "judge"
  /\ answer[e] \in {"ok", "denied"}
  /\ Sleeps(e)
  /\ marker' = TRUE
  /\ GoTo(e, "command")
  /\ UNCHANGED <<runs, reached>>

StartCommand(e) ==
  /\ st[e] = "command"
  /\ vm \in {"on", "halting"}
  /\ runs' = [runs EXCEPT ![e] = @ + 1]
  /\ GoTo(e, "running")
  /\ UNCHANGED <<left, marker, reached>>

\* ssh does not get in this time, and is not tried again.
CommandFails(e) ==
  /\ st[e] = "command"
  /\ Exit(e, "failed")

\* Plausible bug: a lost connection is retried with the command.
CommandRetried(e) ==
  /\ st[e] = "running"
  /\ GoTo(e, "check")
  /\ UNCHANGED <<left, runs, marker, reached>>

\* The user's command, which may take any time, ends, or the connection does.
CommandEnds(e) ==
  /\ st[e] \in {"running", "inside"}
  /\ \E t \in 0..left[e], how \in {"done", "failed"} :
       /\ left' = [left EXCEPT ![e] = t]
       /\ result' = [result EXCEPT ![e] = how]
  /\ st' = [st EXCEPT ![e] = "idle"]
  /\ UNCHANGED <<vmRunVars, limit, answer, runs, marker, reached>>

ExecStep(e) ==
  \/ TimedOut(e) \/ Attempt(e)
  \/ Retry(e) \/ GiveUp(e) \/ GetThrough(e)
  \/ StartCommand(e) \/ CommandFails(e)

-----------------------------------------------------------------------------
(* The container and its VM                                                *)

\* Plausible bug: the marker is left by an earlier run.
MarkerKept == marker

\* What set_up_container_root makes of the marker.
MarkerRemoved == FALSE

\* A create, and the start that follows it.
ContainerStarts ==
  /\ Begin
  /\ marker' = MarkerRemoved
  /\ reached' = FALSE
  /\ UNCHANGED <<st, limit, left, answer, runs, result>>

\* With the container go the execs in it.
ContainerEnds ==
  /\ Quit \/ Kill
  /\ st' = [e \in Execs |-> "idle"]
  /\ result' = [e \in Execs |-> IF st[e] = "idle" THEN result[e] ELSE "gone"]
  /\ UNCHANGED <<limit, left, answer, runs, marker, reached>>

VmStep ==
  /\ LaunchVm \/ GuestStep \/ ForceEnd
  /\ UNCHANGED execVars

-----------------------------------------------------------------------------
Next ==
  \/ \E e \in Execs :
       \/ Call(e) \/ CallContainer(e)
       \/ ExecStep(e) \/ Answer(e) \/ CommandEnds(e)
  \/ ContainerStarts \/ ContainerEnds \/ VmStep

Spec == Init /\ [][Next]_vars

\* exec.sh runs on. That ssh returns, from an attempt or from the command, is
\* not assumed, nor anything of the guest, the user and the engine.
Fairness == \A e \in Execs : WF_vars(ExecStep(e))

FairSpec == Spec /\ Fairness

-----------------------------------------------------------------------------
(* Safety                                                                  *)

\* Every variable stays in the set its code counterpart ranges over; and however
\* often ssh was tried, a command is run once at most.
TypeOK ==
  /\ up \in BOOLEAN
  /\ vm \in {"off", "booting", "on", "halting"}
  /\ launched \in BOOLEAN
  /\ forced \in BOOLEAN
  /\ st \in [Execs -> {"idle"} \cup Steps]
  /\ limit \in [Execs -> TimeLimits]
  /\ left \in [Execs -> TimeLimits]
  /\ answer \in [Execs -> {"none", "retry", "fatal", "ok", "denied"}]
  /\ runs \in [Execs -> 0..1]
  /\ result \in [Execs -> {"none", "timeout", "failed", "done", "gone"}]
  /\ marker \in BOOLEAN
  /\ reached \in BOOLEAN

\* An exec that reports a timeout did not run its command, so that it can be
\* repeated.
TimedOutNotRun ==
  \A e \in Execs : result[e] = "timeout" => runs[e] = 0

\* An exec skips the waiting only in a run of the container in which the guest
\* was reached, by it or by another.
ReachedBefore ==
  \A e \in Execs : st[e] \in {"command", "running"} => reached

\* An exec does not fail because the guest is not up yet: if its command did
\* not run, then for an error that waiting does not mend, or although the guest
\* was reached before.
BootIsWaitedFor ==
  [][\A e \in Execs :
       /\ st[e] \in Probing \cup {"command"}
       /\ result'[e] = "failed" /\ st'[e] = "idle"
       => answer[e] = "fatal" \/ reached]_vars

-----------------------------------------------------------------------------
(* Liveness                                                                *)

\* An exec with a time limit does not try for ever: it gives up or gets on,
\* unless one single attempt of ssh does not return.
LimitEndsRetries ==
  \A e \in Execs :
    [](limit[e] > 0 /\ st[e] \in Probing =>
         <>(st[e] \notin Probing \/ [](st[e] = "attempt")))
=============================================================================
