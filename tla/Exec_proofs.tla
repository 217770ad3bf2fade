----------------------------- MODULE Exec_proofs -----------------------------
(***************************************************************************)
(* Theorems about Exec and their proofs, for any number of execs and any   *)
(* limit on their time. Execs know of each other only by the marker, and   *)
(* of the VM only by what ssh says: Known is what each may conclude.       *)
(***************************************************************************)
EXTENDS Exec, TLAPS

\* What is true of an exec because of the steps that led to where it is.
Known(e) ==
  /\ st[e] # "idle" => up /\ result[e] = "none"
  /\ st[e] \in Probing \cup {"command"} => runs[e] = 0
  /\ st[e] = "judge" => answer[e] # "none"
  /\ st[e] = "judge" /\ answer[e] \in {"ok", "denied"} => reached
  /\ st[e] \in {"command", "running"} => reached
  /\ result[e] = "timeout" => runs[e] = 0

IInv == TypeOK /\ (marker => reached) /\ \A e \in Execs : Known(e)

-----------------------------------------------------------------------------
(* The inductive step                                                      *)

USE LimitAssumption, UnsetAssumption
USE DEF vmRunVars, execVars, Probing, Steps, TimeLimits, Options, EnvVars

\* An exec's step leaves the run of the VM alone, and is of one of these forms.
LEMMA NextCases ==
  ASSUME [Next]_vars
  PROVE  \/ \E e \in Execs :
              \/ Call(e)
              \/ CallContainer(e)
              \/ TimedOut(e)
              \/ Attempt(e)
              \/ Retry(e)
              \/ GiveUp(e)
              \/ GetThrough(e)
              \/ StartCommand(e)
              \/ CommandFails(e)
              \/ Answer(e)
              \/ CommandEnds(e)
         \/ ContainerStarts \/ ContainerEnds \/ VmStep \/ UNCHANGED vars
BY DEF Next, ExecStep

\* No step takes a variable out of its set, and what is known stays known.
LEMMA Inductive ==
  ASSUME IInv, [Next]_vars
  PROVE  IInv'
<1> USE DEF IInv, TypeOK, Known
<1>1. ASSUME NEW e \in Execs, Call(e) PROVE IInv'
  <2>1. PICK option \in Options, env \in EnvVars :
              /\ TimeLimit(option, env) # Invalid
              /\ Called(e, IF marker THEN "command" ELSE "check",
                        TimeLimit(option, env))
    BY <1>1 DEF Call
  <2>2. TimeLimit(option, env) \in TimeLimits
    BY <2>1 DEF TimeLimit
  <2> QED
    BY <1>1, <2>1, <2>2 DEF Call, Called
<1>2. ASSUME NEW e \in Execs, CallContainer(e) PROVE IInv'
  BY <1>2 DEF CallContainer, Called
<1>3. ASSUME NEW e \in Execs, TimedOut(e) PROVE IInv'
  BY <1>3 DEF TimedOut, Exit
<1>4. ASSUME NEW e \in Execs, Attempt(e) PROVE IInv'
  BY <1>4 DEF Attempt, GoTo
<1>5. ASSUME NEW e \in Execs, Retry(e) PROVE IInv'
  BY <1>5 DEF Retry, GoTo, Sleeps, Ignored
<1>6. ASSUME NEW e \in Execs, GiveUp(e) PROVE IInv'
  BY <1>6 DEF GiveUp, Exit, Ignored
<1>7. ASSUME NEW e \in Execs, GetThrough(e) PROVE IInv'
  BY <1>7 DEF GetThrough, GoTo, Sleeps
<1>8. ASSUME NEW e \in Execs, StartCommand(e) PROVE IInv'
  BY <1>8 DEF StartCommand, GoTo
<1>9. ASSUME NEW e \in Execs, CommandFails(e) PROVE IInv'
  BY <1>9 DEF CommandFails, Exit
<1>10. ASSUME NEW e \in Execs, Answer(e) PROVE IInv'
  BY <1>10 DEF Answer, Answers
<1>11. ASSUME NEW e \in Execs, CommandEnds(e) PROVE IInv'
  BY <1>11 DEF CommandEnds
<1>12. CASE ContainerStarts
  BY <1>12 DEF ContainerStarts, Begin, MarkerRemoved
<1>13. CASE ContainerEnds
  BY <1>13 DEF ContainerEnds, Quit, Kill, RunOver
<1>14. CASE VmStep
  BY <1>14 DEF VmStep, LaunchVm, GuestStep, ForceEnd
<1>15. CASE UNCHANGED vars
  BY <1>15 DEF vars
<1> QED
  BY <1>1, <1>2, <1>3, <1>4, <1>5, <1>6, <1>7, <1>8, <1>9, <1>10, <1>11, <1>12, <1>13, <1>14, <1>15, NextCases

\* Before the first create nothing is known.
LEMMA Initial == Init => IInv
<1>1. 0 \in TimeLimits /\ 0 \in 0..1
  OBVIOUS
<1>2. ASSUME Init PROVE TypeOK
  <2>1. /\ up \in BOOLEAN /\ launched \in BOOLEAN /\ forced \in BOOLEAN
        /\ vm \in {"off", "booting", "on", "halting"}
        /\ marker \in BOOLEAN /\ reached \in BOOLEAN
    BY <1>2 DEF Init, VmRunInit
  <2>2. /\ st \in [Execs -> {"idle"} \cup Steps]
        /\ answer \in [Execs -> {"none", "retry", "fatal", "ok", "denied"}]
        /\ result \in [Execs -> {"none", "timeout", "failed", "done", "gone"}]
    BY <1>2 DEF Init
  <2>3. limit \in [Execs -> TimeLimits] /\ left \in [Execs -> TimeLimits]
    BY <1>1, <1>2 DEF Init
  <2>4. runs \in [Execs -> 0..1]
    BY <1>1, <1>2 DEF Init
  <2> QED
    BY <2>1, <2>2, <2>3, <2>4 DEF TypeOK
<1>3. Init => (marker => reached) /\ \A e \in Execs : Known(e)
  BY DEF Init, VmRunInit, Known
<1> QED
  BY <1>2, <1>3 DEF IInv

-----------------------------------------------------------------------------
(* The theorems                                                            *)

\* Every reachable state satisfies the inductive invariant.
THEOREM Invariance == Spec => []IInv
<1>1. Init => IInv
  BY Initial
<1>2. IInv /\ [Next]_vars => IInv'
  BY Inductive
<1> QED
  BY <1>1, <1>2, PTL DEF Spec

\* The variables stay in their sets, and no command is run twice.
THEOREM TypeCorrect == Spec => []TypeOK
<1>1. IInv => TypeOK
  BY DEF IInv
<1> QED
  BY <1>1, Invariance, PTL

\* An exec that says it timed out, at whatever limit, did not run its command.
THEOREM TimeoutCorrect == Spec => []TimedOutNotRun
<1>1. IInv => TimedOutNotRun
  BY DEF IInv, Known, TimedOutNotRun
<1> QED
  BY <1>1, Invariance, PTL

\* However many execs share the marker, none skips the waiting before the guest
\* was reached in the same run of the container.
THEOREM MarkerCorrect == Spec => []ReachedBefore
<1>1. IInv => ReachedBefore
  BY DEF IInv, Known, ReachedBefore
<1> QED
  BY <1>1, Invariance, PTL

\* Only GiveUp and CommandFails end an exec with a failure before its command
\* runs: the first for a fatal answer, the second in a run with a reached guest.
THEOREM WaitingCorrect == Spec => BootIsWaitedFor
<1> DEFINE Waited ==
      \A e \in Execs :
        /\ st[e] \in Probing \cup {"command"}
        /\ result'[e] = "failed" /\ st'[e] = "idle"
        => answer[e] = "fatal" \/ reached
<1>1. ASSUME IInv, [Next]_vars PROVE Waited
  <2> USE DEF IInv, TypeOK, Known
  <2>1. ASSUME NEW e \in Execs, Call(e) PROVE Waited
    BY <1>1, <2>1 DEF Call, Called, TimeLimit
  <2>2. ASSUME NEW e \in Execs, CallContainer(e) PROVE Waited
    BY <1>1, <2>2 DEF CallContainer, Called
  <2>3. ASSUME NEW e \in Execs, TimedOut(e) PROVE Waited
    BY <1>1, <2>3 DEF TimedOut, Exit
  <2>4. ASSUME NEW e \in Execs, Attempt(e) PROVE Waited
    BY <1>1, <2>4 DEF Attempt, GoTo
  <2>5. ASSUME NEW e \in Execs, Retry(e) PROVE Waited
    BY <1>1, <2>5 DEF Retry, GoTo, Sleeps, Ignored
  <2>6. ASSUME NEW e \in Execs, GiveUp(e) PROVE Waited
    <3>1. answer[e] = "fatal"
      BY <1>1, <2>6 DEF GiveUp, Ignored
    <3> QED
      BY <1>1, <2>6, <3>1 DEF GiveUp, Exit
  <2>7. ASSUME NEW e \in Execs, GetThrough(e) PROVE Waited
    BY <1>1, <2>7 DEF GetThrough, GoTo, Sleeps
  <2>8. ASSUME NEW e \in Execs, StartCommand(e) PROVE Waited
    BY <1>1, <2>8 DEF StartCommand, GoTo
  <2>9. ASSUME NEW e \in Execs, CommandFails(e) PROVE Waited
    BY <1>1, <2>9 DEF CommandFails, Exit
  <2>10. ASSUME NEW e \in Execs, Answer(e) PROVE Waited
    BY <1>1, <2>10 DEF Answer, Answers
  <2>11. ASSUME NEW e \in Execs, CommandEnds(e) PROVE Waited
    BY <1>1, <2>11 DEF CommandEnds
  <2>12. CASE ContainerStarts
    BY <1>1, <2>12 DEF ContainerStarts, Begin
  <2>13. CASE ContainerEnds
    BY <1>1, <2>13 DEF ContainerEnds
  <2>14. CASE VmStep
    BY <1>1, <2>14 DEF VmStep
  <2>15. CASE UNCHANGED vars
    BY <1>1, <2>15 DEF vars
  <2> QED
    BY <1>1, <2>1, <2>2, <2>3, <2>4, <2>5, <2>6, <2>7, <2>8, <2>9, <2>10, <2>11, <2>12, <2>13, <2>14, <2>15, NextCases
<1>2. IInv /\ [Next]_vars => [Waited]_vars
  BY <1>1
<1> QED
  BY <1>2, Invariance, PTL DEF Spec, BootIsWaitedFor
=============================================================================
