------------------------ MODULE BootcConversion_proofs ------------------------
(***************************************************************************)
(* Theorems about BootcConversion and their proofs, for any number of      *)
(* containers, images and stops.                                           *)
(*                                                                         *)
(* That nobody gets an unfinished image depends on three parties that      *)
(* never look at each other's state. IInv has one part for each meeting:   *)
(* Pipe, where prepare.sh and the entrypoint can be at the same time;      *)
(* Made, what prepare.sh knows of its image at each of its steps, and what *)
(* the markers and the cache say of it; Handed, what the entrypoint knows. *)
(***************************************************************************)
EXTENDS BootcConversion, FiniteSetTheorems, TLAPS

\* The pipe orders the two: with the reader past its opening, so is the
\* writer; with the reader past its end of file, the writer has ended.
Pipe ==
  \A c \in Containers :
    /\ ct[c] # "running" => ep[c] = "off"
    /\ ct[c] = "absent" => pr[c] = "none"
    /\ ep[c] = "read" => pr[c] \notin {"none", "mkfifo", "open"}
    /\ ep[c] \in {"rm", "test", "mv"} => pr[c] \in PrepareEnds

\* What has been found and what has been made is complete, where prepare.sh
\* goes on; and success is reported of such an image only.
Made ==
  \A c \in Containers :
    /\ pr[c] = "convert" => installed[c]
    /\ pr[c] = "retrieve" => \A b \in found[c] : built[b] # "none"
    /\ pr[c] \in {"build", "finish"} => qcow2[c] = "complete"
    /\ success[c] => pr[c] = "done" /\ "complete" \in {qcow2[c], image[c]}
    /\ built[c] \in {"none", "complete"}

\* The entrypoint waits only while it has no image, and takes one only after
\* success was reported.
Handed ==
  \A c \in Containers :
    /\ ep[c] \in {"poll", "open", "read", "rm", "test", "mv"} =>
         image[c] = "none"
    /\ ep[c] = "mv" => success[c]
    /\ image[c] \in {"none", "complete"}

IInv == TypeOK /\ Pipe /\ Made /\ Handed

\* What one container's processes, or the engine for it, do in one step.
Handler(c) ==
  \/ Create(c) \/ CreateReturns(c) \/ Start(c) \/ Stop(c)
  \/ EntrypointStep(c)
  \/ PrepareStep(c) \/ CommandFails(c)

-----------------------------------------------------------------------------
(* The inductive step, one lemma per part of the invariant.                *)

USE StopsAssumption
USE DEF PrepareSteps, PrepareEnds, WritingSteps

\* No step takes a variable out of its set.
LEMMA TypeStep ==
  ASSUME TypeOK, [Next]_vars
  PROVE  TypeOK'
<1> USE DEF TypeOK
<1>1. CASE UNCHANGED vars
  BY <1>1 DEF vars
<1>2. ASSUME NEW c \in Containers, Handler(c)
      PROVE  TypeOK'
  <2>1. CASE Create(c)
    BY <2>1 DEF Create, SpawnsPrepare
  <2>2. CASE CreateReturns(c)
    BY <2>2 DEF CreateReturns
  <2>3. CASE Start(c)
    BY <2>3 DEF Start
  <2>4. CASE Stop(c)
    BY <2>4 DEF Stop
  <2>5. CASE CheckImage(c)
    BY <2>5 DEF CheckImage, GoTo
  <2>6. CASE SeeFifo(c)
    BY <2>6 DEF SeeFifo, GoTo
  <2>7. CASE Rendezvous(c)
    BY <2>7 DEF Rendezvous
  <2>8. CASE OpenAgain(c)
    BY <2>8 DEF OpenAgain, GoTo, HasWriter
  <2>9. CASE ReadToEnd(c)
    BY <2>9 DEF ReadToEnd, GoTo, HasWriter
  <2>10. CASE RemoveFifo(c)
    BY <2>10 DEF RemoveFifo, GoTo
  <2>11. CASE CheckSuccess(c)
    BY <2>11 DEF CheckSuccess, GoTo, Succeeded
  <2>12. CASE CheckFails(c)
    BY <2>12 DEF CheckFails, Succeeded
  <2>13. CASE MoveImage(c)
    BY <2>13 DEF MoveImage, GoTo
  <2>14. CASE MakeFifo(c)
    BY <2>14 DEF MakeFifo, Advance
  <2>15. CASE Inspect(c)
    BY <2>15 DEF Inspect, Advance
  <2>16. CASE LookUpCache(c)
    BY <2>16 DEF LookUpCache, Advance, Cached
  <2>17. CASE RetrieveFromCache(c)
    BY <2>17 DEF RetrieveFromCache, Advance
  <2>18. CASE RetrieveAmbiguous(c)
    BY <2>18 DEF RetrieveAmbiguous, Advance
  <2>19. CASE SaveImage(c)
    BY <2>19 DEF SaveImage, Advance
  <2>20. CASE AdjustConfig(c)
    BY <2>20 DEF AdjustConfig, Advance
  <2>21. CASE RunKrun(c)
    BY <2>21 DEF RunKrun, Advance
  <2>22. CASE CheckInstalled(c)
    BY <2>22 DEF CheckInstalled, Advance
  <2>23. CASE Convert(c)
    BY <2>23 DEF Convert, Advance
  <2>24. CASE StoreInCache(c)
    BY <2>24 DEF StoreInCache, Advance
  <2>25. CASE Finish(c)
    BY <2>25 DEF Finish, Advance
  <2>26. CASE BrokenPipe(c)
    BY <2>26 DEF BrokenPipe
  <2>27. CASE CommandFails(c)
    BY <2>27 DEF CommandFails
  <2> QED
    BY <1>2, <2>1, <2>2, <2>3, <2>4, <2>5, <2>6, <2>7, <2>8, <2>9, <2>10,
       <2>11, <2>12, <2>13, <2>14, <2>15, <2>16, <2>17, <2>18, <2>19, <2>20,
       <2>21, <2>22, <2>23, <2>24, <2>25, <2>26, <2>27
    DEF Handler, EntrypointStep, PrepareStep
<1> QED
  BY <1>1, <1>2 DEF Next, Handler

\* The two sides of the pipe stay in step.
LEMMA PipeStep ==
  ASSUME TypeOK, Pipe, [Next]_vars
  PROVE  Pipe'
<1> USE DEF TypeOK, Pipe
<1>1. CASE UNCHANGED vars
  BY <1>1 DEF vars
<1>2. ASSUME NEW c \in Containers, Handler(c)
      PROVE  Pipe'
  <2>1. CASE Create(c)
    BY <2>1 DEF Create, SpawnsPrepare
  <2>2. CASE CreateReturns(c)
    BY <2>2 DEF CreateReturns
  <2>3. CASE Start(c)
    BY <2>3 DEF Start
  <2>4. CASE Stop(c)
    BY <2>4 DEF Stop
  <2>5. CASE CheckImage(c)
    BY <2>5 DEF CheckImage, GoTo
  <2>6. CASE SeeFifo(c)
    BY <2>6 DEF SeeFifo, GoTo
  <2>7. CASE Rendezvous(c)
    BY <2>7 DEF Rendezvous
  <2>8. CASE OpenAgain(c)
    BY <2>8 DEF OpenAgain, GoTo, HasWriter
  <2>9. CASE ReadToEnd(c)
    BY <2>9 DEF ReadToEnd, GoTo, HasWriter
  <2>10. CASE RemoveFifo(c)
    BY <2>10 DEF RemoveFifo, GoTo
  <2>11. CASE CheckSuccess(c)
    BY <2>11 DEF CheckSuccess, GoTo, Succeeded
  <2>12. CASE CheckFails(c)
    BY <2>12 DEF CheckFails, Succeeded
  <2>13. CASE MoveImage(c)
    BY <2>13 DEF MoveImage, GoTo
  <2>14. CASE MakeFifo(c)
    BY <2>14 DEF MakeFifo, Advance
  <2>15. CASE Inspect(c)
    BY <2>15 DEF Inspect, Advance
  <2>16. CASE LookUpCache(c)
    BY <2>16 DEF LookUpCache, Advance, Cached
  <2>17. CASE RetrieveFromCache(c)
    BY <2>17 DEF RetrieveFromCache, Advance
  <2>18. CASE RetrieveAmbiguous(c)
    BY <2>18 DEF RetrieveAmbiguous, Advance
  <2>19. CASE SaveImage(c)
    BY <2>19 DEF SaveImage, Advance
  <2>20. CASE AdjustConfig(c)
    BY <2>20 DEF AdjustConfig, Advance
  <2>21. CASE RunKrun(c)
    BY <2>21 DEF RunKrun, Advance
  <2>22. CASE CheckInstalled(c)
    BY <2>22 DEF CheckInstalled, Advance
  <2>23. CASE Convert(c)
    BY <2>23 DEF Convert, Advance
  <2>24. CASE StoreInCache(c)
    BY <2>24 DEF StoreInCache, Advance
  <2>25. CASE Finish(c)
    BY <2>25 DEF Finish, Advance
  <2>26. CASE BrokenPipe(c)
    BY <2>26 DEF BrokenPipe
  <2>27. CASE CommandFails(c)
    BY <2>27 DEF CommandFails
  <2> QED
    BY <1>2, <2>1, <2>2, <2>3, <2>4, <2>5, <2>6, <2>7, <2>8, <2>9, <2>10,
       <2>11, <2>12, <2>13, <2>14, <2>15, <2>16, <2>17, <2>18, <2>19, <2>20,
       <2>21, <2>22, <2>23, <2>24, <2>25, <2>26, <2>27
    DEF Handler, EntrypointStep, PrepareStep
<1> QED
  BY <1>1, <1>2 DEF Next, Handler

\* Markers and cache speak of complete images.
LEMMA MadeStep ==
  ASSUME TypeOK, Pipe, Made, Handed, [Next]_vars
  PROVE  Made'
<1> USE DEF TypeOK, Pipe, Made, Handed
<1>1. CASE UNCHANGED vars
  BY <1>1 DEF vars
<1>2. ASSUME NEW c \in Containers, Handler(c)
      PROVE  Made'
  <2>1. CASE Create(c)
    BY <2>1 DEF Create, SpawnsPrepare
  <2>2. CASE CreateReturns(c)
    BY <2>2 DEF CreateReturns
  <2>3. CASE Start(c)
    BY <2>3 DEF Start
  <2>4. CASE Stop(c)
    BY <2>4 DEF Stop
  <2>5. CASE CheckImage(c)
    BY <2>5 DEF CheckImage, GoTo
  <2>6. CASE SeeFifo(c)
    BY <2>6 DEF SeeFifo, GoTo
  <2>7. CASE Rendezvous(c)
    BY <2>7 DEF Rendezvous
  <2>8. CASE OpenAgain(c)
    BY <2>8 DEF OpenAgain, GoTo, HasWriter
  <2>9. CASE ReadToEnd(c)
    BY <2>9 DEF ReadToEnd, GoTo, HasWriter
  <2>10. CASE RemoveFifo(c)
    BY <2>10 DEF RemoveFifo, GoTo
  <2>11. CASE CheckSuccess(c)
    BY <2>11 DEF CheckSuccess, GoTo, Succeeded
  <2>12. CASE CheckFails(c)
    BY <2>12 DEF CheckFails, Succeeded
  <2>13. CASE MoveImage(c)
    BY <2>13 DEF MoveImage, GoTo
  <2>14. CASE MakeFifo(c)
    BY <2>14 DEF MakeFifo, Advance
  <2>15. CASE Inspect(c)
    BY <2>15 DEF Inspect, Advance
  <2>16. CASE LookUpCache(c)
    BY <2>16 DEF LookUpCache, Advance, Cached
  <2>17. CASE RetrieveFromCache(c)
    BY <2>17 DEF RetrieveFromCache, Advance
  <2>18. CASE RetrieveAmbiguous(c)
    BY <2>18 DEF RetrieveAmbiguous, Advance
  <2>19. CASE SaveImage(c)
    BY <2>19 DEF SaveImage, Advance
  <2>20. CASE AdjustConfig(c)
    BY <2>20 DEF AdjustConfig, Advance
  <2>21. CASE RunKrun(c)
    BY <2>21 DEF RunKrun, Advance
  <2>22. CASE CheckInstalled(c)
    BY <2>22 DEF CheckInstalled, Advance
  <2>23. CASE Convert(c)
    BY <2>23 DEF Convert, Advance
  <2>24. CASE StoreInCache(c)
    BY <2>24 DEF StoreInCache, Advance
  <2>25. CASE Finish(c)
    BY <2>25 DEF Finish, Advance
  <2>26. CASE BrokenPipe(c)
    BY <2>26 DEF BrokenPipe
  <2>27. CASE CommandFails(c)
    BY <2>27 DEF CommandFails
  <2> QED
    BY <1>2, <2>1, <2>2, <2>3, <2>4, <2>5, <2>6, <2>7, <2>8, <2>9, <2>10,
       <2>11, <2>12, <2>13, <2>14, <2>15, <2>16, <2>17, <2>18, <2>19, <2>20,
       <2>21, <2>22, <2>23, <2>24, <2>25, <2>26, <2>27
    DEF Handler, EntrypointStep, PrepareStep
<1> QED
  BY <1>1, <1>2 DEF Next, Handler

\* The entrypoint takes complete images.
LEMMA HandedStep ==
  ASSUME TypeOK, Pipe, Made, Handed, [Next]_vars
  PROVE  Handed'
<1> USE DEF TypeOK, Pipe, Made, Handed
<1>1. CASE UNCHANGED vars
  BY <1>1 DEF vars
<1>2. ASSUME NEW c \in Containers, Handler(c)
      PROVE  Handed'
  <2>1. CASE Create(c)
    BY <2>1 DEF Create, SpawnsPrepare
  <2>2. CASE CreateReturns(c)
    BY <2>2 DEF CreateReturns
  <2>3. CASE Start(c)
    BY <2>3 DEF Start
  <2>4. CASE Stop(c)
    BY <2>4 DEF Stop
  <2>5. CASE CheckImage(c)
    BY <2>5 DEF CheckImage, GoTo
  <2>6. CASE SeeFifo(c)
    BY <2>6 DEF SeeFifo, GoTo
  <2>7. CASE Rendezvous(c)
    BY <2>7 DEF Rendezvous
  <2>8. CASE OpenAgain(c)
    BY <2>8 DEF OpenAgain, GoTo, HasWriter
  <2>9. CASE ReadToEnd(c)
    BY <2>9 DEF ReadToEnd, GoTo, HasWriter
  <2>10. CASE RemoveFifo(c)
    BY <2>10 DEF RemoveFifo, GoTo
  <2>11. CASE CheckSuccess(c)
    BY <2>11 DEF CheckSuccess, GoTo, Succeeded
  <2>12. CASE CheckFails(c)
    BY <2>12 DEF CheckFails, Succeeded
  <2>13. CASE MoveImage(c)
    BY <2>13 DEF MoveImage, GoTo
  <2>14. CASE MakeFifo(c)
    BY <2>14 DEF MakeFifo, Advance
  <2>15. CASE Inspect(c)
    BY <2>15 DEF Inspect, Advance
  <2>16. CASE LookUpCache(c)
    BY <2>16 DEF LookUpCache, Advance, Cached
  <2>17. CASE RetrieveFromCache(c)
    BY <2>17 DEF RetrieveFromCache, Advance
  <2>18. CASE RetrieveAmbiguous(c)
    BY <2>18 DEF RetrieveAmbiguous, Advance
  <2>19. CASE SaveImage(c)
    BY <2>19 DEF SaveImage, Advance
  <2>20. CASE AdjustConfig(c)
    BY <2>20 DEF AdjustConfig, Advance
  <2>21. CASE RunKrun(c)
    BY <2>21 DEF RunKrun, Advance
  <2>22. CASE CheckInstalled(c)
    BY <2>22 DEF CheckInstalled, Advance
  <2>23. CASE Convert(c)
    BY <2>23 DEF Convert, Advance
  <2>24. CASE StoreInCache(c)
    BY <2>24 DEF StoreInCache, Advance
  <2>25. CASE Finish(c)
    BY <2>25 DEF Finish, Advance
  <2>26. CASE BrokenPipe(c)
    BY <2>26 DEF BrokenPipe
  <2>27. CASE CommandFails(c)
    BY <2>27 DEF CommandFails
  <2> QED
    BY <1>2, <2>1, <2>2, <2>3, <2>4, <2>5, <2>6, <2>7, <2>8, <2>9, <2>10,
       <2>11, <2>12, <2>13, <2>14, <2>15, <2>16, <2>17, <2>18, <2>19, <2>20,
       <2>21, <2>22, <2>23, <2>24, <2>25, <2>26, <2>27
    DEF Handler, EntrypointStep, PrepareStep
<1> QED
  BY <1>1, <1>2 DEF Next, Handler

\* IInv is inductive.
LEMMA IInvStep ==
  ASSUME IInv, [Next]_vars
  PROVE  IInv'
<1>1. TypeOK /\ Pipe /\ Made /\ Handed
  BY DEF IInv
<1>2. TypeOK'
  BY <1>1, TypeStep
<1>3. Pipe'
  BY <1>1, PipeStep
<1>4. Made'
  BY <1>1, MadeStep
<1>5. Handed'
  BY <1>1, HandedStep
<1> QED
  BY <1>2, <1>3, <1>4, <1>5 DEF IInv

\* Containers that are not created yet satisfy IInv.
LEMMA IInvInit ==
  ASSUME Init
  PROVE  IInv
<1>1. TypeOK
  BY DEF Init, TypeOK
<1>2. Pipe
  BY DEF Init, Pipe
<1>3. Made
  BY DEF Init, Made
<1>4. Handed
  BY DEF Init, Handed
<1> QED
  BY <1>1, <1>2, <1>3, <1>4 DEF IInv

-----------------------------------------------------------------------------
(* The theorems.                                                           *)

\* IInv holds at every state of every behaviour.
THEOREM Invariance == Spec => []IInv
<1>1. Init => IInv
  BY IInvInit
<1>2. IInv /\ [Next]_vars => IInv'
  BY IInvStep
<1> QED
  BY <1>1, <1>2, PTL DEF Spec

\* Every variable stays in its set.
THEOREM TypeCorrect == Spec => []TypeOK
<1>1. IInv => TypeOK
  BY DEF IInv
<1> QED
  BY <1>1, Invariance, PTL

\* No VM gets a disk that an interrupted or failed conversion left, of however
\* many containers and restarts.
THEOREM ImagesCorrect == Spec => []OnlyCompleteImages
<1>1. IInv => OnlyCompleteImages
  BY DEF IInv, Handed, OnlyCompleteImages
<1> QED
  BY <1>1, Invariance, PTL

\* Nor does the cache, from which other containers would get it.
THEOREM CacheCorrect == Spec => []OnlyCompleteCached
<1>1. IInv => OnlyCompleteCached
  BY DEF IInv, Made, OnlyCompleteCached
<1> QED
  BY <1>1, Invariance, PTL

\* The entrypoint takes the image away only from a conversion that has ended.
THEOREM HandOverCorrect == Spec => []HandedOverAtTheEnd
<1>1. IInv => HandedOverAtTheEnd
  BY DEF IInv, Pipe, HandedOverAtTheEnd
<1> QED
  BY <1>1, Invariance, PTL

\* Success is never reported, nor remembered, without an image.
THEOREM SuccessCorrect == Spec => []SuccessMeansImage
<1>1. IInv => SuccessMeansImage
  BY DEF IInv, Made, SuccessMeansImage
<1> QED
  BY <1>1, Invariance, PTL

\* A step that starts a conversion starts the container's first.
LEMMA ConversionStep ==
  ASSUME IInv, [Next]_vars, NEW d \in Containers, pr'[d] = "mkfifo"
  PROVE  pr[d] \in {"none", "mkfifo"}
<1> USE DEF IInv, TypeOK, Pipe
<1>1. CASE UNCHANGED vars
  BY <1>1 DEF vars
<1>2. ASSUME NEW c \in Containers, Create(c)
      PROVE  pr[d] \in {"none", "mkfifo"}
  BY <1>2 DEF Create, SpawnsPrepare
<1>3. ASSUME NEW c \in Containers, CreateReturns(c) \/ Start(c) \/ Stop(c)
      PROVE  pr[d] \in {"none", "mkfifo"}
  BY <1>3 DEF CreateReturns, Start, Stop
<1>4. ASSUME NEW c \in Containers, EntrypointStep(c)
      PROVE  pr[d] \in {"none", "mkfifo"}
  BY <1>4
  DEF EntrypointStep, CheckImage, SeeFifo, Rendezvous, OpenAgain, ReadToEnd,
      RemoveFifo, CheckSuccess, CheckFails, MoveImage, GoTo
<1>5. ASSUME NEW c \in Containers, PrepareStep(c) \/ CommandFails(c)
      PROVE  pr[d] \in {"none", "mkfifo"}
  BY <1>5
  DEF PrepareStep, MakeFifo, Inspect, LookUpCache, RetrieveFromCache,
      RetrieveAmbiguous, SaveImage, AdjustConfig, RunKrun, CheckInstalled,
      Convert, StoreInCache, Finish, BrokenPipe, CommandFails, Advance
<1> QED
  BY <1>1, <1>2, <1>3, <1>4, <1>5 DEF Next

\* A container is converted once in its life.
THEOREM ConversionCorrect == Spec => ConvertsOnce
<1>1. IInv /\ [Next]_vars =>
        [\A c \in Containers :
           pr'[c] = "mkfifo" => pr[c] \in {"none", "mkfifo"}]_vars
  BY ConversionStep
<1> QED
  BY <1>1, Invariance, PTL DEF Spec, ConvertsOnce

-----------------------------------------------------------------------------
(* The refinement.                                                         *)

\* A container has an image only since its conversion reported success.
Delivered == \A c \in Containers : image[c] # "none" => success[c]

\* Delivered is inductive, next to IInv: only MoveImage gives an image.
LEMMA DeliveredStep ==
  ASSUME IInv, Delivered, [Next]_vars
  PROVE  Delivered'
<1> USE DEF IInv, TypeOK, Delivered
<1>1. CASE UNCHANGED vars
  BY <1>1 DEF vars
<1>2. ASSUME NEW c \in Containers, MoveImage(c)
      PROVE  Delivered'
  BY <1>2 DEF MoveImage, GoTo, Handed
<1>3. ASSUME NEW c \in Containers, Handler(c), ~MoveImage(c)
      PROVE  UNCHANGED image /\ \A d \in Containers : success[d] => success'[d]
  <2>1. CASE Create(c) \/ CreateReturns(c) \/ Start(c) \/ Stop(c)
    BY <2>1 DEF Create, CreateReturns, Start, Stop
  <2>2. CASE EntrypointStep(c)
    BY <1>3, <2>2
    DEF EntrypointStep, CheckImage, SeeFifo, Rendezvous, OpenAgain, ReadToEnd,
        RemoveFifo, CheckSuccess, CheckFails, GoTo
  <2>3. CASE PrepareStep(c) \/ CommandFails(c)
    BY <2>3
    DEF PrepareStep, MakeFifo, Inspect, LookUpCache, RetrieveFromCache,
        RetrieveAmbiguous, SaveImage, AdjustConfig, RunKrun, CheckInstalled,
        Convert, StoreInCache, Finish, BrokenPipe, CommandFails, Advance
  <2> QED
    BY <1>3, <2>1, <2>2, <2>3 DEF Handler
<1> QED
  BY <1>1, <1>2, <1>3 DEF Next, Handler

\* While prepare.sh runs its container has no image: a step of it changes
\* nothing, or gives the conversion up.
LEMMA PrepareMoves ==
  ASSUME IInv, Delivered, NEW c \in Containers, pr[c] \in PrepareSteps,
         NEW to \in PrepareSteps \cup PrepareEnds,
         pr' = [pr EXCEPT ![c] = to], UNCHANGED image
  PROVE  Supply!Next \/ UNCHANGED Supply!vars
<1> DEFINE conversion == [d \in Containers |-> Conversion(d)]
<1>1. image[c] = "none" /\ Conversion(c) = "running"
  BY DEF IInv, Made, Delivered, Conversion
<1>2. \A d \in Containers \ {c} : Conversion(d)' = Conversion(d)
  BY DEF IInv, TypeOK, Conversion
<1>3. Conversion(c)' = IF to = "dead" THEN "dead" ELSE "running"
  BY <1>1 DEF IInv, TypeOK, Conversion
<1>4. CASE to = "dead"
  <2>1. conversion' = [conversion EXCEPT ![c] = "dead"] /\ conversion[c] = "running"
    BY <1>1, <1>2, <1>3, <1>4
  <2> QED
    BY <2>1 DEF Supply!Next, Supply!GiveUp
<1>5. CASE to # "dead"
  <2>1. conversion' = conversion
    BY <1>1, <1>2, <1>3, <1>5
  <2> QED
    BY <2>1 DEF Supply!vars
<1> QED
  BY <1>4, <1>5

\* What changes neither prepare.sh's step nor the image is no step of the
\* supply.
LEMMA NothingMoves ==
  ASSUME UNCHANGED <<pr, image>>
  PROVE  UNCHANGED Supply!vars
BY DEF Supply!vars, Conversion

\* Every step of a container's processes is one of the supply, or none.
LEMMA SupplyStep ==
  ASSUME IInv, Delivered, NEW c \in Containers, Handler(c)
  PROVE  Supply!Next \/ UNCHANGED Supply!vars
<1> DEFINE conversion == [d \in Containers |-> Conversion(d)]
           has == [d \in Containers |-> image[d] # "none"]
<1>1. CASE Create(c) /\ SpawnsPrepare(c)
  <2>1. /\ pr[c] = "none" /\ image[c] = "none"
        /\ pr' = [pr EXCEPT ![c] = "mkfifo"] /\ UNCHANGED image
    BY <1>1 DEF Create, SpawnsPrepare, IInv, Pipe, Made, Delivered
  <2>2. \A d \in Containers \ {c} : Conversion(d)' = Conversion(d)
    BY <2>1 DEF IInv, TypeOK, Conversion
  <2>3. Conversion(c) = "none" /\ Conversion(c)' = "running"
    BY <2>1 DEF IInv, TypeOK, Conversion
  <2>4. conversion' = [conversion EXCEPT ![c] = "running"] /\ conversion[c] = "none"
    BY <2>2, <2>3
  <2> QED
    BY <2>1, <2>4 DEF Supply!Next, Supply!Spawn
<1>2. CASE MoveImage(c)
  <2>1. /\ pr[c] = "done" /\ image[c] = "none" /\ qcow2[c] = "complete"
        /\ image' = [image EXCEPT ![c] = qcow2[c]] /\ UNCHANGED pr
    BY <1>2 DEF MoveImage, GoTo, IInv, TypeOK, Handed, Made
  <2>2. \A d \in Containers \ {c} :
          Conversion(d)' = Conversion(d) /\ (image'[d] # "none") = (image[d] # "none")
    BY <2>1 DEF IInv, TypeOK, Conversion
  <2>3. /\ Conversion(c) = "running" /\ Conversion(c)' = "done"
        /\ image'[c] # "none"
    BY <2>1 DEF IInv, TypeOK, Conversion
  <2>4. conversion' = [conversion EXCEPT ![c] = "done"] /\ conversion[c] = "running"
    BY <2>2, <2>3
  <2>5. has' = [has EXCEPT ![c] = TRUE] /\ ~has[c]
    BY <2>1, <2>2, <2>3
  <2> QED
    BY <2>4, <2>5 DEF Supply!Next, Supply!Deliver
<1>3. CASE Rendezvous(c)
  BY <1>3, PrepareMoves DEF Rendezvous
<1>4. CASE PrepareStep(c) \/ CommandFails(c)
  <2>1. /\ pr[c] \in PrepareSteps /\ UNCHANGED image
        /\ \E to \in PrepareSteps \cup PrepareEnds : pr' = [pr EXCEPT ![c] = to]
    BY <1>4
    DEF PrepareStep, MakeFifo, Inspect, LookUpCache, RetrieveFromCache,
        RetrieveAmbiguous, SaveImage, AdjustConfig, RunKrun, CheckInstalled,
        Convert, StoreInCache, Finish, BrokenPipe, CommandFails, Advance
  <2> QED
    BY <2>1, PrepareMoves
<1>5. CASE \/ Create(c) /\ ~SpawnsPrepare(c)
           \/ CreateReturns(c) \/ Start(c) \/ Stop(c)
  BY <1>5, NothingMoves DEF Create, CreateReturns, Start, Stop
<1>6. CASE \/ CheckImage(c) \/ SeeFifo(c) \/ OpenAgain(c) \/ ReadToEnd(c)
           \/ RemoveFifo(c) \/ CheckSuccess(c) \/ CheckFails(c)
  BY <1>6, NothingMoves
  DEF CheckImage, SeeFifo, OpenAgain, ReadToEnd, RemoveFifo, CheckSuccess,
      CheckFails, GoTo
<1> QED
  BY <1>1, <1>2, <1>3, <1>4, <1>5, <1>6 DEF Handler, EntrypointStep

\* prepare.sh, the pipe and the entrypoint implement ImageSupply: whatever is
\* stopped, started or fails, each container is converted at most once, and
\* gets one whole image, after success, or none.
THEOREM SupplyRefinement == Spec => ImplementsImageSupply
<1>1. Init => Supply!Init
  <2> SUFFICES ASSUME Init PROVE Supply!Init
    OBVIOUS
  <2>1. \A c \in Containers : Conversion(c) = "none" /\ image[c] = "none"
    BY DEF Init, Conversion
  <2> QED
    BY <2>1 DEF Supply!Init
<1>2. Init => Delivered
  BY DEF Init, Delivered
<1>3. IInv /\ Delivered /\ [Next]_vars => Delivered'
  BY DeliveredStep
<1>4. IInv /\ Delivered /\ [Next]_vars => [Supply!Next]_(Supply!vars)
  <2> SUFFICES ASSUME IInv, Delivered, [Next]_vars
               PROVE  [Supply!Next]_(Supply!vars)
    OBVIOUS
  <2>1. ASSUME NEW c \in Containers, Handler(c)
        PROVE  Supply!Next \/ UNCHANGED Supply!vars
    BY <2>1, SupplyStep
  <2>2. CASE UNCHANGED vars
    BY <2>2, NothingMoves DEF vars
  <2> QED
    BY <2>1, <2>2 DEF Next, Handler
<1> QED
  BY <1>1, <1>2, <1>3, <1>4, Invariance, PTL
  DEF Spec, ImplementsImageSupply, Supply!Spec
-----------------------------------------------------------------------------
(* When the documentation is right: with conversions of one image that do  *)
(* not overlap, what the cache has can be used.                            *)

\* From where prepare.sh finds nothing in the cache to where it adds to it.
Converting == {"save", "config", "krun", "installed", "convert", "build"}

\* No two containers of one image are converted at the same time.
OneAtATime ==
  \A c, d \in Containers :
    Label[c] = Label[d] /\ pr[c] \in Converting /\ pr[d] \in Converting =>
      c = d

\* No image is in the cache twice.
CachedOnce ==
  \A c, d \in Containers :
    Label[c] = Label[d] /\ built[c] # "none" /\ built[d] # "none" => c = d

\* A conversion under way is of an image that is not in the cache, and what
\* is found there is one image.
NotCached == \A c \in Containers : pr[c] \in Converting => Cached(c) = {}
IsOne(f) == \E b : f = {b}
FoundOne == \A c \in Containers : pr[c] = "retrieve" => IsOne(found[c])
CacheInv == CachedOnce /\ NotCached /\ FoundOne

LEMMA CacheStep ==
  ASSUME IInv, CacheInv, OneAtATime, [Next]_vars
  PROVE  CacheInv'
<1> USE DEF IInv, TypeOK, CacheInv
<1>1. CASE UNCHANGED vars
  <2>1. UNCHANGED <<pr, found, built>>
    BY <1>1 DEF vars
  <2>2. \A d \in Containers : Cached(d)' = Cached(d)
    BY <2>1 DEF Cached
  <2> QED
    BY <2>1, <2>2 DEF CachedOnce, NotCached, FoundOne
<1>2. ASSUME NEW c \in Containers, Handler(c)
      PROVE  CacheInv'
  <2>1. CASE LookUpCache(c)
    <3>1. /\ found' = [found EXCEPT ![c] = Cached(c)]
          /\ pr' = [pr EXCEPT ![c] =
                       IF Cached(c) # {} THEN "retrieve" ELSE "save"]
          /\ UNCHANGED built
      BY <2>1 DEF LookUpCache, Advance
    <3>2. \A d \in Containers : Cached(d)' = Cached(d)
      BY <3>1 DEF Cached
    <3>3. CASE Cached(c) = {}
      <4>1. \A d \in Containers :
              /\ pr'[d] = "retrieve" => pr[d] = "retrieve" /\ found'[d] = found[d]
              /\ pr'[d] \in Converting => pr[d] \in Converting \/ d = c
        BY <3>1, <3>3 DEF Converting
      <4>2. CachedOnce'
        BY <3>1 DEF CachedOnce
      <4>3. NotCached'
        BY <3>2, <3>3, <4>1 DEF NotCached
      <4>4. FoundOne'
        BY <4>1 DEF FoundOne
      <4> QED
        BY <4>2, <4>3, <4>4
    <3>4. CASE Cached(c) # {}
      <4>1. PICK b : b \in Cached(c)
        BY <3>4
      <4>2. Cached(c) = {b}
        BY <4>1 DEF Cached, CachedOnce
      <4>3. IsOne(found'[c])
        BY <3>1, <4>2 DEF IsOne
      <4>4. \A d \in Containers \ {c} : pr'[d] = pr[d] /\ found'[d] = found[d]
        BY <3>1
      <4>5. \A d \in Containers : pr'[d] \in Converting => pr[d] \in Converting
        BY <3>1, <3>4 DEF Converting
      <4>6. CachedOnce'
        BY <3>1 DEF CachedOnce
      <4>7. NotCached'
        BY <3>2, <4>5 DEF NotCached
      <4>8. FoundOne'
        BY <4>3, <4>4 DEF FoundOne
      <4> QED
        BY <4>6, <4>7, <4>8
    <3> QED
      BY <3>3, <3>4
  <2>2. CASE StoreInCache(c)
    <3>1. /\ pr[c] = "build" /\ pr' = [pr EXCEPT ![c] = "finish"]
          /\ built' = [built EXCEPT ![c] = qcow2[c]]
          /\ UNCHANGED found
      BY <2>2 DEF StoreInCache, Advance
    <3>2. Cached(c) = {}
      BY <3>1 DEF NotCached, Converting
    <3>3. CachedOnce'
      <4>1. \A d \in Containers : Label[d] = Label[c] => built[d] = "none"
        BY <3>2 DEF Cached
      <4>2. \A d \in Containers \ {c} : built'[d] = built[d]
        BY <3>1
      <4> QED
        BY <4>1, <4>2 DEF CachedOnce
    <3>4. \A d \in Containers :
            d # c /\ pr[d] \in Converting => Label[d] # Label[c]
      BY <3>1 DEF OneAtATime, Converting
    <3>5. ASSUME NEW d \in Containers, pr'[d] \in Converting
          PROVE  Cached(d)' = {}
      <4>1. d # c /\ pr[d] \in Converting
        BY <3>1, <3>5 DEF Converting
      <4>2. Label[d] # Label[c] /\ Cached(d) = {}
        BY <3>4, <4>1 DEF NotCached
      <4>3. \A e \in Containers \ {c} : built'[e] = built[e]
        BY <3>1
      <4> QED
        BY <4>2, <4>3 DEF Cached
    <3>6. \A d \in Containers :
            pr'[d] = "retrieve" => pr[d] = "retrieve" /\ found'[d] = found[d]
      BY <3>1
    <3>7. NotCached'
      BY <3>5 DEF NotCached
    <3>8. FoundOne'
      BY <3>6 DEF FoundOne
    <3> QED
      BY <3>3, <3>7, <3>8
  <2>3. CASE ~LookUpCache(c) /\ ~StoreInCache(c)
    <3>1. /\ UNCHANGED <<built, found>>
          /\ \A d \in Containers :
               /\ pr'[d] \in Converting => pr[d] \in Converting
               /\ pr'[d] = "retrieve" => pr[d] = "retrieve"
      BY <1>2, <2>3 DEF Converting, Handler, EntrypointStep, PrepareStep, Create,
         SpawnsPrepare, CreateReturns, Start, Stop, CheckImage, SeeFifo,
         Rendezvous, OpenAgain, ReadToEnd, RemoveFifo, CheckSuccess,
         CheckFails, MoveImage, GoTo, MakeFifo, Inspect, RetrieveFromCache,
         RetrieveAmbiguous, SaveImage, AdjustConfig, RunKrun, CheckInstalled,
         Convert, Finish, BrokenPipe, CommandFails, Advance
    <3>2. \A d \in Containers : Cached(d)' = Cached(d)
      BY <3>1 DEF Cached
    <3> QED
      BY <3>1, <3>2 DEF CachedOnce, NotCached, FoundOne
  <2> QED
    BY <2>1, <2>2, <2>3
<1> QED
  BY <1>1, <1>2 DEF Next, Handler

\* A run that finds its image in the cache can use it, if no two conversions of
\* an image overlap, and the cache did not have it twice to begin with.
THEOREM UsableUnlessTwins ==
  Spec /\ CachedOnce /\ []OneAtATime => []CacheUsable
<1>1. Init /\ CachedOnce => CacheInv
  BY DEF Init, CacheInv, NotCached, FoundOne, Converting
<1>2. IInv /\ CacheInv /\ OneAtATime /\ [Next]_vars => CacheInv'
  BY CacheStep
<1>3. CacheInv => CacheUsable
  BY FS_Singleton DEF CacheInv, FoundOne, IsOne, CacheUsable
<1> QED
  BY <1>1, <1>2, <1>3, Invariance, PTL DEF Spec

=============================================================================
