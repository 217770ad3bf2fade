--------------------------- MODULE BootcConversion ---------------------------
(***************************************************************************)
(* Bootable containers: how the VM image of one is generated beside it and *)
(* handed to its entrypoint. create spawns prepare.sh, at the first create *)
(* only; prepare.sh and the container's entrypoint meet at a named pipe,   *)
(* whose end of file tells the entrypoint that the conversion is over;     *)
(* conversions share, through the engine, a cache of converted images.     *)
(*                                                                         *)
(* Containers may be stopped and started again meanwhile; prepare.sh is    *)
(* not stopped with them, but dies when it writes to a pipe without        *)
(* reader.                                                                 *)
(***************************************************************************)
EXTENDS Naturals, FiniteSets

CONSTANTS
  Containers,   \* bootable containers
  Earlier,      \* those among them that are removed by now
  Label,        \* the image ID and disk size each is made of
  MaxStops      \* bound: how often one container is stopped

ASSUME EarlierAssumption == Earlier \subseteq Containers
ASSUME StopsAssumption == MaxStops \in Nat

VARIABLES
  ct,          \* the container: "absent", "creating", "created", ...
  ep,          \* where its entrypoint is, "off" when there is none
  pr,          \* where its prepare.sh is
  fifo,        \* whether bootc/progress exists
  found,       \* prepare.sh's cache_image_id: the builders of what it found
  config,      \* bootc/config.json: "template" or "filled"
  installed,   \* bootc/bootc-install-success
  qcow2,       \* bootc/image.qcow2: "none", "broken" or "complete"
  success,     \* bootc/success
  image,       \* image/image, in the same terms as qcow2
  built,       \* what each container stored in the cache, likewise
  stops        \* how often each was stopped

vars == <<ct, ep, pr, fifo, found, config, installed, qcow2, success, image,
          built, stops>>

\* The steps of prepare.sh, in order, up to its ends.
PrepareSteps ==
  {"mkfifo", "open", "inspect", "lookup", "retrieve", "save", "config",
   "krun", "installed", "convert", "build", "finish"}
PrepareEnds == {"done", "dead"}

\* The steps that start by writing a line of progress.
WritingSteps == {"retrieve", "save", "build", "finish"}

\* Plausible bug: something prepare.sh leaves behind keeps the pipe open.
HasWriterForever(c) == pr[c] \notin {"none", "mkfifo", "open"}

\* prepare.sh holds the pipe's write end from line 19 until it ends.
HasWriter(c) == pr[c] \in PrepareSteps \ {"mkfifo", "open"}
HasReader(c) == ep[c] = "read"

\* Plausible bug: the engine is asked for another field than the ID.
CachedLabels(c) ==
  {Label[b] : b \in {d \in Containers : built[d] # "none" /\ Label[d] = Label[c]}}

\* The cached images made of what c is made of, by who built them.
Cached(c) == {b \in Containers : built[b] # "none" /\ Label[b] = Label[c]}

-----------------------------------------------------------------------------
\* Of a container that is removed, the cache may have kept the image.
Init ==
  /\ ct = [c \in Containers |-> IF c \in Earlier THEN "removed" ELSE "absent"]
  /\ ep = [c \in Containers |-> "off"]
  /\ pr = [c \in Containers |-> "none"]
  /\ fifo = [c \in Containers |-> FALSE]
  /\ found = [c \in Containers |-> {}]
  /\ config = [c \in Containers |-> "template"]
  /\ installed = [c \in Containers |-> FALSE]
  /\ qcow2 = [c \in Containers |-> "none"]
  /\ success = [c \in Containers |-> FALSE]
  /\ image = [c \in Containers |-> "none"]
  /\ built \in [Containers -> {"none", "complete"}]
  /\ \A c \in Containers \ Earlier : built[c] = "none"
  /\ stops = [c \in Containers |-> 0]

-----------------------------------------------------------------------------
(* The engine and crun-vm                                                  *)

\* Plausible bug: every create spawns a conversion.
SpawnAlways(c) == TRUE
SpawnsPrepare(c) == ct[c] = "absent"

\* create: writes crun-vm's files anew, config.json among them, and the first
\* one spawns prepare.sh as its last act.
Create(c) ==
  /\ ct[c] \in {"absent", "stopped"}
  /\ ct' = [ct EXCEPT ![c] = "creating"]
  /\ config' = [config EXCEPT ![c] = "template"]
  /\ pr' = IF SpawnsPrepare(c) THEN [pr EXCEPT ![c] = "mkfifo"] ELSE pr
  /\ UNCHANGED <<ep, fifo, found, installed, qcow2, success, image, built,
                 stops>>

\* Plausible bug: a create waits for the conversion that an earlier one began.
CreateReturnsLate(c) ==
  /\ ct[c] = "creating"
  /\ ~HasWriter(c)
  /\ ct' = [ct EXCEPT ![c] = "created"]
  /\ UNCHANGED <<ep, pr, fifo, found, config, installed, qcow2, success,
                 image, built, stops>>

\* create does not wait for prepare.sh; only now does the engine answer
\* questions about the container.
CreateReturns(c) ==
  /\ ct[c] = "creating"
  /\ ct' = [ct EXCEPT ![c] = "created"]
  /\ UNCHANGED <<ep, pr, fifo, found, config, installed, qcow2, success,
                 image, built, stops>>

Start(c) ==
  /\ ct[c] = "created"
  /\ ct' = [ct EXCEPT ![c] = "running"]
  /\ ep' = [ep EXCEPT ![c] = "check"]
  /\ UNCHANGED <<pr, fifo, found, config, installed, qcow2, success, image,
                 built, stops>>

\* The container is stopped or killed, wherever its entrypoint is.
Stop(c) ==
  /\ ct[c] = "running"
  /\ stops[c] < MaxStops
  /\ ct' = [ct EXCEPT ![c] = "stopped"]
  /\ ep' = [ep EXCEPT ![c] = "off"]
  /\ stops' = [stops EXCEPT ![c] = @ + 1]
  /\ UNCHANGED <<pr, fifo, found, config, installed, qcow2, success, image,
                 built>>

-----------------------------------------------------------------------------
(* The entrypoint                                                          *)

GoTo(c, step) ==
  /\ ep' = [ep EXCEPT ![c] = step]
  /\ UNCHANGED <<ct, pr, found, config, installed, built, stops>>

\* The image may be there from an earlier run.
CheckImage(c) ==
  /\ ep[c] = "check"
  /\ GoTo(c, IF image[c] = "none" THEN "poll" ELSE "up")
  /\ UNCHANGED <<fifo, qcow2, success, image>>

SeeFifo(c) ==
  /\ ep[c] = "poll"
  /\ fifo[c]
  /\ GoTo(c, "open")
  /\ UNCHANGED <<fifo, qcow2, success, image>>

\* Opening the pipe blocks both sides until the other comes...
Rendezvous(c) ==
  /\ ep[c] = "open" /\ pr[c] = "open"
  /\ ep' = [ep EXCEPT ![c] = "read"]
  /\ pr' = [pr EXCEPT ![c] = "inspect"]
  /\ UNCHANGED <<ct, fifo, found, config, installed, qcow2, success, image,
                 built, stops>>

\* ...unless a writer is left from before the container was restarted.
OpenAgain(c) ==
  /\ ep[c] = "open" /\ HasWriter(c)
  /\ GoTo(c, "read")
  /\ UNCHANGED <<fifo, qcow2, success, image>>

\* Plausible bug: the first line is taken for the last.
ReadOneLine(c) ==
  /\ ep[c] = "read"
  /\ GoTo(c, "rm")
  /\ UNCHANGED <<fifo, qcow2, success, image>>

\* cat ends at the end of file: when prepare.sh, which is alone to write, ends.
ReadToEnd(c) ==
  /\ ep[c] = "read" /\ ~HasWriter(c)
  /\ GoTo(c, "rm")
  /\ UNCHANGED <<fifo, qcow2, success, image>>

RemoveFifo(c) ==
  /\ ep[c] = "rm"
  /\ fifo' = [fifo EXCEPT ![c] = FALSE]
  /\ GoTo(c, "test")
  /\ UNCHANGED <<qcow2, success, image>>

\* Plausible bug: whether the conversion succeeded is not looked at.
SucceededAlways(c) == TRUE
Succeeded(c) == success[c]

CheckSuccess(c) ==
  /\ ep[c] = "test"
  /\ Succeeded(c)
  /\ GoTo(c, "mv")
  /\ UNCHANGED <<fifo, qcow2, success, image>>

\* errexit ends the entrypoint, and with it the container.
CheckFails(c) ==
  /\ ep[c] = "test"
  /\ ~Succeeded(c)
  /\ ct' = [ct EXCEPT ![c] = "stopped"]
  /\ ep' = [ep EXCEPT ![c] = "off"]
  /\ UNCHANGED <<pr, fifo, found, config, installed, qcow2, success, image,
                 built, stops>>

MoveImage(c) ==
  /\ ep[c] = "mv"
  /\ image' = [image EXCEPT ![c] = qcow2[c]]
  /\ qcow2' = [qcow2 EXCEPT ![c] = "none"]
  /\ GoTo(c, "up")
  /\ UNCHANGED <<fifo, success>>

EntrypointStep(c) ==
  \/ CheckImage(c) \/ SeeFifo(c) \/ Rendezvous(c) \/ OpenAgain(c)
  \/ ReadToEnd(c) \/ RemoveFifo(c) \/ CheckSuccess(c) \/ CheckFails(c)
  \/ MoveImage(c)

-----------------------------------------------------------------------------
(* prepare.sh                                                              *)

\* From a step of prepare.sh to another, writing progress where it does.
Advance(c, from, to) ==
  /\ pr[c] = from
  /\ from \in WritingSteps => HasReader(c)
  /\ pr' = [pr EXCEPT ![c] = to]
  /\ UNCHANGED <<ct, ep, image, stops>>

MakeFifo(c) ==
  /\ Advance(c, "mkfifo", "open")
  /\ fifo' = [fifo EXCEPT ![c] = TRUE]
  /\ UNCHANGED <<found, config, installed, qcow2, success, built>>

\* The engine answers about a container only once its create is over.
Inspect(c) ==
  /\ ct[c] # "creating"
  /\ Advance(c, "inspect", "lookup")
  /\ UNCHANGED <<fifo, found, config, installed, qcow2, success, built>>

LookUpCache(c) ==
  /\ Advance(c, "lookup", IF Cached(c) # {} THEN "retrieve" ELSE "save")
  /\ found' = [found EXCEPT ![c] = Cached(c)]
  /\ UNCHANGED <<fifo, config, installed, qcow2, success, built>>

\* `engine create` takes one image ID, not one per line.
RetrieveFromCache(c) ==
  /\ Advance(c, "retrieve", "finish")
  /\ \E b \in Containers :
       /\ found[c] = {b}
       /\ qcow2' = [qcow2 EXCEPT ![c] = built[b]]
  /\ UNCHANGED <<fifo, found, config, installed, success, built>>

RetrieveAmbiguous(c) ==
  /\ Advance(c, "retrieve", "dead")
  /\ Cardinality(found[c]) > 1
  /\ UNCHANGED <<fifo, found, config, installed, qcow2, success, built>>

SaveImage(c) ==
  /\ Advance(c, "save", "config")
  /\ UNCHANGED <<fifo, found, config, installed, qcow2, success, built>>

AdjustConfig(c) ==
  /\ Advance(c, "config", "krun")
  /\ config' = [config EXCEPT ![c] = "filled"]
  /\ UNCHANGED <<fifo, found, installed, qcow2, success, built>>

\* krun runs bootc-install as config.json says, and exits successfully whether
\* or not bootc-install did.
RunKrun(c) ==
  /\ Advance(c, "krun", IF config[c] = "filled" THEN "installed" ELSE "dead")
  /\ \E ok \in BOOLEAN :
       /\ ok => config[c] = "filled"
       /\ installed' = [installed EXCEPT ![c] = ok]
  /\ UNCHANGED <<fifo, found, config, qcow2, success, built>>

\* Plausible bug: krun's exit status is trusted.
CheckNothing(c) ==
  /\ Advance(c, "installed", "convert")
  /\ UNCHANGED <<fifo, found, config, installed, qcow2, success, built>>

CheckInstalled(c) ==
  /\ Advance(c, "installed", IF installed[c] THEN "convert" ELSE "dead")
  /\ UNCHANGED <<fifo, found, config, installed, qcow2, success, built>>

\* qemu-img converts whatever image.raw holds.
Convert(c) ==
  /\ Advance(c, "convert", "build")
  /\ qcow2' = [qcow2 EXCEPT ![c] =
                 IF installed[c] THEN "complete" ELSE "broken"]
  /\ UNCHANGED <<fifo, found, config, installed, success, built>>

\* The build copies image.qcow2 into the engine's storage, under labels.
StoreInCache(c) ==
  /\ Advance(c, "build", "finish")
  /\ built' = [built EXCEPT ![c] = qcow2[c]]
  /\ UNCHANGED <<fifo, found, config, installed, qcow2, success>>

Finish(c) ==
  /\ Advance(c, "finish", "done")
  /\ success' = [success EXCEPT ![c] = TRUE]
  /\ UNCHANGED <<fifo, found, config, installed, qcow2, built>>

\* Nobody reads: SIGPIPE.
BrokenPipe(c) ==
  /\ pr[c] \in WritingSteps /\ ~HasReader(c)
  /\ pr' = [pr EXCEPT ![c] = "dead"]
  /\ UNCHANGED <<ct, ep, fifo, found, config, installed, qcow2, success,
                 image, built, stops>>

\* A command fails, and errexit ends the script, or it is killed, also while it
\* waits to open the pipe; a retrieval or a conversion may leave part of an image
\* behind.
CommandFails(c) ==
  /\ pr[c] \in PrepareSteps
  /\ pr' = [pr EXCEPT ![c] = "dead"]
  /\ qcow2' \in IF pr[c] \in {"retrieve", "convert"}
                THEN {qcow2, [qcow2 EXCEPT ![c] = "broken"]} ELSE {qcow2}
  /\ UNCHANGED <<ct, ep, fifo, found, config, installed, success, image,
                 built, stops>>

PrepareStep(c) ==
  \/ MakeFifo(c) \/ Inspect(c) \/ LookUpCache(c)
  \/ RetrieveFromCache(c) \/ RetrieveAmbiguous(c)
  \/ SaveImage(c) \/ AdjustConfig(c) \/ RunKrun(c) \/ CheckInstalled(c)
  \/ Convert(c) \/ StoreInCache(c) \/ Finish(c) \/ BrokenPipe(c)

-----------------------------------------------------------------------------
Next ==
  \E c \in Containers :
    \/ Create(c) \/ CreateReturns(c) \/ Start(c) \/ Stop(c)
    \/ EntrypointStep(c)
    \/ PrepareStep(c) \/ CommandFails(c)

Spec == Init /\ [][Next]_vars

\* Processes run on; and `run` and `start` are what the engine was asked for,
\* so that what was created is started. Nothing is asked again.
Fairness ==
  \A c \in Containers \ Earlier :
    /\ WF_vars(CreateReturns(c))
    /\ WF_vars(Start(c))
    /\ WF_vars(EntrypointStep(c))
    /\ WF_vars(PrepareStep(c))

FairSpec == Spec /\ Fairness

-----------------------------------------------------------------------------
(* Safety                                                                  *)

\* Every variable stays in the set its code counterpart ranges over.
TypeOK ==
  /\ ct \in [Containers ->
             {"absent", "creating", "created", "running", "stopped",
              "removed"}]
  /\ ep \in [Containers ->
             {"off", "check", "poll", "open", "read", "rm", "test", "mv", "up"}]
  /\ pr \in [Containers -> {"none"} \cup PrepareSteps \cup PrepareEnds]
  /\ fifo \in [Containers -> BOOLEAN]
  /\ found \in [Containers -> SUBSET Containers]
  /\ config \in [Containers -> {"template", "filled"}]
  /\ installed \in [Containers -> BOOLEAN]
  /\ qcow2 \in [Containers -> {"none", "broken", "complete"}]
  /\ success \in [Containers -> BOOLEAN]
  /\ image \in [Containers -> {"none", "broken", "complete"}]
  /\ built \in [Containers -> {"none", "broken", "complete"}]
  /\ stops \in [Containers -> 0..MaxStops]

\* Whatever fails and whenever the container is stopped, no VM gets a disk
\* that bootc-install or the retrieval left unfinished.
OnlyCompleteImages == \A c \in Containers : image[c] \in {"none", "complete"}

\* ...nor does the cache, from which other containers would get it.
OnlyCompleteCached == \A c \in Containers : built[c] \in {"none", "complete"}

\* The entrypoint takes image.qcow2 away only when prepare.sh, which still
\* builds the cached image from it, has ended.
HandedOverAtTheEnd ==
  \A c \in Containers : ep[c] \in {"rm", "test", "mv"} => pr[c] \in PrepareEnds

\* Once a conversion reported success, its image is somewhere: where
\* prepare.sh left it, or where the entrypoint moved it.
SuccessMeansImage ==
  \A c \in Containers :
    success[c] => "complete" \in {qcow2[c], image[c]}

\* A container has one conversion in its life, however often it is restarted.
ConvertsOnce ==
  [][\A c \in Containers :
       pr'[c] = "mkfifo" => pr[c] \in {"none", "mkfifo"}]_vars

\* How far container c's image is: under way until the entrypoint has it.
Conversion(c) ==
  IF image[c] = "complete" THEN "done"
  ELSE IF pr[c] \in {"none", "dead"} THEN pr[c] ELSE "running"

\* To its containers the conversion is what ImageSupply promises.
Supply == INSTANCE ImageSupply
  WITH conversion <- [c \in Containers |-> Conversion(c)],
       image <- [c \in Containers |-> image[c] # "none"]
ImplementsImageSupply == Supply!Spec

-----------------------------------------------------------------------------
(* Liveness                                                                *)

\* A conversion that got hold of the pipe ends, even when its container is
\* stopped, or created anew: it and the engine never wait for each other.
PrepareReturns ==
  \A c \in Containers : HasWriter(c) ~> pr[c] \in PrepareEnds

\* prepare.sh was killed before the entrypoint came to the pipe.
NobodyComes(c) == ep[c] = "open" /\ pr[c] = "dead"

\* With the pipe there, the first run of a container does not wait for ever,
\* whichever step of the conversion fails: its VM boots or it ends. The one
\* exception is a prepare.sh that is killed while it waits to open the pipe.
ConversionHeard ==
  \A c \in Containers :
    stops[c] = 0 /\ fifo[c] /\ ep[c] \in {"check", "poll", "open", "read"}
      ~> ep[c] \in {"up", "off"} \/ NobodyComes(c)

-----------------------------------------------------------------------------
(* What the documentation says, and some behaviour contradicts             *)

\* The entrypoint waits until the VM image is generated: when it is, the wait
\* ends.
WaitEnds ==
  \A c \in Containers :
    success[c] /\ ep[c] \in {"poll", "open"} ~> ep[c] \notin {"poll", "open"}

\* A converted image is cached so that subsequent runs boot faster: a run that
\* finds it can use it.
CacheUsable ==
  \A c \in Containers : pr[c] = "retrieve" => Cardinality(found[c]) = 1
=============================================================================
