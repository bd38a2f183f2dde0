------------------------------ MODULE Containers ------------------------------
(***************************************************************************)
(* Images and containers of ci (docker.ts): ensureImage builds an image    *)
(* when the label of the one there is stale, runInContainer runs a command *)
(* in it under a limit of time that it enforces from the host, through a   *)
(* daemon that may have stopped answering.                                 *)
(***************************************************************************)
EXTENDS Integers

CONSTANT Phases  \* bound: the commands one run sends to the container

VARIABLES
  mode,       \* whose Dockerfile it is: packaged, generated or context
  text,       \* the Dockerfile on disk
  image,      \* the image of the name: its label and the text it was built of
  hash,       \* the text ensureImage hashed
  stage,      \* where the run is
  phase,      \* the commands sent so far
  limit,      \* whether the command has a limit of time
  asHost,     \* whether it runs as the user of the host
  volume,     \* the owner of the node_modules volume
  prepared,   \* whether this process has handed the volume over
  container, client,  \* the container and the docker run process
  timedOut,   \* the flag of the kill timer
  timers,     \* the timers that are armed
  wedged,     \* whether the daemon has stopped answering
  ended,      \* history: how the command came to its end
  run         \* what runInContainer resolved to last

boxVars == <<mode, text, image, hash, stage, phase, limit, asHost, volume,
             prepared, container, client, timedOut, timers, wedged, ended,
             run>>
imageVars == <<mode, text, image, hash>>
runVars == <<limit, asHost, volume, prepared, container, client, timedOut,
             timers, ended, run>>

NoImage == [label |-> "none", of |-> "none"]
NoRun == [code |-> -1, timedOut |-> FALSE]

\* The hash of the Dockerfile against the one in the label.
Current(label) == hash = label

\* The Dockerfile must be there, unless its directory is javi-forge's to fill.
FindDockerfile ==
  /\ stage = "start"
  /\ text' = IF text = "none" /\ mode = "generated" THEN "v1" ELSE text
  /\ stage' = IF text' = "none" THEN "failed" ELSE "found"
  /\ UNCHANGED <<mode, image, hash, phase, wedged, runVars>>
Hash ==
  /\ stage = "found"
  /\ hash' = text
  /\ stage' = "hashed"
  /\ UNCHANGED <<mode, text, image, phase, wedged, runVars>>
\* docker inspect; one that fails is an image that is not there.
Inspect ==
  /\ stage = "hashed"
  /\ \E label \in IF wedged THEN {"none"} ELSE {image.label} :
       stage' = IF Current(label) THEN "ready" ELSE "building"
  /\ UNCHANGED <<imageVars, phase, wedged, runVars>>
\* docker build: it reads the Dockerfile again.
Build ==
  /\ stage = "building"
  /\ \/ /\ ~wedged
        /\ image' = [label |-> hash, of |-> text]
        /\ stage' = "ready"
     \/ stage' = "failed" /\ UNCHANGED image
  /\ UNCHANGED <<mode, text, hash, phase, wedged, runVars>>

-----------------------------------------------------------------------------

\* A fresh volume is the root's. It is handed to the user of the host once,
\* and remembered only after that has worked; if it fails the run rejects.
HandedOver(ok) == prepared \/ ok
Prepare ==
  /\ stage = "ready" /\ phase < Phases
  /\ phase' = phase + 1
  /\ run' = NoRun
  /\ ended' = "no"
  /\ IF asHost /\ ~prepared
     THEN \E ok \in IF wedged THEN {FALSE} ELSE BOOLEAN :
            /\ volume' = IF ok THEN "host" ELSE volume
            /\ prepared' = HandedOver(ok)
            /\ stage' = IF ok THEN "spawn" ELSE "ready"
     ELSE stage' = "spawn" /\ UNCHANGED <<volume, prepared>>
  /\ UNCHANGED <<imageVars, limit, asHost, container, client, timedOut, timers,
                 wedged>>

\* docker run, with its kill timer. A client that cannot start rejects.
Spawn ==
  /\ stage = "spawn"
  /\ \/ /\ container' = IF wedged THEN "none" ELSE "running"
        /\ client' = "running"
        /\ timers' = IF limit THEN {"kill"} ELSE {}
        /\ stage' = "running"
     \/ stage' = "ready" /\ UNCHANGED <<container, client, timers>>
  /\ timedOut' = FALSE
  /\ UNCHANGED <<imageVars, phase, limit, asHost, volume, prepared, wedged,
                 ended, run>>

\* The command ends by itself.
CommandEnds ==
  /\ container = "running"
  /\ \E code \in {0, 1} : container' = IF code = 0 THEN "exit-0" ELSE "exit-1"
  /\ ended' = "itself"
  /\ UNCHANGED <<imageVars, stage, phase, limit, asHost, volume, prepared,
                 client, timedOut, timers, wedged, run>>
\* The limit: the flag first, then docker stop, whose failure nobody sees,
\* and a last resort against a daemon that does not answer.
Limit ==
  /\ stage = "running" /\ "kill" \in timers
  /\ timedOut' = TRUE
  /\ timers' = {"stop", "backstop"}
  /\ UNCHANGED <<imageVars, stage, phase, limit, asHost, volume, prepared,
                 container, client, wedged, ended, run>>
\* docker stop: the command may take the signal and exit 0 all the same.
Stop ==
  /\ "stop" \in timers
  /\ timers' = timers \ {"stop"}
  /\ IF container = "running" /\ ~wedged
     THEN /\ container' \in {"exit-0", "exit-1"}
          /\ ended' = "stopped"
     ELSE UNCHANGED <<container, ended>>
  /\ UNCHANGED <<imageVars, stage, phase, limit, asHost, volume, prepared,
                 client, timedOut, wedged, run>>
Backstop == client' = IF client = "running" THEN "killed" ELSE client
LastResort ==
  /\ stage = "running" /\ "backstop" \in timers /\ "stop" \notin timers
  /\ timers' = {}
  /\ Backstop
  /\ ended' = IF ended = "no" THEN "cut-off" ELSE ended
  /\ UNCHANGED <<imageVars, stage, phase, limit, asHost, volume, prepared,
                 container, timedOut, wedged, run>>
\* The client passes the exit code on, unless the daemon has gone.
ClientExits ==
  /\ client = "running" /\ container \in {"exit-0", "exit-1"} /\ ~wedged
  /\ client' = container
  /\ container' = "none"
  /\ UNCHANGED <<imageVars, stage, phase, limit, asHost, volume, prepared,
                 timedOut, timers, wedged, ended, run>>

\* Slip: the exit code tells whether the limit was reached.
SlipReached(code) == timedOut /\ code # 0
\* What is reported is the flag of the timer.
Reached(code) == timedOut
\* close: the timers are cleared. A killed client has no code, which is 1. A
\* container that a killed client leaves behind is not followed any further.
Closed ==
  /\ stage = "running" /\ client \in {"exit-0", "exit-1", "killed"}
  /\ LET code == IF client = "exit-0" THEN 0 ELSE 1
     IN run' = [code |-> code, timedOut |-> Reached(code)]
  /\ timers' = {}
  /\ client' = "none" /\ container' = "none"
  /\ stage' = "ready"
  /\ UNCHANGED <<imageVars, phase, limit, asHost, volume, prepared, timedOut,
                 wedged, ended>>

-----------------------------------------------------------------------------

\* Somebody edits the Dockerfile, but not while it is hashed and built.
Edit ==
  /\ stage \in {"start", "found", "ready", "failed"} /\ phase = 0
  /\ text # "none"
  /\ \E t \in {"v1", "v2"} \ {text} : text' = t
  /\ UNCHANGED <<mode, image, hash, stage, phase, wedged, runVars>>
\* The next run of the same project ensures its image again.
Again ==
  /\ stage \in {"ready", "failed"} /\ phase = 0
  /\ stage' = "start"
  /\ UNCHANGED <<imageVars, phase, wedged, runVars>>
Wedge ==
  /\ ~wedged
  /\ wedged' = TRUE
  /\ UNCHANGED <<imageVars, stage, phase, runVars>>

BoxStill ==
  /\ mode = "packaged" /\ text = "v1" /\ image = NoImage /\ hash = "none"
  /\ stage = "start" /\ phase = 0 /\ limit = FALSE /\ asHost = FALSE
  /\ volume = "root" /\ prepared = FALSE /\ container = "none"
  /\ client = "none" /\ timedOut = FALSE /\ timers = {} /\ wedged = FALSE
  /\ ended = "no" /\ run = NoRun
BoxStart ==
  /\ mode \in {"packaged", "generated", "context"}
  /\ text \in {"none", "v1"}
  /\ image \in {NoImage, [label |-> "v1", of |-> "v1"],
                [label |-> "v2", of |-> "v2"]}
  /\ limit \in BOOLEAN /\ asHost \in BOOLEAN
  /\ hash = "none" /\ stage = "start" /\ phase = 0
  /\ volume = "root" /\ prepared = FALSE /\ container = "none"
  /\ client = "none" /\ timedOut = FALSE /\ timers = {} /\ wedged = FALSE
  /\ ended = "no" /\ run = NoRun

BoxNext == \/ FindDockerfile \/ Hash \/ Inspect \/ Build \/ Prepare \/ Spawn
           \/ CommandEnds \/ Limit \/ Stop \/ LastResort \/ ClientExits
           \/ Closed \/ Edit \/ Again \/ Wedge
BoxSpec == BoxStart /\ [][BoxNext]_boxVars
\* What the host does by itself: its timers, its docker stop process, close.
BoxHost == Limit \/ Stop \/ LastResort \/ Closed

-----------------------------------------------------------------------------

\* An image that ensureImage leaves as it is was built from the Dockerfile as
\* it was hashed, whichever runs and edits came before (docker.ts:271-288).
ImageIsCurrent ==
  stage = "ready" /\ phase = 0 => image.of = hash /\ image.label = hash

\* A result without the flag is the command's own: a container that was
\* stopped, or given up, is never reported as one that ended, also when it
\* takes the signal and exits 0 (docker.ts:452-455 "authoritative - never
\* inferred from the exit code").
FlagIsHonest == run # NoRun /\ ~run.timedOut => ended = "itself"

\* A command that runs as the user of the host finds the volume handed over,
\* also after a handover that failed in an earlier phase (docker.ts:417-442).
VolumeIsOurs == stage = "running" /\ asHost => volume = "host"

\* A command with a limit comes to an end whatever the daemon does
\* (docker.ts:509-511 "to guarantee the run promise always resolves").
LimitedRunEnds == stage = "running" /\ limit ~> stage # "running"

\* Image, user and outcome of a command are what the result stands for.
ContainerIsHonest == ImageIsCurrent /\ FlagIsHonest /\ VolumeIsOurs
=============================================================================
