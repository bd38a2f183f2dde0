------------------------------- MODULE CiRun -------------------------------
(***************************************************************************)
(* One run of the `ci` command: its runners, its scans, its gates, and the *)
(* children it starts, natively or in a container.                         *)
(*   src/src/commands/ci.ts   runCI, runRunner, runStep, runGates,         *)
(*                            runGateNative, collectGateOutcomes           *)
(*   src/src/lib/docker.ts    runInContainer                               *)
(*   src/src/lib/git-diff.ts  resolveBaseRef, changedFiles                 *)
(*                                                                         *)
(* The engine waits for one child at a time; the child, the timer on it    *)
(* and the engine are interleaved.  What the daemon, git or an image build *)
(* answers is any answer they can give when they are asked.  The           *)
(* github-parity mode is a path of its own and is not modelled.            *)
(* Slip... definitions are plausible bugs in the definition after them.    *)
(***************************************************************************)
EXTENDS Integers, Sequences

CONSTANTS
  Plans,   \* the options and the configuration a run may be started with
  Files    \* files that may differ from the base

Modes == {"full", "quick", "detect", "shell"}

ASSUME PlansAssumption ==
  \A p \in Plans :
    /\ p.mode \in Modes
    /\ p.source \in {"auto", "config"}
    /\ {p.noDocker, p.noSecurity, p.noGhagga} \subseteq BOOLEAN
    /\ Len(p.runners) \in Nat /\ DOMAIN p.runners = 1..Len(p.runners)
    /\ \A i \in DOMAIN p.runners :
         /\ p.runners[i].node \in BOOLEAN
         /\ Len(p.runners[i].cmds) \in Nat
         /\ DOMAIN p.runners[i].cmds = 1..Len(p.runners[i].cmds)
    /\ Len(p.gates) \in Nat /\ DOMAIN p.gates = 1..Len(p.gates)
    /\ \A i \in DOMAIN p.gates :
         /\ {p.gates[i].blocking, p.gates[i].changed, p.gates[i].image,
             p.gates[i].timed} \subseteq BOOLEAN
         /\ p.gates[i].run \in Nat \ {0}

VARIABLES
  plan,      \* the plan of this run
  pc,        \* where the run is
  at,        \* the runner or gate, and its command, that the run is at
  red,       \* runCI has thrown, or is about to
  child,     \* the process the run waits for
  probe,     \* dockerAvailableCache: "unknown", "up" or "down"
  scope,     \* changedScope: not resolved, skip, or the files
  volumes,   \* directories with an entry in nodeModulesVolumes
  disk,      \* volumes Docker holds for this run
  stuck,     \* volumes Docker refused to remove
  outcomes,  \* what onOutcome was told
  failures,  \* blockingFailures
  answer,    \* what collectGateOutcomes returns
  ran        \* history: how each command really ended

dockerState == <<volumes, disk, stuck>>
gateState == <<probe, scope, outcomes, failures>>
vars == <<plan, pc, at, red, child, dockerState, gateState, answer, ran>>

NoChild == [state |-> "none", place |-> "native", timed |-> FALSE,
            late |-> FALSE, truth |-> "none"]
Unresolved == [kind |-> "unresolved", files |-> {}]
Scopes == {[kind |-> "skip", files |-> {}]}
            \cup [kind : {"files"}, files : SUBSET Files]
NoAnswer == [ok |-> TRUE, exitCode |-> -1]

Init ==
  /\ plan \in Plans
  /\ pc = "detect" /\ at = [job |-> 1, cmd |-> 1] /\ red = FALSE
  /\ child = NoChild
  /\ probe = "unknown" /\ scope = Unresolved
  /\ volumes = {} /\ disk = {} /\ stuck = {}
  /\ outcomes = <<>> /\ failures = {} /\ answer = NoAnswer
  /\ ran = {}

Goto(point) == pc' = point /\ UNCHANGED red
Throw == pc' = "over" /\ red' = TRUE
\* Slip: the next command is begun, not the next runner or gate.
SlipBegin(job) == at' = [at EXCEPT !.cmd = 1]
Begin(job) == at' = [job |-> job, cmd |-> 1]
NextCommand == at' = [at EXCEPT !.cmd = @ + 1]

-----------------------------------------------------------------------------
(* The prologue.                                                            *)

\* Without runners only the gates are left, and only two modes have any.
Detect ==
  /\ pc = "detect"
  /\ \/ Throw
     \/ IF plan.runners = <<>>
        THEN IF plan.mode \in {"detect", "shell"} THEN Throw ELSE Goto("gate")
        ELSE Goto(CASE plan.mode = "detect" -> "over"
                    [] plan.mode = "shell" -> "shell"
                    [] OTHER -> IF plan.noDocker THEN "runner" ELSE "docker")
  /\ UNCHANGED <<plan, at, child, dockerState, gateState, answer, ran>>

\* The image may not be built, and the shell may not be started.
Shell ==
  /\ pc = "shell"
  /\ \/ Throw
     \/ ~plan.noDocker /\ Goto("over")
  /\ UNCHANGED <<plan, at, child, dockerState, gateState, answer, ran>>

CheckDocker ==
  /\ pc = "docker"
  /\ \/ probe' = "down" /\ Throw
     \/ probe' = "up" /\ Goto(IF plan.source = "auto" THEN "image"
                                                       ELSE "runner")
  /\ UNCHANGED <<plan, at, child, dockerState, scope, outcomes, failures,
                 answer, ran>>

\* The refresh of .context/ that comes next cannot fail the run.
BuildImage ==
  /\ pc = "image"
  /\ Throw \/ Goto("runner")
  /\ UNCHANGED <<plan, at, child, dockerState, gateState, answer, ran>>

-----------------------------------------------------------------------------
(* The runners.                                                             *)

Runner == plan.runners[at.job]

\* The tool checks come first and count as commands.
Phase == Runner.cmds[at.cmd]

Skipped(phase) ==
  \/ plan.mode # "full" /\ phase \in {"test", "security"}
  \/ plan.noSecurity /\ phase = "security"

\* The first failure ends the loop; the finally clause still runs.
BreakOff == pc' = "cleanup" /\ red' = TRUE

UsesVolume(r) == r.node /\ ~plan.noDocker

\* Runners of one directory share a volume.  An image that is given, or was
\* built in the prologue, cannot fail here.
ResolveImage ==
  /\ pc = "runner" /\ at.job <= Len(plan.runners)
  /\ volumes' = IF UsesVolume(Runner) THEN volumes \cup {Runner.directory}
                                      ELSE volumes
  /\ \/ Goto("step")
     \/ /\ ~plan.noDocker /\ plan.source = "config" /\ Runner.builds
        /\ BreakOff
  /\ UNCHANGED <<plan, at, child, disk, stuck, gateState, answer, ran>>

Spawn(place, timed) ==
  child' = [state |-> "running", place |-> place, timed |-> timed,
            late |-> FALSE, truth |-> "none"]

SkipStep ==
  /\ pc = "step" /\ at.cmd <= Len(Runner.cmds) /\ Skipped(Phase)
  /\ NextCommand
  /\ UNCHANGED <<plan, pc, red, child, dockerState, gateState, answer, ran>>

\* Docker makes the volume when a container first mounts it.  A native step
\* is spawned without a timer.
StartStep ==
  /\ pc = "step" /\ at.cmd <= Len(Runner.cmds) /\ ~Skipped(Phase)
  /\ IF plan.noDocker THEN Spawn("native", FALSE) ELSE Spawn("container", TRUE)
  /\ disk' = IF UsesVolume(Runner) THEN disk \cup {Runner.directory} ELSE disk
  /\ Goto("step-runs")
  /\ UNCHANGED <<plan, at, volumes, stuck, gateState, answer, ran>>

\* The history keeps what the code may not look at.
Remember(job, files) ==
  ran' = ran \cup {[job |-> job, index |-> at.job, cmd |-> at.cmd,
                    place |-> child.place, truth |-> child.truth,
                    late |-> child.late, files |-> files]}

\* The result of a container says whether it was late; runStep compares the
\* exit code only.
StepPassed == child.truth = "zero"

EndStep ==
  /\ pc = "step-runs" /\ child.state = "ended"
  /\ Remember("runner", {})
  /\ child' = NoChild
  /\ IF StepPassed THEN NextCommand /\ Goto("step")
                   ELSE BreakOff /\ UNCHANGED at
  /\ UNCHANGED <<plan, dockerState, gateState, answer>>

NextRunner ==
  /\ pc = "step" /\ at.cmd > Len(Runner.cmds)
  /\ Begin(at.job + 1) /\ Goto("runner")
  /\ UNCHANGED <<plan, child, dockerState, gateState, answer, ran>>

RunnersDone ==
  /\ pc = "runner" /\ at.job > Len(plan.runners)
  /\ Goto("cleanup")
  /\ UNCHANGED <<plan, at, child, dockerState, gateState, answer, ran>>

\* Every volume is tried; Docker keeps one that is in use, or when it is down.
RemoveVolumes ==
  /\ pc = "cleanup"
  /\ \E kept \in SUBSET (disk \cap volumes) :
       /\ disk' = (disk \ volumes) \cup kept
       /\ stuck' = kept
  /\ Goto(IF red THEN "over" ELSE "semgrep")
  /\ UNCHANGED <<plan, at, child, volumes, gateState, answer, ran>>

\* A scanner that is not there is a skipped step.
Semgrep ==
  /\ pc = "semgrep"
  /\ \/ Goto("ghagga")
     \/ plan.mode = "full" /\ ~plan.noSecurity /\ Throw
  /\ UNCHANGED <<plan, at, child, dockerState, gateState, answer, ran>>

Ghagga ==
  /\ pc = "ghagga"
  /\ \/ Goto("gate") /\ Begin(1)
     \/ plan.mode = "full" /\ ~plan.noGhagga /\ Throw /\ UNCHANGED at
  /\ UNCHANGED <<plan, child, dockerState, gateState, answer, ran>>

-----------------------------------------------------------------------------
(* The child of the run and its timer.                                      *)

Truths == {"zero", "one", "124", "signal", "unspawned"}

\* A child may end in any way at any moment: the signals it may trap, and a
\* container may leave on zero after docker stop.
ChildEnds ==
  /\ child.state \in {"running", "stopping", "killed"}
  /\ \E truth \in Truths :
       /\ truth = "unspawned" => child.state = "running"
       /\ child' = [child EXCEPT !.state = "ended", !.truth = truth]
  /\ UNCHANGED <<plan, pc, at, red, dockerState, gateState, answer, ran>>

TimerSet == child.timed

\* The mark is set before the signal is sent.
TimerFires ==
  /\ child.state = "running" /\ TimerSet
  /\ child' = [child EXCEPT !.state = "stopping", !.late = TRUE]
  /\ UNCHANGED <<plan, pc, at, red, dockerState, gateState, answer, ran>>

\* Slip: a child that ignores the first signal is not killed.
SlipEscalate == FALSE

\* The grace is over: SIGKILL, for a container to its client.
Escalate ==
  /\ child.state = "stopping"
  /\ child' = [child EXCEPT !.state = "killed"]
  /\ UNCHANGED <<plan, pc, at, red, dockerState, gateState, answer, ran>>

Child == ChildEnds \/ TimerFires \/ Escalate

-----------------------------------------------------------------------------
(* The gates.                                                               *)

Gate == plan.gates[at.job]

\* Every gate leaves the phase through one of these reports.
Emit(status, code, reason) ==
  /\ outcomes' = Append(outcomes, [gate |-> at.job, status |-> status,
                                   code |-> code, reason |-> reason])
  /\ failures' = IF status = "error" THEN failures \cup {at.job} ELSE failures
  /\ Begin(at.job + 1) /\ Goto("gate")

FailedStatus == IF Gate.blocking THEN "error" ELSE "warning"

Probes == IF probe = "unknown" THEN BOOLEAN ELSE {probe = "up"}

Refuses(up) == plan.noDocker \/ ~up

\* --no-docker is looked at before the daemon is asked.
OpenImageGate ==
  /\ pc = "gate" /\ at.job <= Len(plan.gates) /\ Gate.image
  /\ \E up \in IF plan.noDocker THEN {FALSE} ELSE Probes :
       /\ probe' = IF plan.noDocker THEN probe
                                    ELSE IF up THEN "up" ELSE "down"
       /\ IF Refuses(up)
          THEN Emit(FailedStatus, 0, "refused")
          ELSE Goto("scope") /\ UNCHANGED <<at, outcomes, failures>>
  /\ UNCHANGED <<plan, child, dockerState, scope, answer, ran>>

OpenNativeGate ==
  /\ pc = "gate" /\ at.job <= Len(plan.gates) /\ ~Gate.image
  /\ Goto("scope")
  /\ UNCHANGED <<plan, at, child, dockerState, gateState, answer, ran>>

ScopesSeen == IF scope = Unresolved THEN Scopes ELSE {scope}

ScopeGate ==
  /\ pc = "scope"
  /\ \/ /\ ~Gate.changed
        /\ Goto("command") /\ UNCHANGED <<at, scope, outcomes, failures>>
     \/ /\ Gate.changed
        /\ \E seen \in ScopesSeen :
             /\ scope' = seen
             /\ IF seen.files = {}
                THEN Emit("skipped", 0, seen.kind)
                ELSE Goto("command") /\ UNCHANGED <<at, outcomes, failures>>
  /\ UNCHANGED <<plan, child, dockerState, probe, answer, ran>>

StartGateCommand ==
  /\ pc = "command"
  /\ Spawn(IF Gate.image THEN "container" ELSE "native", Gate.timed)
  /\ Goto("command-runs")
  /\ UNCHANGED <<plan, at, dockerState, gateState, answer, ran>>

\* What the child says, and what a container's client says for it.
ExitCode == CASE child.truth \in {"zero", "unspawned"} -> 0
              [] child.truth = "one" -> 1
              [] child.truth = "124" -> 124
              [] child.truth = "signal" ->
                   IF child.place = "native" THEN 137 ELSE 1

\* Slip: a late child that left on zero has passed.
SlipGateCode == ExitCode
GateCode == IF child.late /\ child.truth # "unspawned" THEN 124 ELSE ExitCode

\* Slip: 124 is taken for a timeout.
SlipTimeoutReason == IF GateCode = 124 THEN "timed-out" ELSE "none"
TimeoutReason ==
  IF child.late /\ child.truth # "unspawned" THEN "timed-out" ELSE "none"

EndGateCommand ==
  /\ pc = "command-runs" /\ child.state = "ended"
  /\ Remember("gate", IF Gate.changed THEN scope.files ELSE {})
  /\ child' = NoChild
  /\ LET good == child.truth # "unspawned" /\ GateCode = 0
     IN  \/ /\ good /\ at.cmd < Gate.run
            /\ NextCommand /\ Goto("command")
            /\ UNCHANGED <<outcomes, failures>>
         \/ /\ good /\ at.cmd = Gate.run
            /\ Emit("done", 0, "none")
         \/ /\ ~good
            /\ Emit(FailedStatus, GateCode, TimeoutReason)
  /\ UNCHANGED <<plan, dockerState, probe, scope, answer>>

CloseGates ==
  /\ pc = "gate" /\ at.job > Len(plan.gates)
  /\ IF failures = {} THEN Goto("over") ELSE Throw
  /\ UNCHANGED <<plan, at, child, dockerState, gateState, answer, ran>>

-----------------------------------------------------------------------------
(* The headless answer.                                                     *)

BlockingErrored ==
  \E i \in DOMAIN outcomes :
    plan.gates[outcomes[i].gate].blocking /\ outcomes[i].status = "error"

ExitStatus == IF BlockingErrored \/ red THEN 1 ELSE 0

Collect ==
  /\ pc = "over"
  /\ answer' = [ok |-> ~BlockingErrored, exitCode |-> ExitStatus]
  /\ Goto("told")
  /\ UNCHANGED <<plan, at, child, dockerState, gateState, ran>>

Engine ==
  \/ Detect \/ Shell \/ CheckDocker \/ BuildImage
  \/ ResolveImage \/ SkipStep \/ StartStep \/ EndStep
  \/ NextRunner \/ RunnersDone \/ RemoveVolumes \/ Semgrep \/ Ghagga
  \/ OpenImageGate \/ OpenNativeGate \/ ScopeGate
  \/ StartGateCommand \/ EndGateCommand \/ CloseGates
  \/ Collect

Next == Engine \/ Child

\* The engine is a sequence of awaits that settle.  A timer that is set fires,
\* and what was killed ends; nothing else makes a child end.
Fairness ==
  /\ WF_vars(Engine)
  /\ WF_vars(TimerFires)
  /\ WF_vars(Escalate)
  /\ WF_vars(child.state = "killed" /\ ChildEnds)

Spec == Init /\ [][Next]_vars /\ Fairness

-----------------------------------------------------------------------------
(* Properties.                                                              *)

Places == {"native", "container"}

\* The shape of the state; a child is late only if it had a timer.
TypeOK ==
  /\ plan \in Plans
  /\ pc \in {"detect", "shell", "docker", "image", "runner", "step",
             "step-runs", "cleanup", "semgrep", "ghagga", "gate", "scope",
             "command", "command-runs", "over", "told"}
  /\ at.job \in Nat \ {0} /\ at.cmd \in Nat \ {0}
  /\ red \in BOOLEAN
  /\ child.state \in {"none", "running", "stopping", "killed", "ended"}
  /\ child.place \in Places /\ child.truth \in Truths \cup {"none"}
  /\ {child.timed, child.late} \subseteq BOOLEAN /\ (child.late => child.timed)
  /\ probe \in {"unknown", "up", "down"}
  /\ scope \in {Unresolved} \cup Scopes
  /\ stuck \subseteq disk /\ disk \subseteq volumes
  /\ failures \subseteq DOMAIN plan.gates
  /\ answer.ok \in BOOLEAN /\ answer.exitCode \in {-1, 0, 1}
  /\ \A i \in DOMAIN outcomes :
       outcomes[i].status \in {"done", "skipped", "warning", "error"}

Over == pc \in {"over", "told"}
IsCI == plan.mode \in {"full", "quick"}
OfGate(g) == {r \in ran : r.job = "gate" /\ r.index = g}

\* Gate g ran to its end, in time and where it had to.
TrulyPassed(g) ==
  \A k \in 1..plan.gates[g].run :
    \E r \in OfGate(g) :
      /\ r.cmd = k /\ r.truth = "zero" /\ ~r.late
      /\ r.place = IF plan.gates[g].image THEN "container" ELSE "native"

\* A run that returns is green in truth: every command of every runner that
\* the mode does not skip left on zero and every blocking gate passed in its own
\* environment and in time, or was left out because nothing it looks at was
\* known to have changed.
GreenMeansGreen ==
  Over /\ ~red /\ IsCI =>
    /\ \A i \in DOMAIN plan.runners :
         \A k \in DOMAIN plan.runners[i].cmds :
           \/ Skipped(plan.runners[i].cmds[k])
           \/ \E r \in ran : r.job = "runner" /\ r.index = i /\ r.cmd = k
                               /\ r.truth = "zero"
    /\ \A g \in DOMAIN plan.gates :
         plan.gates[g].blocking =>
           \/ TrulyPassed(g)
           \/ plan.gates[g].changed /\ scope.files = {} /\ OfGate(g) = {}

\* A run that reached its gates fails for a blocking gate only, whatever the
\* informative ones did, and the headless answer says so: the exit code tells
\* every failure, ok tells those of the gates.
RedHasACause ==
  /\ Over /\ outcomes # <<>> =>
       (red <=> \E g \in DOMAIN plan.gates :
                  /\ plan.gates[g].blocking /\ ~TrulyPassed(g)
                  /\ OfGate(g) # {} \/ outcomes[g].reason = "refused")
  /\ pc = "told" => /\ (answer.exitCode = 0) <=> ~red
                    /\ ~answer.ok => red
                    /\ outcomes # <<>> => (answer.ok <=> ~red)

\* Every gate is told of exactly once and in order, failures before it or not,
\* and told what it was: a pass is a pass in truth, a failure is an error of a
\* blocking gate and a warning of another, a timeout has its reason and a
\* command that exits 124 by itself has not.
EveryGateReported ==
  /\ \A i \in DOMAIN outcomes :
       LET o == outcomes[i] IN
       /\ o.gate = i
       /\ (o.status = "done") <=> TrulyPassed(i)
       /\ o.status = "error" => plan.gates[i].blocking
       /\ o.status = "warning" => ~plan.gates[i].blocking
       /\ o.status = "skipped" => plan.gates[i].changed /\ OfGate(i) = {}
       /\ (o.reason = "timed-out") <=>
            \E r \in OfGate(i) : r.late /\ r.truth # "unspawned"
  /\ Over /\ IsCI /\ (~red \/ outcomes # <<>>) =>
       Len(outcomes) = Len(plan.gates)

\* Docker and git are asked once for the whole run: all image gates are
\* refused or none, all changed-scope gates are skipped or all see one set.
OneAnswerPerRun ==
  /\ \A i, j \in DOMAIN outcomes :
       /\ plan.gates[i].image /\ plan.gates[j].image =>
            (outcomes[i].reason = "refused" <=> outcomes[j].reason = "refused")
       /\ /\ plan.gates[i].changed /\ plan.gates[j].changed
          /\ "refused" \notin {outcomes[i].reason, outcomes[j].reason}
          => (outcomes[i].status = "skipped" <=> outcomes[j].status = "skipped")
  /\ \A r, s \in ran :
       /\ r.job = "gate" /\ plan.gates[r.index].changed
       /\ s.job = "gate" /\ plan.gates[s.index].changed
       => r.files = s.files /\ r.files # {}

\* However the run ends, a volume of it is left only if Docker kept it.
NoVolumeForgotten == Over => disk \subseteq stuck

\* A child with a timer ends whatever it does with signals, so a gate phase
\* in which every gate has a timeout ends.
TimedWorkEnds ==
  /\ (child.state = "running" /\ child.timed) ~> (child.state = "ended")
  /\ (pc = "gate" /\ \A g \in DOMAIN plan.gates : plan.gates[g].timed) ~> Over

\* What a run has left, outermost part first: its chapters, the runners or gates,
\* the commands of one, and what the child of a command still goes through.
Chapter ==
  CASE pc = "detect" -> 10
    [] pc = "shell" -> 9
    [] pc = "docker" -> 8
    [] pc = "image" -> 7
    [] pc \in {"runner", "step", "step-runs"} -> 6
    [] pc = "cleanup" -> 5
    [] pc = "semgrep" -> 4
    [] pc = "ghagga" -> 3
    [] pc \in {"gate", "scope", "command", "command-runs"} -> 2
    [] pc = "over" -> 1
    [] OTHER -> 0

From(k, n) == IF k <= n THEN n + 1 - k ELSE 0

JobsLeft ==
  CASE Chapter = 6 -> From(at.job, Len(plan.runners))
    [] Chapter = 2 -> From(at.job, Len(plan.gates))
    [] OTHER -> 0

CommandsLeft ==
  CASE pc = "runner" /\ JobsLeft > 0 -> Len(Runner.cmds) + 1
    [] pc \in {"step", "step-runs"} -> From(at.cmd, Len(Runner.cmds))
    [] pc = "gate" /\ JobsLeft > 0 -> Gate.run + 2
    [] pc = "scope" -> Gate.run + 1
    [] pc \in {"command", "command-runs"} -> From(at.cmd, Gate.run)
    [] OTHER -> 0

Patience ==
  CASE child.state = "none" /\ pc \in {"step", "command"} -> 5
    [] child.state = "running" -> 4
    [] child.state = "stopping" -> 3
    [] child.state = "killed" -> 2
    [] child.state = "ended" -> 1
    [] OTHER -> 0

Spends ==
  \/ Chapter' < Chapter
  \/ /\ Chapter' = Chapter
     /\ \/ JobsLeft' < JobsLeft
        \/ /\ JobsLeft' = JobsLeft
           /\ \/ CommandsLeft' < CommandsLeft
              \/ CommandsLeft' = CommandsLeft /\ Patience' < Patience

\* Each step of the engine, of a child and of its timers leaves the run less to
\* do (ci.ts:1272-1371, 1620-1667, 1922-2121): it may wait for a child that has
\* no timer, but it never goes round in circles.
EveryStepSpends == [][Spends]_vars

\* A run never goes round in circles, and its timed work ends.
RunsEnd == EveryStepSpends /\ TimedWorkEnds

\* The documentation of the timeout of a runner step and of the result of a
\* container: a step that ran into its timeout fails the run.
LateStepFails ==
  Over /\ ~red => \A r \in ran : r.job = "runner" => ~r.late

\* The colour of a run is the true one.
AnswerIsTrue == TypeOK /\ GreenMeansGreen /\ RedHasACause

\* The report leaves no gate out and the run leaves no volume behind.
ReportIsWhole == EveryGateReported /\ OneAnswerPerRun /\ NoVolumeForgotten
=============================================================================
