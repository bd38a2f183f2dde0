---------------------------- MODULE CiRunProofs ----------------------------
(***************************************************************************)
(* Proofs about CiRun: the colour of a run is the true one and its report  *)
(* is whole, for any plan: any number of runners, commands and gates.      *)
(***************************************************************************)
EXTENDS CiRun, TLAPS

\* Where the run is: in its runners, after them, in its gates, at its end.
Prologue == {"detect", "shell", "docker", "image"}
InRunners == {"runner", "step", "step-runs"}
Ahead == Prologue \cup InRunners \cup {"cleanup", "semgrep", "ghagga"}
InGates == {"gate", "scope", "command", "command-runs"}
Points == Ahead \cup InGates \cup {"over", "told"}

\* The records of the state, field by field.
States == {"none", "running", "stopping", "killed", "ended"}
Statuses == {"done", "skipped", "warning", "error"}
Reasons == {"none", "refused", "timed-out", "skip", "files"}
Spots == [job : Nat \ {0}, cmd : Nat \ {0}]
Children == [state : States, place : Places, timed : BOOLEAN, late : BOOLEAN,
             truth : Truths \cup {"none"}]
Outcomes == [gate : Nat \ {0}, status : Statuses, code : Nat, reason : Reasons]
Answers == [ok : BOOLEAN, exitCode : {-1, 0, 1}]
Endings == [job : {"runner", "gate"}, index : Nat \ {0}, cmd : Nat \ {0},
            place : Places, truth : Truths, late : BOOLEAN,
            files : SUBSET Files]

\* TypeOK with the records and the history.
Shapes ==
  /\ plan \in Plans /\ pc \in Points
  /\ at \in Spots /\ red \in BOOLEAN /\ child \in Children
  /\ probe \in {"unknown", "up", "down"} /\ scope \in {Unresolved} \cup Scopes
  /\ outcomes \in Seq(Outcomes) /\ failures \subseteq DOMAIN outcomes
  /\ answer \in Answers
  /\ ran \subseteq Endings

\* Where the run is against its child, its plan and its colour.
Stage ==
  /\ pc \in (Ahead \ {"detect", "shell"}) \cup InGates => IsCI
  /\ pc = "shell" => ~IsCI
  /\ red = TRUE => pc \in {"cleanup", "over", "told"}
  /\ pc \in Prologue \cup {"runner", "gate", "scope"} => at.cmd = 1
  /\ pc \in Prologue => at.job = 1
  /\ pc \in {"step", "step-runs"} => at.job <= Len(plan.runners)
  /\ pc = "step-runs" => at.cmd <= Len(Runner.cmds)
  /\ pc \in {"scope", "command", "command-runs"} => at.job <= Len(plan.gates)
  /\ pc \in {"command", "command-runs"} => at.cmd <= Gate.run
\* The run has a child when it waits for one.
Waiting ==
  /\ pc \notin {"step-runs", "command-runs"} => child = NoChild
  /\ pc = "command-runs" =>
       child.place = IF Gate.image THEN "container" ELSE "native"
  /\ child.state = "ended" => child.truth \in Truths
  /\ child.late => child.timed
\* What a container mounts is on the list of what is to be removed.
Volumes ==
  /\ stuck \subseteq disk /\ disk \subseteq volumes
  /\ pc \in {"step", "step-runs"} /\ UsesVolume(Runner) =>
       Runner.directory \in volumes
  /\ pc \notin InRunners \cup {"cleanup"} => disk \subseteq stuck

\* Command k of runner i left on zero or is not for this mode.
Went(i, k) ==
  \/ Skipped(plan.runners[i].cmds[k])
  \/ \E r \in ran : r.job = "runner" /\ r.index = i /\ r.cmd = k
                      /\ r.truth = "zero"
\* The run has passed command k of runner i, and what it passed went well.
Behind(i, k) == i < at.job \/ (i = at.job /\ k < at.cmd)
Runners ==
  \A i \in DOMAIN plan.runners : \A k \in DOMAIN plan.runners[i].cmds :
    \/ pc \in Prologue
    \/ pc \in InRunners /\ ~Behind(i, k)
    \/ pc \in {"cleanup", "over", "told"} /\ red = TRUE
    \/ ~IsCI
    \/ Went(i, k)

\* What a run knows of the daemon and of the base, once it has asked.
Refusing == plan.noDocker \/ probe = "down"
Asked == plan.noDocker \/ probe # "unknown"
Resolved == scope # Unresolved

\* Command k of gate g left on zero, in time and where it had to.
Clean(g, k) ==
  \E r \in OfGate(g) :
    /\ r.cmd = k /\ r.truth = "zero" /\ ~r.late
    /\ r.place = IF plan.gates[g].image THEN "container" ELSE "native"

\* A gate is told what it was.
Told(g, o) ==
  /\ o.gate = g
  /\ (o.status = "done") <=> TrulyPassed(g)
  /\ o.status = "error" => plan.gates[g].blocking
  /\ o.status = "warning" => ~plan.gates[g].blocking
  /\ o.status = "skipped" => /\ plan.gates[g].changed /\ OfGate(g) = {}
                             /\ o.reason # "refused"
  /\ o.status \in {"error", "warning"} =>
       OfGate(g) # {} \/ o.reason = "refused"
  /\ (o.reason = "timed-out") <=>
       \E r \in OfGate(g) : r.late /\ r.truth # "unspawned"
  /\ o.reason = "refused" => plan.gates[g].image
  /\ plan.gates[g].image => Asked /\ (o.reason = "refused" <=> Refusing)
  /\ plan.gates[g].changed /\ o.reason # "refused" =>
       Resolved /\ (o.status = "skipped" <=> scope.files = {})

\* A gate that is closed has been told of, in the order of the plan.
Reports ==
  /\ pc \in Ahead => outcomes = <<>>
  /\ pc \in InGates => Len(outcomes) = at.job - 1
  /\ Len(outcomes) <= Len(plan.gates)
  /\ \A g \in DOMAIN outcomes : Told(g, outcomes[g])
  /\ failures = {g \in DOMAIN outcomes : outcomes[g].status = "error"}
\* The history of the gates reaches as far as the run has come.
History ==
  \A r \in ran : r.job = "gate" =>
    /\ r.index \in DOMAIN plan.gates
    /\ \/ r.index <= Len(outcomes)
       \/ /\ pc \in {"command", "command-runs"} /\ r.index = at.job
          /\ r.cmd < at.cmd /\ r.truth = "zero" /\ r.late = FALSE
    /\ plan.gates[r.index].changed =>
         Resolved /\ r.files = scope.files /\ r.files # {}
\* What is known of the gate that is open.
Open ==
  /\ pc \in {"scope", "command", "command-runs"} /\ Gate.image =>
       Asked /\ ~Refusing
  /\ pc \in {"command", "command-runs"} =>
       /\ Gate.changed => Resolved /\ scope.files # {}
       /\ \A k \in 1..(at.cmd - 1) : Clean(at.job, k)
\* A run that is over is red for a cause, and answers what it found.
Verdict ==
  /\ Over /\ (outcomes # <<>> \/ (red = FALSE /\ IsCI)) =>
       Len(outcomes) = Len(plan.gates) /\ (red = TRUE <=> failures # {})
  /\ pc = "told" => answer = [ok |-> ~BlockingErrored, exitCode |-> ExitStatus]

IInv == /\ Shapes /\ Stage /\ Waiting /\ Volumes /\ Runners
        /\ Reports /\ History /\ Open /\ Verdict
-----------------------------------------------------------------------------

\* What a plan is made of.
LEMMA PlanShape ==
  ASSUME Shapes
  PROVE  /\ Len(plan.runners) \in Nat
         /\ DOMAIN plan.runners = 1..Len(plan.runners)
         /\ \A i \in DOMAIN plan.runners :
              /\ Len(plan.runners[i].cmds) \in Nat
              /\ DOMAIN plan.runners[i].cmds = 1..Len(plan.runners[i].cmds)
         /\ Len(plan.gates) \in Nat /\ DOMAIN plan.gates = 1..Len(plan.gates)
         /\ \A g \in DOMAIN plan.gates : plan.gates[g].run \in Nat \ {0}
         /\ at.job \in Nat \ {0} /\ at.cmd \in Nat \ {0}
         /\ DOMAIN outcomes = 1..Len(outcomes) /\ Len(outcomes) \in Nat
  BY PlansAssumption DEF Shapes, Spots

\* Whatever the plan, a run starts within the invariant.
LEMMA Starts == Init => IInv
  <1> SUFFICES ASSUME Init PROVE IInv
    OBVIOUS
  <1>1. plan \in Plans /\ pc = "detect" /\ at = [job |-> 1, cmd |-> 1]
        /\ red = FALSE /\ child = NoChild /\ probe = "unknown"
        /\ scope = Unresolved /\ volumes = {} /\ disk = {} /\ stuck = {}
        /\ outcomes = <<>> /\ failures = {} /\ answer = NoAnswer /\ ran = {}
    BY DEF Init
  <1>2. Shapes
    <2>1. at \in Spots
      BY <1>1 DEF Spots
    <2>2. child \in Children
      BY <1>1 DEF NoChild, Children, States, Places
    <2>3. answer \in Answers
      BY <1>1 DEF NoAnswer, Answers
    <2>4. pc \in Points
      BY <1>1 DEF Points, Ahead, Prologue
    <2>5. outcomes \in Seq(Outcomes) /\ failures \subseteq DOMAIN outcomes
      BY <1>1
    <2> QED BY <1>1, <2>1, <2>2, <2>3, <2>4, <2>5 DEF Shapes
  <1>3. Len(plan.gates) \in Nat
    BY <1>2, PlanShape
  <1>4. Stage /\ Waiting /\ Volumes /\ Runners
    BY <1>1 DEF Stage, Waiting, Volumes, Runners, Prologue, Ahead, InGates,
                InRunners, NoChild
  <1>5. Reports /\ History /\ Open /\ Verdict
    BY <1>1, <1>3 DEF Reports, History, Open, Verdict, InGates, Over
  <1> QED BY <1>2, <1>4, <1>5 DEF IInv

\* What went well stays so.
LEMMA WentStays ==
  ASSUME plan' = plan, ran \subseteq ran', NEW i, NEW k, Went(i, k)
  PROVE  Went(i, k)'
  BY DEF Went, Skipped

\* The daemon and git are asked once.
Remembered == /\ probe # "unknown" => probe' = probe
              /\ Resolved => scope' = scope

\* What a gate was told stays true.
LEMMA ToldStays ==
  ASSUME plan' = plan, Remembered, NEW g, OfGate(g)' = OfGate(g),
         NEW o, Told(g, o)
  PROVE  Told(g, o)'
  <1>1. TrulyPassed(g)' <=> TrulyPassed(g)
    BY DEF TrulyPassed
  <1>2. Asked => Asked' /\ (Refusing' <=> Refusing)
    BY DEF Remembered, Asked, Refusing
  <1>3. Resolved => Resolved' /\ scope' = scope
    BY DEF Remembered, Resolved
  <1> QED BY <1>1, <1>2, <1>3 DEF Told

\* Steps before the gates: what the gates are told is still to come.
LEMMA AheadStays ==
  ASSUME IInv, pc \in Ahead, UNCHANGED <<plan, outcomes, failures, answer>>,
         \/ pc' \in Ahead
         \/ pc' = "over" /\ (red' = TRUE \/ ~IsCI)
         \/ pc' = "gate" /\ at'.job = 1,
         \A r \in ran' \ ran : r.job = "runner"
  PROVE  Reports' /\ History' /\ Open' /\ Verdict'
  <1>1. outcomes = <<>> /\ failures = {} /\ Len(outcomes) = 0
        /\ Len(plan.gates) \in Nat
    BY PlanShape DEF IInv, Reports
  <1>2. pc' \in Ahead \cup {"over", "gate"} /\ pc' # "told"
        /\ pc' \notin {"scope", "command", "command-runs"}
    BY DEF Ahead, Prologue, InRunners
  <1>3. Reports'
    <2>1. /\ outcomes' = <<>> /\ Len(outcomes') = 0 /\ DOMAIN outcomes' = {}
          /\ failures' = {} /\ plan' = plan
      BY <1>1
    <2>2. pc' \in InGates => at'.job = 1
      BY DEF InGates, Ahead, Prologue, InRunners
    <2> QED BY <1>1, <2>1, <2>2 DEF Reports
  <1>4. ASSUME NEW r \in ran PROVE r.job # "gate"
    <2>1. r.index \in Nat /\ r.index > 0
      BY DEF IInv, Shapes, Endings
    <2>2. pc \notin {"command", "command-runs"}
      BY DEF Ahead, Prologue, InRunners
    <2>3. r.job = "gate" =>
            r.index <= Len(outcomes) \/ pc \in {"command", "command-runs"}
      BY DEF IInv, History
    <2>4. ~(r.index <= Len(outcomes))
      BY <1>1, <2>1
    <2> QED BY <2>2, <2>3, <2>4
  <1>5. \A r \in ran' : r.job # "gate"
    BY <1>4
  <1>7. History' /\ Open'
    BY <1>2, <1>5 DEF History, Open
  <1>6. Verdict'
    BY <1>1, <1>2 DEF Verdict, Over, IsCI, Ahead, Prologue, InRunners
  <1> QED BY <1>3, <1>6, <1>7

\* What the gates before were told stays told.
LEMMA ReportsStay ==
  ASSUME Reports, plan' = plan, Remembered, outcomes' = outcomes,
         failures' = failures,
         \A g \in DOMAIN outcomes : OfGate(g)' = OfGate(g),
         pc' \in Ahead => pc \in Ahead,
         pc' \in InGates => Len(outcomes) = at'.job - 1
  PROVE  Reports'
  <1>1. ASSUME NEW g \in DOMAIN outcomes
        PROVE  Told(g, outcomes[g])'
    <2>1. PICK o : o = outcomes[g]
      OBVIOUS
    <2>2. Told(g, o)
      BY <2>1 DEF Reports
    <2>3. Told(g, o)'
      BY <2>2, ToldStays
    <2> QED BY <2>1, <2>3 DEF Told
  <1> QED BY <1>1 DEF Reports

\* A step that leaves all but the child alone.
LEMMA SameState ==
  ASSUME IInv, Shapes', Waiting',
         UNCHANGED <<plan, pc, at, red, dockerState, gateState, answer, ran>>
  PROVE  IInv'
  <1>1. UNCHANGED <<plan, pc, at, red, volumes, disk, stuck, probe, scope,
                    outcomes, failures, answer, ran>>
    BY DEF dockerState, gateState
  <1>a. /\ Runner' = Runner /\ Gate' = Gate /\ (IsCI' <=> IsCI)
        /\ (Asked' <=> Asked) /\ (Refusing' <=> Refusing)
        /\ (Resolved' <=> Resolved)
        /\ \A g : OfGate(g)' = OfGate(g)
    BY <1>1 DEF IsCI, Runner, Gate, Asked, Refusing, Resolved, OfGate
  <1>2. Stage'
    BY <1>1, <1>a DEF IInv, Stage
  <1>3. Volumes'
    BY <1>1, <1>a DEF IInv, Volumes, UsesVolume
  <1>4. Runners'
    BY <1>1 DEF IInv, Runners, Behind, Went, Skipped, IsCI
  <1>5. Reports'
    BY <1>1, ReportsStay DEF IInv, Reports, Remembered, OfGate
  <1>6. History'
    BY <1>1, <1>a DEF IInv, History
  <1>8. Open'
    <2>1. \A g, k : Clean(g, k) => Clean(g, k)'
      BY <1>1, <1>a DEF Clean
    <2>2. pc \in {"command", "command-runs"} =>
            \A k \in 1..(at.cmd - 1) : Clean(at.job, k)'
      BY <2>1 DEF IInv, Open
    <2> QED BY <1>1, <1>a, <2>2 DEF IInv, Open
  <1>7. Verdict'
    BY <1>1 DEF IInv, Verdict, Over, IsCI, BlockingErrored, ExitStatus
  <1> QED BY <1>2, <1>3, <1>4, <1>5, <1>6, <1>7, <1>8 DEF IInv

\* The child ends, its timer fires, it is killed.
LEMMA ChildKeeps ==
  ASSUME IInv, Child
  PROVE  IInv'
  <1>1. UNCHANGED <<plan, pc, at, red, dockerState, gateState, answer, ran>>
    BY DEF Child, ChildEnds, TimerFires, Escalate
  <1>2. child \in Children /\ child.state # "none" /\ Waiting
    <2>1. child.state \in {"running", "stopping", "killed"}
      BY DEF Child, ChildEnds, TimerFires, Escalate
    <2> QED BY <2>1 DEF IInv, Shapes
  <1>3. pc \in {"step-runs", "command-runs"}
    <2>1. child = NoChild \/ pc \in {"step-runs", "command-runs"}
      BY <1>2 DEF Waiting
    <2>2. NoChild.state = "none"
      BY DEF NoChild
    <2> QED BY <1>2, <2>1, <2>2
  <1>4. child' \in Children /\ child'.place = child.place
        /\ (child'.late => child'.timed)
        /\ (child'.state = "ended" => child'.truth \in Truths)
    <2>1. CASE ChildEnds
      BY <1>2, <2>1 DEF ChildEnds, Children, States, Waiting
    <2>2. CASE TimerFires
      BY <1>2, <2>2 DEF TimerFires, Children, States, Waiting, TimerSet
    <2>3. CASE Escalate
      BY <1>2, <2>3 DEF Escalate, Children, States, Waiting
    <2> QED BY <2>1, <2>2, <2>3 DEF Child
  <1>5. Waiting'
    BY <1>1, <1>2, <1>3, <1>4 DEF Waiting, Gate
  <1>6. Shapes'
    BY <1>1, <1>4 DEF IInv, Shapes, gateState
  <1> QED BY <1>1, <1>5, <1>6, SameState

-----------------------------------------------------------------------------
(* Before the gates.                                                        *)

\* The prologue.
LEMMA PrologueKeeps ==
  ASSUME IInv, Detect \/ Shell \/ CheckDocker \/ BuildImage
  PROVE  IInv'
  <1>1. /\ pc \in Prologue /\ at = [job |-> 1, cmd |-> 1]
        /\ plan.mode \in Modes /\ red = FALSE /\ child = NoChild
    <2>1. pc \in Prologue
      BY DEF Detect, Shell, CheckDocker, BuildImage, Prologue
    <2>2. plan.mode \in Modes
      BY PlansAssumption DEF IInv, Shapes
    <2>3. at = [job |-> 1, cmd |-> 1]
      BY <2>1 DEF IInv, Stage, Shapes, Spots
    <2>4. red = FALSE
      BY <2>1 DEF IInv, Stage, Shapes, Prologue
    <2>5. child = NoChild
      BY <2>1 DEF IInv, Waiting, Prologue
    <2> QED BY <2>1, <2>2, <2>3, <2>4, <2>5
  <1>2. /\ UNCHANGED <<plan, at, child, volumes, disk, stuck, scope, outcomes,
                       failures, answer, ran>>
        /\ probe' \in {probe, "up", "down"}
    BY DEF Detect, Shell, CheckDocker, BuildImage, dockerState, gateState
  <1>3. \/ pc' = "over" /\ red' = TRUE
        \/ pc' = "over" /\ red' = FALSE /\ ~IsCI
        \/ pc' = "gate" /\ red' = FALSE /\ IsCI /\ plan.runners = <<>>
        \/ pc' = "shell" /\ red' = FALSE /\ ~IsCI
        \/ pc' \in {"docker", "image", "runner"} /\ red' = FALSE /\ IsCI
    <2>1. CASE Detect
      BY <1>1, <2>1 DEF Detect, Throw, Goto, IsCI, Modes
    <2>2. CASE Shell
      BY <1>1, <2>2 DEF IInv, Stage, Shell, Throw, Goto
    <2>3. CASE CheckDocker \/ BuildImage
      BY <1>1, <2>3 DEF IInv, Stage, CheckDocker, BuildImage, Throw, Goto,
                        Ahead, Prologue
    <2> QED BY <2>1, <2>2, <2>3
  <1>4. Shapes'
    BY <1>2, <1>3 DEF IInv, Shapes, Points, Ahead, Prologue, InGates, InRunners
  <1>5. Stage'
    BY <1>1, <1>2, <1>3
       DEF Stage, IsCI, Ahead, Prologue, InGates, InRunners
  <1>6. Waiting'
    BY <1>1, <1>2, <1>3 DEF Waiting, NoChild
  <1>7. Volumes'
    BY <1>1, <1>2, <1>3 DEF IInv, Volumes, Prologue, InRunners
  <1>8. Runners'
    <2>1. pc' = "gate" => DOMAIN plan.runners = {}
      BY <1>3
    <2>2. \A i \in DOMAIN plan.runners : \A k \in DOMAIN plan.runners[i].cmds :
            i \in Nat /\ i >= 1 /\ k \in Nat /\ k >= 1
      BY PlanShape DEF IInv
    <2>3. /\ plan' = plan /\ at'.job = 1 /\ at'.cmd = 1 /\ (IsCI' <=> IsCI)
      BY <1>1, <1>2 DEF IsCI
    <2>4. ASSUME NEW i \in DOMAIN plan.runners,
                 NEW k \in DOMAIN plan.runners[i].cmds
          PROVE  \/ pc' \in Prologue
                 \/ pc' \in InRunners /\ ~Behind(i, k)'
                 \/ pc' \in {"cleanup", "over", "told"} /\ red' = TRUE
                 \/ ~IsCI'
      <3>1. CASE pc' = "gate"
        BY <2>1, <3>1
      <3>2. CASE pc' = "runner"
        BY <2>2, <2>3, <3>2 DEF InRunners, Behind
      <3>3. CASE pc' \notin {"gate", "runner"}
        BY <1>3, <2>3, <3>3 DEF Prologue
      <3> QED BY <3>1, <3>2, <3>3
    <2> QED BY <2>3, <2>4 DEF Runners
  <1>9. Reports' /\ History' /\ Open' /\ Verdict'
    <2>1. pc' \in Ahead \/ (pc' = "over" /\ (red' = TRUE \/ ~IsCI))
            \/ (pc' = "gate" /\ at'.job = 1)
      BY <1>1, <1>2, <1>3 DEF Ahead, Prologue, InRunners
    <2> QED BY <1>1, <1>2, <2>1, AheadStays DEF Ahead
  <1> QED BY <1>4, <1>5, <1>6, <1>7, <1>8, <1>9 DEF IInv

\* The commands that are behind the run went well.
LEMMA RunnersStay ==
  ASSUME IInv, plan' = plan, pc \in InRunners, ran \subseteq ran',
         \/ /\ pc' \in InRunners
            /\ \A i \in DOMAIN plan.runners :
                 \A k \in DOMAIN plan.runners[i].cmds :
                   Behind(i, k)' => Behind(i, k) \/ Went(i, k)'
         \/ pc' = "cleanup" /\ red' = TRUE
  PROVE  Runners'
  <1>1. CASE pc' = "cleanup" /\ red' = TRUE
    BY <1>1 DEF Runners
  <1>2. CASE pc' \in InRunners
    <2>1. ASSUME NEW i \in DOMAIN plan.runners,
                 NEW k \in DOMAIN plan.runners[i].cmds
          PROVE  ~Behind(i, k)' \/ ~IsCI' \/ Went(i, k)'
      <3>1. ASSUME Behind(i, k)' PROVE Behind(i, k) \/ Went(i, k)'
        BY <1>2, <3>1 DEF InRunners
      <3>2. Behind(i, k) => ~IsCI \/ Went(i, k)
        BY DEF IInv, Runners, InRunners, Prologue
      <3>3. Went(i, k) => Went(i, k)'
        BY WentStays
      <3>4. IsCI' <=> IsCI
        BY DEF IsCI
      <3> QED BY <3>1, <3>2, <3>3, <3>4
    <2> QED BY <1>2, <2>1 DEF Runners
  <1> QED BY <1>1, <1>2

\* A step of the runners is not red and has no child unless it waits.
LEMMA InRunner ==
  ASSUME IInv, pc \in InRunners
  PROVE  /\ red = FALSE /\ IsCI /\ pc \in Ahead
         /\ pc \in {"runner", "step"} => child = NoChild
  BY DEF IInv, Shapes, Stage, Waiting, InRunners, Ahead

\* The image of a runner is found or built.
LEMMA ResolveImageKeeps ==
  ASSUME IInv, ResolveImage
  PROVE  IInv'
  <1>1. /\ pc = "runner" /\ at.job <= Len(plan.runners) /\ pc \in InRunners
        /\ UNCHANGED <<plan, at, child, disk, stuck, probe, scope, outcomes,
                       failures, answer, ran>>
    BY DEF ResolveImage, gateState, InRunners
  <1>2. /\ volumes \subseteq volumes'
        /\ UsesVolume(Runner) => Runner.directory \in volumes'
    BY DEF ResolveImage
  <1>3. red = FALSE /\ IsCI /\ child = NoChild /\ at.cmd = 1
    BY <1>1, InRunner DEF IInv, Stage
  <1>4. (pc' = "step" /\ red' = FALSE) \/ (pc' = "cleanup" /\ red' = TRUE)
    BY <1>3 DEF ResolveImage, Goto, BreakOff
  <1>5. Shapes'
    BY <1>1, <1>4 DEF IInv, Shapes, Points, Ahead, InRunners
  <1>6. Stage'
    BY <1>1, <1>3, <1>4 DEF Stage, IsCI, Ahead, Prologue, InGates, InRunners
  <1>7. Waiting'
    BY <1>1, <1>3, <1>4 DEF IInv, Waiting
  <1>8. Volumes'
    BY <1>1, <1>2, <1>4 DEF IInv, Volumes, InRunners, UsesVolume, Runner
  <1>9. Runners'
    BY <1>1, <1>4, RunnersStay DEF InRunners, Behind
  <1>10. Reports' /\ History' /\ Open' /\ Verdict'
    BY <1>1, <1>4, AheadStays DEF Ahead, InRunners
  <1> QED BY <1>5, <1>6, <1>7, <1>8, <1>9, <1>10 DEF IInv

\* A command the mode leaves out.
LEMMA SkipStepKeeps ==
  ASSUME IInv, SkipStep
  PROVE  IInv'
  <1>1. /\ pc = "step" /\ pc \in InRunners /\ Skipped(Phase)
        /\ UNCHANGED <<plan, pc, red, child, volumes, disk, stuck, probe, scope,
                       outcomes, failures, answer, ran>>
    BY DEF SkipStep, dockerState, gateState, InRunners
  <1>2. /\ at \in Spots /\ at' \in Spots /\ at'.job = at.job
        /\ at'.cmd = at.cmd + 1
    BY DEF IInv, Shapes, Spots, SkipStep, NextCommand
  <1>3. red = FALSE /\ IsCI /\ child = NoChild
    BY <1>1, InRunner
  <1>4. Shapes'
    BY <1>1, <1>2 DEF IInv, Shapes
  <1>5. Stage'
    BY <1>1, <1>2, <1>3
       DEF IInv, Stage, IsCI, Ahead, Prologue, InGates, InRunners
  <1>6. Waiting'
    BY <1>1, <1>3 DEF IInv, Waiting
  <1>7. Volumes'
    BY <1>1, <1>2 DEF IInv, Volumes, InRunners, UsesVolume, Runner
  <1>8. Runners'
    <2>1. ASSUME NEW i \in DOMAIN plan.runners,
                 NEW k \in DOMAIN plan.runners[i].cmds, Behind(i, k)'
          PROVE  Behind(i, k) \/ Went(i, k)'
      <3>1. k \in Nat
        BY PlanShape DEF IInv
      <3>2. CASE i = at.job /\ k = at.cmd
        BY <1>1, <3>2 DEF Went, Skipped, Phase, Runner
      <3>3. CASE ~(i = at.job /\ k = at.cmd)
        BY <1>2, <2>1, <3>1, <3>3 DEF Behind, Spots
      <3> QED BY <3>2, <3>3
    <2> QED BY <1>1, <2>1, RunnersStay
  <1>9. Reports' /\ History' /\ Open' /\ Verdict'
    BY <1>1, AheadStays DEF Ahead, InRunners
  <1> QED BY <1>4, <1>5, <1>6, <1>7, <1>8, <1>9 DEF IInv

\* A child that was just started.
LEMMA Spawned ==
  ASSUME NEW place \in Places, NEW timed \in BOOLEAN, Spawn(place, timed)
  PROVE  /\ child' \in Children /\ child'.state = "running"
         /\ child'.late = FALSE /\ child'.place = place
  BY DEF Spawn, Children, States

\* A command starts.
LEMMA StartStepKeeps ==
  ASSUME IInv, StartStep
  PROVE  IInv'
  <1>1. /\ pc = "step" /\ pc \in InRunners /\ at.cmd <= Len(Runner.cmds)
        /\ pc' = "step-runs" /\ red' = red
        /\ UNCHANGED <<plan, at, volumes, stuck, probe, scope, outcomes,
                       failures, answer, ran>>
    BY DEF StartStep, gateState, InRunners, Goto
  <1>2. child' \in Children /\ child'.state = "running" /\ child'.late = FALSE
    BY Spawned DEF StartStep, Places
  <1>3. /\ disk \subseteq disk'
        /\ disk' \subseteq disk \cup
             {d \in {Runner.directory} : UsesVolume(Runner)}
    BY DEF StartStep
  <1>4. red = FALSE /\ IsCI
    BY <1>1, InRunner
  <1>5. Shapes'
    BY <1>1, <1>2 DEF IInv, Shapes, Points, Ahead, InRunners
  <1>6. Stage'
    BY <1>1, <1>4
       DEF IInv, Stage, IsCI, Ahead, Prologue, InGates, InRunners, Runner
  <1>7. Waiting'
    BY <1>1, <1>2 DEF IInv, Waiting
  <1>8. Volumes'
    BY <1>1, <1>3 DEF IInv, Volumes, InRunners, UsesVolume, Runner
  <1>9. Runners'
    BY <1>1, RunnersStay DEF InRunners, Behind
  <1>10. Reports' /\ History' /\ Open' /\ Verdict'
    BY <1>1, AheadStays DEF Ahead, InRunners
  <1> QED BY <1>5, <1>6, <1>7, <1>8, <1>9, <1>10 DEF IInv

\* What a child that ended leaves in the history.
LEMMA EndingShape ==
  ASSUME IInv, child.state = "ended", NEW job \in {"runner", "gate"},
         NEW files \in SUBSET Files, Remember(job, files)
  PROVE  ran' \subseteq Endings
  <1>1. child.place \in Places /\ child.truth \in Truths
        /\ child.late \in BOOLEAN
    BY DEF IInv, Shapes, Children, Waiting
  <1>2. at.job \in Nat \ {0} /\ at.cmd \in Nat \ {0} /\ ran \subseteq Endings
    BY DEF IInv, Shapes, Spots
  <1>3. [job |-> job, index |-> at.job, cmd |-> at.cmd, place |-> child.place,
         truth |-> child.truth, late |-> child.late, files |-> files]
          \in Endings
    BY <1>1, <1>2 DEF Endings
  <1> QED BY <1>2, <1>3 DEF Remember

\* A command of a runner ends.
LEMMA EndStepKeeps ==
  ASSUME IInv, EndStep
  PROVE  IInv'
  <1>1. /\ pc = "step-runs" /\ pc \in InRunners /\ child.state = "ended"
        /\ child' = NoChild
        /\ UNCHANGED <<plan, volumes, disk, stuck, probe, scope, outcomes,
                       failures, answer>>
    BY DEF EndStep, dockerState, gateState, InRunners
  <1>2. ran \subseteq ran' /\ (\A r \in ran' \ ran : r.job = "runner")
    <2>1. Remember("runner", {})
      BY DEF EndStep
    <2> QED BY <2>1 DEF Remember
  <1>3. ran' \subseteq Endings
    <2>1. Remember("runner", {})
      BY DEF EndStep
    <2> QED BY <1>1, <2>1, EndingShape
  <1>4. red = FALSE /\ IsCI /\ at \in Spots /\ at.job <= Len(plan.runners)
    BY <1>1, InRunner DEF IInv, Shapes, Stage
  <1>5. \/ /\ pc' = "step" /\ red' = FALSE /\ child.truth = "zero"
           /\ at' \in Spots /\ at'.job = at.job /\ at'.cmd = at.cmd + 1
        \/ pc' = "cleanup" /\ red' = TRUE /\ at' = at
    <2>1. CASE StepPassed
      <3>1. pc' = "step" /\ red' = red /\ at' = [at EXCEPT !.cmd = @ + 1]
        BY <2>1 DEF EndStep, NextCommand, Goto
      <3> QED BY <1>4, <2>1, <3>1 DEF StepPassed, Spots
    <2>2. CASE ~StepPassed
      BY <2>2 DEF EndStep, BreakOff
    <2> QED BY <2>1, <2>2
  <1>6. Shapes'
    <2>1. NoChild \in Children
      BY DEF NoChild, Children, States, Places
    <2>2. pc' \in Points /\ red' \in BOOLEAN /\ at' \in Spots
      BY <1>4, <1>5 DEF Points, Ahead, InRunners
    <2> QED BY <1>1, <1>3, <2>1, <2>2 DEF IInv, Shapes
  <1>7. Stage'
    BY <1>1, <1>4, <1>5
       DEF Stage, IsCI, Ahead, Prologue, InGates, InRunners
  <1>8. Waiting'
    <2>1. pc' \notin {"step-runs", "command-runs"}
      BY <1>5
    <2>2. NoChild.state = "none" /\ NoChild.late = FALSE
      BY DEF NoChild
    <2> QED BY <1>1, <2>1, <2>2 DEF Waiting
  <1>9. Volumes'
    BY <1>1, <1>5 DEF IInv, Volumes, InRunners, UsesVolume, Runner
  <1>10. Runners'
    <2>1. ASSUME pc' = "step", NEW i \in DOMAIN plan.runners,
                 NEW k \in DOMAIN plan.runners[i].cmds, Behind(i, k)'
          PROVE  Behind(i, k) \/ Went(i, k)'
      <3>1. k \in Nat
        BY PlanShape DEF IInv
      <3>2. CASE i = at.job /\ k = at.cmd
        <4> DEFINE r == [job |-> "runner", index |-> at.job, cmd |-> at.cmd,
                         place |-> child.place, truth |-> child.truth,
                         late |-> child.late, files |-> {}]
        <4>1. r \in ran' /\ child.truth = "zero"
          BY <1>5, <2>1 DEF EndStep, Remember
        <4>2. r.job = "runner" /\ r.index = i /\ r.cmd = k /\ r.truth = "zero"
          BY <3>2, <4>1
        <4> HIDE DEF r
        <4> QED BY <4>1, <4>2 DEF Went
      <3>3. CASE ~(i = at.job /\ k = at.cmd)
        BY <1>4, <1>5, <2>1, <3>1, <3>3 DEF Behind, Spots
      <3> QED BY <3>2, <3>3
    <2> QED BY <1>1, <1>2, <1>5, <2>1, RunnersStay DEF InRunners
  <1>11. Reports' /\ History' /\ Open' /\ Verdict'
    BY <1>1, <1>2, <1>5, AheadStays DEF Ahead, InRunners
  <1> QED BY <1>6, <1>7, <1>8, <1>9, <1>10, <1>11 DEF IInv

\* The commands or the runners are done.
LEMMA NextRunnerKeeps ==
  ASSUME IInv, NextRunner \/ RunnersDone
  PROVE  IInv'
  <1>1. /\ UNCHANGED <<plan, red, child, volumes, disk, stuck, probe, scope,
                       outcomes, failures, answer, ran>>
        /\ pc \in {"runner", "step"} /\ pc \in InRunners
    BY DEF NextRunner, RunnersDone, dockerState, gateState, InRunners, Goto
  <1>2. red = FALSE /\ IsCI /\ child = NoChild /\ at \in Spots
    BY <1>1, InRunner DEF IInv, Shapes
  <1>3. \/ /\ pc' = "runner" /\ pc = "step" /\ at.cmd > Len(Runner.cmds)
           /\ at' \in Spots /\ at'.job = at.job + 1 /\ at'.cmd = 1
        \/ pc' = "cleanup" /\ at' = at /\ at.job > Len(plan.runners)
    BY <1>2 DEF NextRunner, RunnersDone, Goto, Begin, Spots
  <1>4. Shapes'
    BY <1>1, <1>2, <1>3 DEF IInv, Shapes, Points, Ahead, InRunners
  <1>5. Stage'
    BY <1>1, <1>2, <1>3
       DEF Stage, IsCI, Ahead, Prologue, InGates, InRunners
  <1>6. Waiting'
    BY <1>1, <1>2, <1>3 DEF IInv, Waiting
  <1>7. Volumes'
    BY <1>1, <1>3 DEF IInv, Volumes, InRunners
  <1>8. Runners'
    <2>1. ASSUME NEW i \in DOMAIN plan.runners,
                 NEW k \in DOMAIN plan.runners[i].cmds
          PROVE  /\ i \in 1..Len(plan.runners) /\ Len(plan.runners) \in Nat
                 /\ k \in 1..Len(plan.runners[i].cmds)
                 /\ Len(plan.runners[i].cmds) \in Nat
      BY PlanShape DEF IInv
    <2>2. ASSUME pc' = "runner", NEW i \in DOMAIN plan.runners,
                 NEW k \in DOMAIN plan.runners[i].cmds, Behind(i, k)'
          PROVE  Behind(i, k)
      <3>1. CASE i = at.job
        BY <1>2, <1>3, <2>1, <2>2, <3>1 DEF Behind, Spots, Runner
      <3>2. CASE i # at.job
        BY <1>2, <1>3, <2>1, <2>2, <3>2 DEF Behind, Spots
      <3> QED BY <3>1, <3>2
    <2>3. CASE pc' = "runner"
      BY <1>1, <2>2, <2>3, RunnersStay DEF InRunners
    <2>4. CASE pc' = "cleanup"
      <3>1. ASSUME NEW i \in DOMAIN plan.runners,
                   NEW k \in DOMAIN plan.runners[i].cmds
            PROVE  Went(i, k)'
        <4>1. Behind(i, k)
          BY <1>2, <1>3, <2>1, <2>4 DEF Behind, Spots
        <4>2. Went(i, k)
          BY <1>1, <1>2, <4>1 DEF IInv, Runners, InRunners, Prologue
        <4> QED BY <1>1, <4>2, WentStays
      <3> QED BY <1>1, <3>1 DEF Runners
    <2> QED BY <1>3, <2>3, <2>4
  <1>9. Reports' /\ History' /\ Open' /\ Verdict'
    BY <1>1, <1>3, AheadStays DEF Ahead, InRunners
  <1> QED BY <1>4, <1>5, <1>6, <1>7, <1>8, <1>9 DEF IInv

\* What was passed by all runners is passed where the run goes on from there.
LEMMA RunnersPassed ==
  ASSUME IInv, plan' = plan, ran \subseteq ran', pc \notin Prologue,
         pc \notin InRunners, pc' \notin Prologue, pc' \notin InRunners,
         red = TRUE => red' = TRUE /\ pc' \in {"cleanup", "over", "told"}
  PROVE  Runners'
  <1>1. ASSUME NEW i \in DOMAIN plan.runners,
               NEW k \in DOMAIN plan.runners[i].cmds
        PROVE  \/ pc' \in {"cleanup", "over", "told"} /\ red' = TRUE
               \/ ~IsCI' \/ Went(i, k)'
    <2>1. red = TRUE \/ ~IsCI \/ Went(i, k)
      BY DEF IInv, Runners
    <2>2. Went(i, k) => Went(i, k)'
      BY WentStays
    <2> QED BY <2>1, <2>2 DEF IsCI
  <1> QED BY <1>1 DEF Runners

\* The finally clause, and the scans after it.
LEMMA CleanUpKeeps ==
  ASSUME IInv, RemoveVolumes \/ Semgrep \/ Ghagga
  PROVE  IInv'
  <1>1. /\ pc \in {"cleanup", "semgrep", "ghagga"}
        /\ UNCHANGED <<plan, child, volumes, probe, scope, outcomes, failures,
                       answer, ran>>
        /\ pc # "cleanup" => UNCHANGED <<disk, stuck>>
    BY DEF RemoveVolumes, Semgrep, Ghagga, dockerState, gateState
  <1>2. /\ at \in Spots /\ child = NoChild /\ red \in BOOLEAN /\ IsCI
        /\ pc # "cleanup" => red = FALSE
    BY <1>1 DEF IInv, Shapes, Waiting, Stage, Ahead
  <1>3. \/ pc' = "over" /\ red' = TRUE /\ at' = at
        \/ pc' \in {"semgrep", "ghagga"} /\ red' = FALSE /\ red = FALSE
             /\ at' = at
        \/ pc' = "gate" /\ red' = FALSE /\ red = FALSE /\ at' \in Spots
             /\ at'.job = 1 /\ at'.cmd = 1
    <2>1. CASE RemoveVolumes
      BY <1>2, <2>1 DEF RemoveVolumes, Goto
    <2>2. CASE Semgrep
      BY <1>2, <2>2 DEF Semgrep, Goto, Throw
    <2>3. CASE Ghagga
      BY <1>2, <2>3 DEF Ghagga, Goto, Throw, Begin, Spots
    <2> QED BY <2>1, <2>2, <2>3
  <1>4. Shapes'
    <2>1. pc' \in Points /\ red' \in BOOLEAN /\ at' \in Spots
      BY <1>2, <1>3 DEF Points, Ahead, InGates
    <2> QED BY <1>1, <2>1 DEF IInv, Shapes
  <1>5. Stage'
    BY <1>1, <1>2, <1>3
       DEF Stage, IsCI, Ahead, Prologue, InGates, InRunners
  <1>6. Waiting'
    BY <1>1, <1>2, <1>3 DEF IInv, Waiting
  <1>7. Volumes'
    <2>1. stuck' \subseteq disk' /\ disk' \subseteq stuck'
          /\ disk' \subseteq volumes
      <3>1. CASE RemoveVolumes
        BY <3>1 DEF IInv, Volumes, RemoveVolumes
      <3>2. CASE Semgrep \/ Ghagga
        BY <1>1, <3>2 DEF IInv, Volumes, Semgrep, Ghagga, InRunners
      <3> QED BY <3>1, <3>2
    <2> QED BY <1>1, <1>3, <2>1 DEF Volumes
  <1>8. Runners'
    BY <1>1, <1>2, <1>3, RunnersPassed DEF Prologue, InRunners
  <1>9. Reports' /\ History' /\ Open' /\ Verdict'
    BY <1>1, <1>3, AheadStays DEF Ahead
  <1> QED BY <1>4, <1>5, <1>6, <1>7, <1>8, <1>9 DEF IInv

-----------------------------------------------------------------------------
(* The gates.                                                               *)

\* A run in its gates is not red, and has a child only if it waits.
LEMMA InGate ==
  ASSUME IInv, pc \in InGates
  PROVE  /\ red = FALSE /\ IsCI /\ pc \notin Ahead /\ pc # "over"
         /\ pc # "told" /\ Len(outcomes) = at.job - 1
         /\ pc \in {"gate", "scope", "command"} => child = NoChild
         /\ pc \in {"gate", "scope"} => at.cmd = 1
  BY DEF IInv, Shapes, Stage, Waiting, Reports, Ahead, InRunners, Prologue,
         InGates

\* Nothing of the gate that is open has run before its commands.
LEMMA NothingRan ==
  ASSUME IInv, pc \in {"gate", "scope"}
  PROVE  OfGate(at.job) = {}
  <1>1. Len(outcomes) = at.job - 1 /\ at.job \in Nat
    BY InGate DEF InGates, IInv, Shapes, Spots
  <1>2. ASSUME NEW r \in OfGate(at.job) PROVE FALSE
    <2>1. r \in ran /\ r.job = "gate" /\ r.index = at.job
      BY DEF OfGate
    <2>2. r.index <= Len(outcomes)
      BY <2>1 DEF IInv, History
    <2> QED BY <1>1, <2>1, <2>2
  <1> QED BY <1>2

\* What a step within one gate leaves as it was.
LEMMA SameGate ==
  ASSUME IInv, pc \in InGates, pc' \in InGates, at'.job = at.job, Remembered,
         ran \subseteq ran',
         \A r \in ran' \ ran : r.job = "gate" /\ r.index = at.job,
         UNCHANGED <<plan, red, volumes, disk, stuck, outcomes, failures>>
  PROVE  Volumes' /\ Runners' /\ Reports' /\ Verdict'
  <1>1. red = FALSE /\ Len(outcomes) = at.job - 1 /\ pc \notin Ahead
        /\ at.job \in Nat
    BY InGate DEF IInv, Shapes, Spots
  <1>2. /\ pc \notin Prologue \cup InRunners \cup {"cleanup", "over", "told"}
        /\ pc' \notin Ahead \cup Prologue \cup InRunners
        /\ pc' \notin {"cleanup", "over", "told"}
    BY DEF InGates, Prologue, InRunners, Ahead
  <1>3. Volumes'
    BY <1>2 DEF IInv, Volumes, InRunners
  <1>4. Runners'
    BY <1>1, <1>2, RunnersPassed
  <1>5. \A g \in DOMAIN outcomes : OfGate(g)' = OfGate(g)
    <2>1. DOMAIN outcomes = 1..Len(outcomes)
      BY PlanShape DEF IInv
    <2> QED BY <1>1, <2>1 DEF OfGate
  <1>6. Reports'
    BY <1>1, <1>2, <1>5, ReportsStay DEF IInv
  <1>7. Verdict'
    BY <1>2 DEF Verdict, Over
  <1> QED BY <1>3, <1>4, <1>6, <1>7

\* A gate is told of, and the next one is opened.
LEMMA EmitKeeps ==
  ASSUME IInv, pc \in InGates, at.job <= Len(plan.gates),
         NEW status \in Statuses, NEW code \in Nat, NEW reason \in Reasons,
         Emit(status, code, reason), Remembered, child' = NoChild,
         probe' \in {"unknown", "up", "down"},
         scope' \in {Unresolved} \cup Scopes,
         UNCHANGED <<plan, volumes, disk, stuck, answer>>,
         ran \subseteq ran', ran' \subseteq Endings,
         \A r \in ran' \ ran : r.job = "gate" /\ r.index = at.job,
         Gate.changed => \A r \in ran' \ ran :
                           Resolved' /\ r.files = scope'.files /\ r.files # {},
         NEW o, o = [gate |-> at.job, status |-> status, code |-> code,
                     reason |-> reason],
         NEW g0, g0 = at.job, Told(g0, o)'
  PROVE  IInv'
  <1>1. /\ red = FALSE /\ IsCI /\ Len(outcomes) = at.job - 1
        /\ outcomes \in Seq(Outcomes) /\ at.job \in Nat \ {0}
        /\ failures = {g \in DOMAIN outcomes : outcomes[g].status = "error"}
        /\ Len(plan.gates) \in Nat /\ DOMAIN plan.gates = 1..Len(plan.gates)
        /\ at \in Spots
    BY InGate, PlanShape DEF IInv, Shapes, Reports, Spots
  <1>2. o \in Outcomes /\ o.status = status
    BY <1>1 DEF Outcomes
  <1>3. /\ outcomes' = Append(outcomes, o)
        /\ failures' = IF status = "error" THEN failures \cup {at.job}
                                           ELSE failures
        /\ at' = [job |-> at.job + 1, cmd |-> 1]
        /\ pc' = "gate" /\ red' = FALSE
    BY <1>1 DEF Emit, Begin, Goto, Spots
  <1>4. /\ outcomes' \in Seq(Outcomes) /\ Len(outcomes') = at.job
        /\ outcomes'[at.job] = o /\ DOMAIN outcomes' = 1..at.job
        /\ \A g \in DOMAIN outcomes :
             g \in 1..(at.job - 1) /\ outcomes'[g] = outcomes[g]
        /\ DOMAIN outcomes = 1..(at.job - 1)
    <2>1. DOMAIN outcomes = 1..(at.job - 1)
      BY <1>1
    <2>2. outcomes' \in Seq(Outcomes) /\ Len(outcomes') = at.job
      BY <1>1, <1>2, <1>3
    <2>3. outcomes'[at.job] = o /\ DOMAIN outcomes' = 1..at.job
      BY <1>1, <1>2, <1>3, <2>2
    <2>4. \A g \in 1..(at.job - 1) : outcomes'[g] = outcomes[g]
      BY <1>1, <1>2, <1>3
    <2> QED BY <2>1, <2>2, <2>3, <2>4
  <1>5. at' \in Spots /\ at'.job = at.job + 1 /\ at'.cmd = 1
    BY <1>1, <1>3 DEF Spots
  <1>6. failures' = {g \in DOMAIN outcomes' : outcomes'[g].status = "error"}
    BY <1>1, <1>2, <1>3, <1>4
  <1>7. Shapes'
    <2>1. NoChild \in Children
      BY DEF NoChild, Children, States, Places
    <2>2. pc' \in Points /\ red' \in BOOLEAN
      BY <1>3 DEF Points, InGates
    <2>3. failures' \subseteq DOMAIN outcomes'
      BY <1>6
    <2> QED BY <1>4, <1>5, <2>1, <2>2, <2>3 DEF IInv, Shapes
  <1>8. Stage'
    BY <1>1, <1>3, <1>5 DEF Stage, IsCI, Ahead, Prologue, InRunners, InGates
  <1>9. Waiting'
    <2>1. NoChild.state = "none" /\ NoChild.late = FALSE
      BY DEF NoChild
    <2> QED BY <1>3, <2>1 DEF Waiting
  <1>10. pc \notin Prologue \cup InRunners \cup Ahead \cup {"cleanup"}
         /\ pc' \notin Prologue \cup InRunners \cup Ahead \cup {"cleanup"}
    BY <1>3 DEF InGates, Prologue, InRunners, Ahead
  <1>11. Volumes'
    BY <1>10 DEF IInv, Volumes, InRunners
  <1>12. Runners'
    BY <1>1, <1>3, <1>10, RunnersPassed
  <1>13. Reports'
    <2>1. ASSUME NEW g \in DOMAIN outcomes PROVE Told(g, outcomes[g])'
      <3>1. PICK x : x = outcomes[g]
        OBVIOUS
      <3>2. OfGate(g)' = OfGate(g)
        BY <1>1, <1>4 DEF OfGate
      <3>3. Told(g, x)'
        BY <3>1, <3>2, ToldStays DEF IInv, Reports
      <3>4. x = outcomes'[g]
        BY <1>4, <3>1
      <3> QED BY <3>3, <3>4 DEF Told
    <2>3. ASSUME NEW g \in DOMAIN outcomes', g = at.job
          PROVE  Told(g, outcomes[g])'
      <3>1. outcomes'[g] = o /\ g = g0
        BY <1>4, <2>3
      <3> QED BY <3>1 DEF Told
    <2>4. \A g \in DOMAIN outcomes' : g = at.job \/ g \in DOMAIN outcomes
      BY <1>1, <1>4
    <2>5. \A g \in DOMAIN outcomes' : Told(g, outcomes[g])'
      BY <2>1, <2>3, <2>4
    <2>6. Len(outcomes') = at'.job - 1 /\ Len(outcomes') <= Len(plan'.gates)
      BY <1>1, <1>4, <1>5
    <2> QED BY <1>6, <1>10, <2>5, <2>6 DEF Reports
  <1>14. History'
    <2>1. ASSUME NEW r \in ran', r.job = "gate"
          PROVE  /\ r.index \in DOMAIN plan.gates /\ r.index <= at.job
                 /\ plan.gates[r.index].changed =>
                      Resolved' /\ r.files = scope'.files /\ r.files # {}
      <3>1. CASE r \in ran
        <4>1. /\ r.index \in DOMAIN plan.gates /\ r.index <= at.job
              /\ plan.gates[r.index].changed =>
                   Resolved /\ r.files = scope.files /\ r.files # {}
          <5>1. r.index \in Nat
            BY <3>1 DEF IInv, Shapes, Endings
          <5>2. /\ r.index \in DOMAIN plan.gates
                /\ r.index <= Len(outcomes) \/ r.index = at.job
                /\ plan.gates[r.index].changed =>
                     Resolved /\ r.files = scope.files /\ r.files # {}
            BY <2>1, <3>1 DEF IInv, History
          <5> QED BY <1>1, <5>1, <5>2
        <4> QED BY <4>1 DEF Remembered, Resolved
      <3>2. CASE r \notin ran
        BY <1>1, <2>1, <3>2 DEF Gate
      <3> QED BY <3>1, <3>2
    <2> QED BY <1>4, <2>1 DEF History
  <1>15. Open' /\ Verdict'
    BY <1>3 DEF Open, Verdict, Over
  <1> QED BY <1>7, <1>8, <1>9, <1>11, <1>12, <1>13, <1>14, <1>15 DEF IInv

\* The history of the gates when no command ended.
LEMMA HistoryStays ==
  ASSUME IInv, ran' = ran, plan' = plan, Remembered, outcomes' = outcomes,
         at' = at, pc \in {"command", "command-runs"} =>
                     pc' \in {"command", "command-runs"}
  PROVE  History'
  <1>1. ASSUME NEW r \in ran, r.job = "gate"
        PROVE  plan.gates[r.index].changed =>
                 Resolved' /\ r.files = scope'.files /\ r.files # {}
    BY <1>1 DEF IInv, History, Remembered, Resolved
  <1> QED BY <1>1 DEF IInv, History

\* A gate is opened.
LEMMA OpenGateKeeps ==
  ASSUME IInv, OpenImageGate \/ OpenNativeGate
  PROVE  IInv'
  <1>1. /\ pc = "gate" /\ pc \in InGates /\ at.job <= Len(plan.gates)
        /\ UNCHANGED <<plan, child, volumes, disk, stuck, scope, answer, ran>>
    BY DEF OpenImageGate, OpenNativeGate, dockerState, gateState, InGates
  <1>2. /\ red = FALSE /\ IsCI /\ child = NoChild /\ at.cmd = 1
        /\ OfGate(at.job) = {} /\ Shapes
    BY <1>1, InGate, NothingRan DEF IInv
  <1>3. CASE /\ UNCHANGED <<at, outcomes, failures>> /\ Goto("scope")
             /\ probe' \in {probe, "up", "down"} /\ Remembered
             /\ Gate.image => Asked' /\ ~Refusing'
    <2>1. pc' = "scope" /\ pc' \in InGates /\ red' = FALSE
      BY <1>2, <1>3 DEF Goto, InGates
    <2>2. Volumes' /\ Runners' /\ Reports' /\ Verdict'
      BY <1>1, <1>2, <1>3, <2>1, SameGate
    <2>3. Shapes'
      BY <1>1, <1>2, <1>3, <2>1 DEF Shapes, Points
    <2>4. Stage'
      BY <1>1, <1>2, <1>3, <2>1
         DEF Stage, IsCI, Ahead, Prologue, InRunners, InGates
    <2>5. Waiting'
      BY <1>1, <1>2, <2>1 DEF IInv, Waiting
    <2>6. History'
      BY <1>1, <1>3, HistoryStays
    <2>7. Open'
      BY <1>1, <1>3, <2>1 DEF Open, Gate
    <2> QED BY <2>2, <2>3, <2>4, <2>5, <2>6, <2>7 DEF IInv
  <1>4. CASE OpenNativeGate
    <2>1. UNCHANGED <<probe, outcomes, failures, at>> /\ ~Gate.image
          /\ Goto("scope")
      BY <1>4 DEF OpenNativeGate, gateState
    <2> QED BY <1>1, <1>3, <2>1 DEF Remembered
  <1>5. CASE OpenImageGate
    <2>1. PICK up \in IF plan.noDocker THEN {FALSE} ELSE Probes :
            /\ probe' = IF plan.noDocker THEN probe
                                         ELSE IF up THEN "up" ELSE "down"
            /\ IF Refuses(up)
               THEN Emit(FailedStatus, 0, "refused")
               ELSE Goto("scope") /\ UNCHANGED <<at, outcomes, failures>>
      BY <1>5 DEF OpenImageGate
    <2>2. /\ probe' \in {probe, "up", "down"}
          /\ probe' \in {"unknown", "up", "down"}
          /\ probe # "unknown" => probe' = probe
      BY <1>2, <2>1 DEF Probes, Shapes
    <2>3. Gate.image /\ Asked' /\ (Refusing' <=> Refuses(up)) /\ Remembered
      BY <1>1, <1>5, <2>1, <2>2
         DEF OpenImageGate, Asked, Refusing, Refuses, Remembered
    <2>4. CASE ~Refuses(up)
      BY <1>3, <2>1, <2>2, <2>3, <2>4
    <2>5. CASE Refuses(up)
      <3>1. Emit(FailedStatus, 0, "refused") /\ FailedStatus \in Statuses
        BY <2>1, <2>5 DEF FailedStatus, Statuses
      <3>2. PICK o : o = [gate |-> at.job, status |-> FailedStatus, code |-> 0,
                          reason |-> "refused"]
        OBVIOUS
      <3>3. PICK g : g = at.job
        OBVIOUS
      <3>4. Told(g, o)'
        <4>1. OfGate(g)' = {} /\ plan.gates[g].run \in Nat \ {0}
          BY <1>1, <1>2, <3>3, PlanShape DEF OfGate
        <4>2. ~TrulyPassed(g)'
          BY <1>1, <4>1 DEF TrulyPassed
        <4>3. plan.gates[g].image /\ Refusing'
          BY <2>3, <2>5, <3>3 DEF Gate
        <4>4. /\ o.gate = g /\ o.reason = "refused" /\ o.status = FailedStatus
          BY <3>2, <3>3
        <4>5. /\ o.status = "error" => plan.gates[g].blocking
              /\ o.status = "warning" => ~plan.gates[g].blocking
              /\ o.status \in {"error", "warning"}
          BY <3>3, <4>4 DEF FailedStatus, Gate
        <4> QED BY <1>1, <2>3, <4>1, <4>2, <4>3, <4>4, <4>5 DEF Told
      <3>5. "refused" \in Reasons /\ 0 \in Nat
        BY DEF Reasons
      <3>6. ran' \subseteq Endings /\ scope' \in {Unresolved} \cup Scopes
        BY <1>1, <1>2 DEF Shapes
      <3> QED BY <1>1, <1>2, <2>2, <2>3, <3>1, <3>2, <3>3, <3>4, <3>5, <3>6,
                 EmitKeeps
    <2> QED BY <2>4, <2>5
  <1> QED BY <1>4, <1>5

\* The open gate asks what has changed.
LEMMA ScopeGateKeeps ==
  ASSUME IInv, ScopeGate
  PROVE  IInv'
  <1>1. /\ pc = "scope" /\ pc \in InGates
        /\ UNCHANGED <<plan, child, volumes, disk, stuck, probe, answer, ran>>
    BY DEF ScopeGate, dockerState, InGates
  <1>2. /\ red = FALSE /\ IsCI /\ child = NoChild /\ at.cmd = 1
        /\ OfGate(at.job) = {} /\ Shapes /\ at.job <= Len(plan.gates)
        /\ plan.gates[at.job].run \in Nat \ {0}
        /\ Gate.image => Asked /\ ~Refusing
    <2>1. at.job \in DOMAIN plan.gates
      BY <1>1, PlanShape DEF IInv, Stage
    <2> QED BY <1>1, <2>1, InGate, NothingRan, PlanShape
            DEF IInv, Stage, Open
  <1>3. CASE /\ UNCHANGED <<at, outcomes, failures>> /\ Goto("command")
             /\ scope' \in {Unresolved} \cup Scopes /\ Remembered
             /\ Gate.changed => Resolved' /\ scope'.files # {}
    <2>1. pc' = "command" /\ pc' \in InGates /\ red' = FALSE
      BY <1>2, <1>3 DEF Goto, InGates
    <2>2. Volumes' /\ Runners' /\ Reports' /\ Verdict'
      BY <1>1, <1>2, <1>3, <2>1, SameGate
    <2>3. Shapes'
      BY <1>1, <1>2, <1>3, <2>1 DEF Shapes, Points
    <2>4. Stage'
      BY <1>1, <1>2, <1>3, <2>1
         DEF Stage, IsCI, Ahead, Prologue, InRunners, InGates, Gate
    <2>5. Waiting'
      BY <1>1, <1>2, <2>1 DEF IInv, Waiting
    <2>6. History'
      BY <1>1, <1>3, HistoryStays
    <2>7. Open'
      <3>1. (Gate' = Gate) /\ (Asked' <=> Asked) /\ (Refusing' <=> Refusing)
            /\ at'.cmd = 1
        BY <1>1, <1>2, <1>3 DEF Gate, Asked, Refusing
      <3> QED BY <1>2, <1>3, <2>1, <3>1 DEF Open
    <2> QED BY <2>2, <2>3, <2>4, <2>5, <2>6, <2>7 DEF IInv
  <1>4. CASE ~Gate.changed
    <2>1. Goto("command") /\ UNCHANGED <<at, scope, outcomes, failures>>
      BY <1>4 DEF ScopeGate
    <2> QED BY <1>1, <1>2, <1>3, <1>4, <2>1 DEF Remembered, Shapes
  <1>5. CASE Gate.changed
    <2>1. PICK seen \in ScopesSeen :
            /\ scope' = seen
            /\ IF seen.files = {}
               THEN Emit("skipped", 0, seen.kind)
               ELSE Goto("command") /\ UNCHANGED <<at, outcomes, failures>>
      BY <1>5 DEF ScopeGate
    <2>2. /\ seen \in Scopes /\ Remembered /\ Resolved'
          /\ seen.kind \in {"skip", "files"}
      <3>1. \A x \in Scopes : x.kind \in {"skip", "files"}
        BY DEF Scopes
      <3>2. Unresolved.kind = "unresolved"
        BY DEF Unresolved
      <3>3. seen \in Scopes
        BY <1>2, <2>1 DEF ScopesSeen, Shapes
      <3>4. Resolved => scope' = scope
        BY <2>1 DEF ScopesSeen, Resolved
      <3> QED BY <1>1, <2>1, <3>1, <3>2, <3>3, <3>4 DEF Remembered, Resolved
    <2>3. CASE seen.files # {}
      BY <1>3, <1>5, <2>1, <2>2, <2>3
    <2>4. CASE seen.files = {}
      <3>1. Emit("skipped", 0, seen.kind) /\ "skipped" \in Statuses /\ 0 \in Nat
            /\ seen.kind \in Reasons
        BY <2>1, <2>2, <2>4 DEF Statuses, Reasons
      <3>2. PICK o : o = [gate |-> at.job, status |-> "skipped", code |-> 0,
                          reason |-> seen.kind]
        OBVIOUS
      <3>3. PICK g : g = at.job
        OBVIOUS
      <3>4. Told(g, o)'
        <4>1. OfGate(g)' = {}
          BY <1>1, <1>2, <3>3 DEF OfGate
        <4>2. ~TrulyPassed(g)'
          BY <1>1, <1>2, <3>3, <4>1 DEF TrulyPassed
        <4>3. plan.gates[g].changed
              /\ (plan.gates[g].image => Asked' /\ ~Refusing')
          BY <1>1, <1>2, <1>5, <3>3 DEF Gate, Asked, Refusing
        <4>4. /\ o.gate = g /\ o.reason = seen.kind /\ o.status = "skipped"
          BY <3>2, <3>3
        <4>5. o.reason # "refused" /\ o.reason # "timed-out"
          BY <2>2, <4>4
        <4>6. Resolved' /\ scope'.files = {}
          BY <2>1, <2>2, <2>4
        <4> QED BY <1>1, <4>1, <4>2, <4>3, <4>4, <4>5, <4>6 DEF Told
      <3>5. ran' \subseteq Endings /\ scope' \in {Unresolved} \cup Scopes
            /\ probe' \in {"unknown", "up", "down"}
        BY <1>1, <1>2, <2>1, <2>2 DEF Shapes
      <3> QED BY <1>1, <1>2, <2>2, <3>1, <3>2, <3>3, <3>4, <3>5, EmitKeeps
    <2> QED BY <2>3, <2>4
  <1> QED BY <1>4, <1>5

\* A command of the open gate starts.
LEMMA StartGateCommandKeeps ==
  ASSUME IInv, StartGateCommand
  PROVE  IInv'
  <1>1. /\ pc = "command" /\ pc \in InGates /\ pc' = "command-runs"
        /\ pc' \in InGates /\ red' = red
        /\ UNCHANGED <<plan, at, volumes, disk, stuck, probe, scope, outcomes,
                       failures, answer, ran>>
    BY DEF StartGateCommand, dockerState, gateState, InGates, Goto
  <1>2. /\ at.job \in DOMAIN plan.gates /\ Shapes /\ red = FALSE /\ IsCI
        /\ at.cmd <= Gate.run /\ at.job <= Len(plan.gates)
    <2>1. Shapes /\ at.cmd <= Gate.run /\ at.job <= Len(plan.gates)
      BY <1>1 DEF IInv, Stage
    <2>2. at.job \in DOMAIN plan.gates
      BY <2>1, PlanShape
    <2> QED BY <1>1, <2>1, <2>2, InGate
  <1>3. /\ child' \in Children /\ child'.state = "running"
        /\ child'.late = FALSE
        /\ child'.place = IF Gate.image THEN "container" ELSE "native"
    <2>1. Gate.timed \in BOOLEAN
      BY <1>2, PlansAssumption DEF Shapes, Gate
    <2> QED BY <2>1, Spawned DEF StartGateCommand, Places
  <1>4. Gate' = Gate /\ (Asked' <=> Asked) /\ (Refusing' <=> Refusing)
        /\ (Resolved' <=> Resolved)
    BY <1>1 DEF Gate, Asked, Refusing, Resolved
  <1>5. Volumes' /\ Runners' /\ Reports' /\ Verdict'
    <2>1. Remembered
      BY <1>1 DEF Remembered
    <2> QED BY <1>1, <2>1, SameGate
  <1>6. Shapes'
    BY <1>1, <1>2, <1>3 DEF Shapes, Points
  <1>7. Stage'
    BY <1>1, <1>2, <1>4 DEF Stage, IsCI, Ahead, Prologue, InRunners, InGates
  <1>8. Waiting'
    BY <1>1, <1>3, <1>4 DEF Waiting
  <1>9. History'
    BY <1>1, HistoryStays DEF Remembered, Resolved
  <1>10. Open'
    <2>1. \A g, k : Clean(g, k) => Clean(g, k)'
      BY <1>1 DEF Clean, OfGate
    <2>2. \A k \in 1..(at.cmd - 1) : Clean(at.job, k)'
      BY <1>1, <2>1 DEF IInv, Open
    <2> QED BY <1>1, <1>4, <2>2 DEF IInv, Open
  <1> QED BY <1>5, <1>6, <1>7, <1>8, <1>9, <1>10 DEF IInv

\* A command that ended cleanly, against the one in the history.
LEMMA EndedClean ==
  ASSUME IInv, child.state = "ended", NEW files,
         Remember("gate", files), plan' = plan, NEW g \in Nat, g = at.job,
         NEW c \in Nat, c = at.cmd, pc = "command-runs"
  PROVE  /\ \A k : Clean(g, k) => Clean(g, k)'
         /\ Clean(g, c)' <=> child.truth = "zero" /\ child.late = FALSE
         /\ OfGate(g)' # {}
         /\ (\E r \in OfGate(g)' : r.late /\ r.truth # "unspawned") <=>
              child.late = TRUE /\ child.truth # "unspawned"
  <1> DEFINE new == [job |-> "gate", index |-> at.job, cmd |-> at.cmd,
                     place |-> child.place, truth |-> child.truth,
                     late |-> child.late, files |-> files]
  <1>1. ran' = ran \cup {new}
    BY DEF Remember
  <1>2. /\ new.job = "gate" /\ new.index = g /\ new.cmd = c
        /\ new.place = child.place /\ new.truth = child.truth
        /\ new.late = child.late
    OBVIOUS
  <1> HIDE DEF new
  <1>3. OfGate(g)' = OfGate(g) \cup {new}
    BY <1>1, <1>2 DEF OfGate
  <1>4. child.place = IF plan.gates[g].image THEN "container" ELSE "native"
    BY DEF IInv, Waiting, Gate
  <1>5. child.late \in BOOLEAN
    BY DEF IInv, Shapes, Children
  <1>6. ASSUME NEW r \in OfGate(g)
        PROVE  r.cmd # c /\ r.late = FALSE /\ r.truth = "zero"
    <2>1. r \in ran /\ r.job = "gate" /\ r.index = at.job
      BY DEF OfGate
    <2>2. r.index \in Nat /\ r.cmd \in Nat
      BY <2>1 DEF IInv, Shapes, Endings
    <2>3. Len(outcomes) = at.job - 1 /\ at.job \in Nat /\ at.cmd \in Nat
      BY InGate DEF InGates, IInv, Shapes, Spots
    <2>4. ~(r.index <= Len(outcomes))
      <3>1. r.index = at.job
        BY <2>1
      <3>2. r.index = Len(outcomes) + 1
        BY <2>3, <3>1
      <3>3. Len(outcomes) \in Nat
        BY PlanShape DEF IInv
      <3> QED BY <3>2, <3>3
    <2>5. r.cmd < at.cmd /\ r.late = FALSE /\ r.truth = "zero"
      BY <2>1, <2>4 DEF IInv, History
    <2>6. r.cmd # c
      <3>1. r.cmd < c
        BY <2>5
      <3>2. r.cmd \in Nat
        BY <2>2
      <3> QED BY <3>1, <3>2
    <2> QED BY <2>5, <2>6
  <1>7. \A k : Clean(g, k) => Clean(g, k)'
    BY <1>3 DEF Clean
  <1>8. Clean(g, c)' <=> child.truth = "zero" /\ child.late = FALSE
    <2>2. Clean(g, c)' <=>
            /\ new.truth = "zero" /\ ~new.late
            /\ new.place = IF plan.gates[g].image THEN "container" ELSE "native"
      BY <1>2, <1>3, <1>6 DEF Clean
    <2> QED BY <1>2, <1>4, <1>5, <2>2
  <1>9. (\E r \in OfGate(g)' : r.late /\ r.truth # "unspawned") <=>
          child.late = TRUE /\ child.truth # "unspawned"
    BY <1>2, <1>3, <1>5, <1>6
  <1> QED BY <1>3, <1>7, <1>8, <1>9

\* A command of the open gate ends.
LEMMA EndGateCommandKeeps ==
  ASSUME IInv, EndGateCommand
  PROVE  IInv'
  <1> DEFINE files == IF Gate.changed THEN scope.files ELSE {}
             good == child.truth # "unspawned" /\ GateCode = 0
  <1>1. /\ pc = "command-runs" /\ pc \in InGates /\ child.state = "ended"
        /\ child' = NoChild /\ Remember("gate", files)
        /\ UNCHANGED <<plan, volumes, disk, stuck, probe, scope, answer>>
    BY DEF EndGateCommand, dockerState, InGates
  <1>2. /\ Shapes /\ red = FALSE /\ IsCI /\ Len(outcomes) = at.job - 1
        /\ at \in Spots /\ at.job <= Len(plan.gates) /\ at.cmd <= Gate.run
        /\ Gate.image => Asked /\ ~Refusing
        /\ Gate.changed => Resolved /\ scope.files # {}
        /\ \A k \in 1..(at.cmd - 1) : Clean(at.job, k)
    BY <1>1, InGate DEF IInv, Shapes, Stage, Open
  <1>3. /\ at.job \in DOMAIN plan.gates /\ at.job \in Nat \ {0}
        /\ at.cmd \in Nat \ {0} /\ Gate.run \in Nat \ {0}
    BY <1>2, PlanShape DEF Spots, Gate
  <1>4. files \in SUBSET Files
    BY <1>2 DEF Shapes, Scopes, Unresolved
  <1>5. /\ ran \subseteq ran' /\ ran' \subseteq Endings
        /\ \A r \in ran' \ ran : /\ r.job = "gate" /\ r.index = at.job
                                 /\ r.files = files /\ r.cmd = at.cmd
                                 /\ r.truth = child.truth
                                 /\ r.late = child.late
    <2>1. ran' \subseteq Endings
      BY <1>1, <1>4, EndingShape
    <2> QED BY <1>1, <2>1 DEF Remember
  <1>6. child.truth \in Truths /\ child.late \in BOOLEAN
    BY <1>1 DEF IInv, Shapes, Waiting, Children
  <1>7. /\ Remembered /\ (Resolved' <=> Resolved)
        /\ Gate.changed =>
             \A r \in ran' \ ran :
               Resolved' /\ r.files = scope'.files /\ r.files # {}
    BY <1>1, <1>2, <1>5 DEF Remembered, Resolved
  <1>8. PICK g : g = at.job
    OBVIOUS
  <1>9. PICK c : c = at.cmd
    OBVIOUS
  <1>10. /\ \A k : Clean(g, k) => Clean(g, k)'
         /\ Clean(g, c)' <=> child.truth = "zero" /\ child.late = FALSE
         /\ OfGate(g)' # {}
         /\ (\E r \in OfGate(g)' : r.late /\ r.truth # "unspawned") <=>
              child.late = TRUE /\ child.truth # "unspawned"
    BY <1>1, <1>3, <1>8, <1>9, EndedClean
  <1>11. good <=> child.truth = "zero" /\ child.late = FALSE
    <2>1. CASE child.truth = "zero"
      BY <1>6, <2>1 DEF GateCode, ExitCode
    <2>2. CASE child.truth = "unspawned"
      BY <2>2
    <2>3. CASE child.truth \in {"one", "124", "signal"}
      BY <2>3 DEF GateCode, ExitCode
    <2> QED BY <1>6, <2>1, <2>2, <2>3 DEF Truths
  <1>12. Gate = plan.gates[g]
    BY <1>8 DEF Gate
  <1> HIDE DEF files, good
  <1>13. CASE good /\ at.cmd < Gate.run
    <2>1. /\ pc' = "command" /\ pc' \in InGates /\ red' = FALSE
          /\ at' = [at EXCEPT !.cmd = @ + 1]
          /\ UNCHANGED <<outcomes, failures>>
      BY <1>1, <1>2, <1>3, <1>13
         DEF EndGateCommand, good, NextCommand, Goto, InGates, Emit
    <2>2. at' \in Spots /\ at'.job = at.job /\ at'.cmd = at.cmd + 1
      BY <1>2, <2>1 DEF Spots
    <2>3. \A r \in ran' \ ran : r.job = "gate" /\ r.index = at.job
      BY <1>5
    <2>4. Volumes' /\ Runners' /\ Reports' /\ Verdict'
      BY <1>1, <1>2, <1>5, <1>7, <2>1, <2>2, <2>3, SameGate
    <2>5. Shapes'
      <3>1. NoChild \in Children
        BY DEF NoChild, Children, States, Places
      <3>2. pc' \in Points /\ red' \in BOOLEAN
        BY <2>1 DEF Points
      <3> QED BY <1>1, <1>2, <1>5, <2>1, <2>2, <3>1, <3>2 DEF Shapes
    <2>6. Gate' = Gate /\ (IsCI' <=> IsCI) /\ (Asked' <=> Asked)
          /\ (Refusing' <=> Refusing)
      BY <1>1, <2>2 DEF Gate, IsCI, Asked, Refusing
    <2>7. Stage'
      BY <1>1, <1>2, <1>3, <1>13, <2>1, <2>2, <2>6
         DEF Stage, Ahead, Prologue, InRunners, InGates
    <2>8. Waiting'
      <3>1. NoChild.state = "none" /\ NoChild.late = FALSE
        BY DEF NoChild
      <3> QED BY <1>1, <2>1, <3>1 DEF Waiting
    <2>9. History'
      <3>1. ASSUME NEW r \in ran, r.job = "gate"
            PROVE  /\ r.index \in DOMAIN plan.gates
                   /\ \/ r.index <= Len(outcomes)
                      \/ /\ r.index = at.job /\ r.cmd < at.cmd + 1
                         /\ r.truth = "zero" /\ r.late = FALSE
                   /\ plan.gates[r.index].changed =>
                        Resolved' /\ r.files = scope'.files /\ r.files # {}
        <4>1. r.cmd \in Nat
          BY <3>1 DEF IInv, Shapes, Endings
        <4> QED BY <1>1, <1>3, <1>7, <3>1, <4>1 DEF IInv, History
      <3>2. ASSUME NEW r \in ran' \ ran
            PROVE  /\ r.index = at.job /\ r.cmd < at.cmd + 1
                   /\ r.truth = "zero" /\ r.late = FALSE
                   /\ plan.gates[r.index].changed =>
                        Resolved' /\ r.files = scope'.files /\ r.files # {}
        BY <1>3, <1>5, <1>7, <1>8, <1>11, <1>12, <1>13
      <3> QED BY <1>1, <1>3, <2>1, <2>2, <3>1, <3>2 DEF History
    <2>10. Open'
      <3>1. Clean(g, c)'
        BY <1>10, <1>11, <1>13
      <3>2. ASSUME NEW k \in 1..at.cmd PROVE Clean(g, k)'
        <4>1. CASE k = c
          BY <3>1, <4>1
        <4>2. CASE k # c
          BY <1>2, <1>3, <1>8, <1>9, <1>10, <4>2
        <4> QED BY <4>1, <4>2
      <3>3. \A k \in 1..(at'.cmd - 1) : Clean(g, k)'
        BY <1>3, <2>2, <3>2
      <3>4. g = at'.job
        BY <1>8, <2>2
      <3>5. /\ Gate.image => Asked /\ ~Refusing
            /\ Gate.changed => Resolved' /\ scope'.files # {}
        BY <1>1, <1>2, <1>7
      <3> QED BY <2>1, <2>6, <3>3, <3>4, <3>5 DEF Open, Clean
    <2> QED BY <2>4, <2>5, <2>7, <2>8, <2>9, <2>10 DEF IInv
  <1>14. ASSUME NEW status \in Statuses, NEW code \in Nat,
                NEW reason \in {"none", "timed-out"},
                Emit(status, code, reason),
                (status = "done") <=> TrulyPassed(g)',
                status # "done" => status = FailedStatus,
                reason = "timed-out" <=>
                  child.late = TRUE /\ child.truth # "unspawned"
         PROVE  IInv'
    <2>1. PICK o : o = [gate |-> at.job, status |-> status, code |-> code,
                        reason |-> reason]
      OBVIOUS
    <2>2. Told(g, o)'
      <3>1. /\ o.gate = g /\ o.status = status /\ o.reason = reason
            /\ o.reason # "refused" /\ o.status \in {"done", "error", "warning"}
        BY <1>8, <1>14, <2>1 DEF FailedStatus
      <3>2. /\ o.status = "error" => plan.gates[g].blocking
            /\ o.status = "warning" => ~plan.gates[g].blocking
        BY <1>12, <1>14, <3>1 DEF FailedStatus
      <3>3. /\ plan.gates[g].image => Asked' /\ ~Refusing'
            /\ plan.gates[g].changed => Resolved' /\ scope'.files # {}
        <4>1. (Asked' <=> Asked) /\ (Refusing' <=> Refusing)
              /\ scope' = scope
          BY <1>1 DEF Asked, Refusing
        <4>2. /\ Gate.image => Asked /\ ~Refusing
              /\ Gate.changed => Resolved' /\ scope.files # {}
          BY <1>2, <1>7
        <4> QED BY <1>12, <4>1, <4>2
      <3>4. o.reason = "timed-out" <=>
              \E r \in OfGate(g)' : r.late /\ r.truth # "unspawned"
        BY <1>10, <1>14, <3>1
      <3> QED BY <1>1, <1>10, <1>14, <3>1, <3>2, <3>3, <3>4 DEF Told
    <2>3. reason \in Reasons
      BY DEF Reasons
    <2>4. probe' \in {"unknown", "up", "down"}
          /\ scope' \in {Unresolved} \cup Scopes
      BY <1>1, <1>2 DEF Shapes
    <2>5. /\ ran \subseteq ran' /\ ran' \subseteq Endings
          /\ \A r \in ran' \ ran : r.job = "gate" /\ r.index = at.job
      BY <1>5
    <2>6. Remembered /\ (Gate.changed => \A r \in ran' \ ran :
                         Resolved' /\ r.files = scope'.files /\ r.files # {})
      BY <1>7
    <2>7. at.job <= Len(plan.gates)
      BY <1>2
    <2> QED BY <1>1, <1>8, <1>14, <2>1, <2>2, <2>3, <2>4, <2>5, <2>6, <2>7,
               EmitKeeps
  <1>15. CASE good /\ at.cmd = Gate.run
    <2>1. Emit("done", 0, "none")
      BY <1>3, <1>15 DEF EndGateCommand, good
    <2>2. TrulyPassed(g)'
      <3>1. ASSUME NEW k \in 1..at.cmd PROVE Clean(g, k)'
        <4>1. CASE k = c
          BY <1>10, <1>11, <1>15, <4>1
        <4>2. CASE k # c
          BY <1>2, <1>3, <1>8, <1>9, <1>10, <4>2
        <4> QED BY <4>1, <4>2
      <3> QED BY <1>1, <1>12, <1>15, <3>1 DEF TrulyPassed, Clean
    <2>3. ~(child.late = TRUE /\ child.truth # "unspawned")
      BY <1>11, <1>15
    <2>4. "done" \in Statuses /\ 0 \in Nat
      BY DEF Statuses
    <2> QED BY <1>14, <2>1, <2>2, <2>3, <2>4
  <1>16. CASE ~good
    <2>1. Emit(FailedStatus, GateCode, TimeoutReason)
      BY <1>16 DEF EndGateCommand, good
    <2>2. ~TrulyPassed(g)'
      <3>1. ~Clean(g, c)' /\ c \in 1..plan'.gates[g].run
        BY <1>1, <1>2, <1>3, <1>9, <1>10, <1>11, <1>12, <1>16
      <3> QED BY <3>1 DEF TrulyPassed, Clean
    <2>3. FailedStatus \in Statuses /\ FailedStatus # "done"
      BY DEF FailedStatus, Statuses
    <2>4. GateCode \in Nat
      BY <1>6 DEF GateCode, ExitCode, Truths
    <2>5. TimeoutReason \in {"none", "timed-out"}
          /\ (TimeoutReason = "timed-out" <=>
                child.late = TRUE /\ child.truth # "unspawned")
      BY <1>6 DEF TimeoutReason
    <2> QED BY <1>14, <2>1, <2>2, <2>3, <2>4, <2>5
  <1> QED BY <1>2, <1>3, <1>13, <1>15, <1>16

-----------------------------------------------------------------------------
(* The end.                                                                 *)

\* All gates were told of.
LEMMA CloseGatesKeeps ==
  ASSUME IInv, CloseGates
  PROVE  IInv'
  <1>1. /\ pc = "gate" /\ pc \in InGates /\ at.job > Len(plan.gates)
        /\ UNCHANGED <<plan, at, child, volumes, disk, stuck, probe, scope,
                       outcomes, failures, answer, ran>>
    BY DEF CloseGates, dockerState, gateState, InGates
  <1>2. /\ red = FALSE /\ IsCI /\ child = NoChild /\ Shapes
        /\ Len(outcomes) = at.job - 1
    BY <1>1, InGate DEF IInv
  <1>3. pc' = "over" /\ red' \in BOOLEAN /\ (red' = TRUE <=> failures # {})
    BY <1>2 DEF CloseGates, Goto, Throw
  <1>4. Shapes'
    BY <1>1, <1>2, <1>3 DEF Shapes, Points
  <1>5. Stage'
    BY <1>1, <1>2, <1>3 DEF Stage, Ahead, Prologue, InRunners, InGates
  <1>6. Waiting'
    BY <1>1, <1>2, <1>3 DEF IInv, Waiting
  <1>7. Volumes'
    BY <1>1, <1>3 DEF IInv, Volumes, InRunners
  <1>8. Runners'
    BY <1>1, <1>2, <1>3, RunnersPassed DEF Prologue, InRunners
  <1>9. Reports'
    <2>1. Remembered /\ (\A g \in DOMAIN outcomes : OfGate(g)' = OfGate(g))
      BY <1>1 DEF Remembered, OfGate
    <2> QED BY <1>1, <1>3, <2>1, ReportsStay
            DEF IInv, Ahead, Prologue, InRunners, InGates
  <1>10. History'
    <2>1. Resolved' <=> Resolved
      BY <1>1 DEF Resolved
    <2> QED BY <1>1, <1>3, <2>1 DEF IInv, History
  <1>11. Open'
    BY <1>3 DEF Open
  <1>12. Verdict'
    <2>1. Len(outcomes) = Len(plan.gates)
      <3>1. Len(outcomes) <= Len(plan.gates) /\ Len(plan.gates) \in Nat
            /\ at.job \in Nat
        BY PlanShape DEF IInv, Reports
      <3> QED BY <1>1, <1>2, <3>1
    <2> QED BY <1>1, <1>3, <2>1 DEF Verdict
  <1> QED BY <1>4, <1>5, <1>6, <1>7, <1>8, <1>9, <1>10, <1>11, <1>12 DEF IInv

\* The run is over and answers.
LEMMA CollectKeeps ==
  ASSUME IInv, Collect
  PROVE  IInv'
  <1>1. /\ pc = "over" /\ pc' = "told"
        /\ UNCHANGED <<plan, at, red, child, volumes, disk, stuck, probe,
                       scope, outcomes, failures, ran>>
        /\ answer' = [ok |-> ~BlockingErrored, exitCode |-> ExitStatus]
    BY DEF Collect, dockerState, gateState, Goto
  <1>2. Shapes'
    <2>1. answer' \in Answers
      BY <1>1 DEF Answers, ExitStatus
    <2> QED BY <1>1, <2>1 DEF IInv, Shapes, Points
  <1>3. Stage'
    BY <1>1 DEF IInv, Stage, Ahead, Prologue, InRunners, InGates
  <1>4. Waiting'
    BY <1>1 DEF IInv, Waiting
  <1>5. Volumes'
    BY <1>1 DEF IInv, Volumes, InRunners
  <1>6. Runners'
    BY <1>1, RunnersPassed DEF Prologue, InRunners
  <1>7. Reports'
    <2>1. Remembered /\ (\A g \in DOMAIN outcomes : OfGate(g)' = OfGate(g))
      BY <1>1 DEF Remembered, OfGate
    <2> QED BY <1>1, <2>1, ReportsStay
            DEF IInv, Ahead, Prologue, InRunners, InGates
  <1>8. History'
    <2>1. Resolved' <=> Resolved
      BY <1>1 DEF Resolved
    <2> QED BY <1>1, <2>1 DEF IInv, History
  <1>9. Open'
    BY <1>1 DEF Open
  <1>10. Verdict'
    <2>1. (BlockingErrored' <=> BlockingErrored) /\ ExitStatus' = ExitStatus
          /\ (IsCI' <=> IsCI)
      BY <1>1 DEF BlockingErrored, ExitStatus, IsCI
    <2> QED BY <1>1, <2>1 DEF IInv, Verdict, Over
  <1> QED BY <1>2, <1>3, <1>4, <1>5, <1>6, <1>7, <1>8, <1>9, <1>10 DEF IInv

\* One lemma per group of actions, put together.
LEMMA StepKeeps == IInv /\ [Next]_vars => IInv'
  <1> SUFFICES ASSUME IInv, [Next]_vars PROVE IInv'
    OBVIOUS
  <1>1. CASE UNCHANGED vars
    <2>1. UNCHANGED <<plan, pc, at, red, child, dockerState, gateState, answer,
                      ran>>
      BY <1>1 DEF vars
    <2>2. Shapes'
      BY <2>1 DEF IInv, Shapes, gateState
    <2>3. Waiting'
      BY <2>1 DEF IInv, Waiting, Gate
    <2> QED BY <2>1, <2>2, <2>3, SameState
  <1>2. CASE Child
    BY <1>2, ChildKeeps
  <1>3. CASE Engine
    BY <1>3, PrologueKeeps, ResolveImageKeeps, SkipStepKeeps, StartStepKeeps,
       EndStepKeeps, NextRunnerKeeps, CleanUpKeeps, OpenGateKeeps,
       ScopeGateKeeps, StartGateCommandKeeps, EndGateCommandKeeps,
       CloseGatesKeeps, CollectKeeps
       DEF Engine
  <1> QED BY <1>1, <1>2, <1>3 DEF Next

\* Every state of every run satisfies the invariant.
LEMMA Inductive == Spec => []IInv
  BY Starts, StepKeeps, PTL DEF Spec

-----------------------------------------------------------------------------
(* The theorems.                                                            *)

\* The invariant has the types of TypeOK.
LEMMA Typed == ASSUME IInv PROVE TypeOK
  <1>1. at.job \in Nat \ {0} /\ at.cmd \in Nat \ {0}
    BY DEF IInv, Shapes, Spots
  <1>2. /\ child.state \in States
        /\ child.place \in Places /\ child.truth \in Truths \cup {"none"}
        /\ child.timed \in BOOLEAN /\ child.late \in BOOLEAN
    BY DEF IInv, Shapes, Children
  <1>3. child.late => child.timed
    BY DEF IInv, Waiting
  <1>4. answer.ok \in BOOLEAN /\ answer.exitCode \in {-1, 0, 1}
    BY DEF IInv, Shapes, Answers
  <1>5. DOMAIN outcomes \subseteq DOMAIN plan.gates
    BY PlanShape DEF IInv, Reports
  <1>6. ASSUME NEW i \in DOMAIN outcomes PROVE outcomes[i].status \in Statuses
    <2>1. outcomes[i] \in Outcomes
      BY DEF IInv, Shapes
    <2> QED BY <2>1 DEF Outcomes
  <1>7. stuck \subseteq disk /\ disk \subseteq volumes
    BY DEF IInv, Volumes
  <1>8. pc \in Points /\ plan \in Plans /\ red \in BOOLEAN
        /\ probe \in {"unknown", "up", "down"}
        /\ scope \in {Unresolved} \cup Scopes
        /\ failures \subseteq DOMAIN outcomes
    BY DEF IInv, Shapes
  <1> QED BY <1>1, <1>2, <1>3, <1>4, <1>5, <1>6, <1>7, <1>8
          DEF TypeOK, Points, Ahead, Prologue, InRunners, InGates, States,
              Statuses

\* A run that returns is green in truth.
LEMMA GreenIsTrue == ASSUME IInv PROVE GreenMeansGreen
  <1> SUFFICES ASSUME Over, red = FALSE, IsCI
               PROVE  /\ \A i \in DOMAIN plan.runners :
                           \A k \in DOMAIN plan.runners[i].cmds : Went(i, k)
                      /\ \A g \in DOMAIN plan.gates :
                           plan.gates[g].blocking =>
                             \/ TrulyPassed(g)
                             \/ /\ plan.gates[g].changed /\ scope.files = {}
                                /\ OfGate(g) = {}
    BY DEF GreenMeansGreen, Went, IInv, Shapes
  <1>1. ASSUME NEW i \in DOMAIN plan.runners,
               NEW k \in DOMAIN plan.runners[i].cmds
        PROVE  Went(i, k)
    BY DEF IInv, Runners, Over, Prologue, InRunners
  <1>2. DOMAIN outcomes = DOMAIN plan.gates /\ failures = {}
    <2>1. Len(outcomes) = Len(plan.gates) /\ failures = {}
      BY DEF IInv, Verdict
    <2> QED BY <2>1, PlanShape DEF IInv
  <1>3. ASSUME NEW g \in DOMAIN plan.gates, plan.gates[g].blocking
        PROVE  \/ TrulyPassed(g)
               \/ /\ plan.gates[g].changed /\ scope.files = {}
                  /\ OfGate(g) = {}
    <2>1. PICK o : o = outcomes[g]
      OBVIOUS
    <2>2. Told(g, o) /\ o.status \in Statuses /\ o.status # "error"
      <3>1. outcomes[g] \in Outcomes
        BY <1>2 DEF IInv, Shapes
      <3> QED BY <1>2, <2>1, <3>1 DEF IInv, Reports, Outcomes
    <2>3. o.status # "warning"
      BY <1>3, <2>2 DEF Told
    <2>4. CASE o.status = "done"
      BY <2>2, <2>4 DEF Told
    <2>5. CASE o.status = "skipped"
      BY <2>2, <2>5 DEF Told
    <2> QED BY <2>2, <2>3, <2>4, <2>5 DEF Statuses
  <1> QED BY <1>1, <1>3

\* A red run has a blocking gate to blame, and the answer says so.
LEMMA RedIsTrue == ASSUME IInv PROVE RedHasACause
  <1> DEFINE Blames(g) == /\ plan.gates[g].blocking /\ ~TrulyPassed(g)
                          /\ \/ OfGate(g) # {}
                             \/ outcomes[g].reason = "refused"
  <1>1. ASSUME Over, outcomes # <<>>
        PROVE  /\ red = TRUE <=> failures # {}
               /\ DOMAIN outcomes = DOMAIN plan.gates
    <2>1. Len(outcomes) = Len(plan.gates) /\ (red = TRUE <=> failures # {})
      BY <1>1 DEF IInv, Verdict
    <2> QED BY <2>1, PlanShape DEF IInv
  <1>2. ASSUME NEW g \in DOMAIN outcomes
        PROVE  g \in failures <=> Blames(g)
    <2>1. PICK o : o = outcomes[g]
      OBVIOUS
    <2>2. Told(g, o) /\ o.status \in Statuses
      <3>1. outcomes[g] \in Outcomes
        BY DEF IInv, Shapes
      <3> QED BY <2>1, <3>1 DEF IInv, Reports, Outcomes
    <2>3. g \in failures <=> o.status = "error"
      BY <2>1 DEF IInv, Reports
    <2>4. o.status = "error" => Blames(g)
      BY <2>1, <2>2 DEF Told
    <2>5. Blames(g) => o.status = "error"
      BY <2>1, <2>2 DEF Told, Statuses
    <2> QED BY <2>3, <2>4, <2>5
  <1>3. failures \subseteq DOMAIN outcomes /\ red \in BOOLEAN
    BY DEF IInv, Shapes
  <1>4. Over /\ outcomes # <<>> =>
          (red = TRUE <=> \E g \in DOMAIN plan.gates : Blames(g))
    BY <1>1, <1>2, <1>3
  <1>5. BlockingErrored <=> failures # {}
    <2>1. ASSUME NEW g \in DOMAIN outcomes
          PROVE  /\ outcomes[g].gate = g
                 /\ outcomes[g].status = "error" => plan.gates[g].blocking
      BY DEF IInv, Reports, Told
    <2>2. failures = {g \in DOMAIN outcomes : outcomes[g].status = "error"}
      BY DEF IInv, Reports
    <2> QED BY <2>1, <2>2 DEF BlockingErrored
  <1>6. ASSUME pc = "told"
        PROVE  /\ (answer.exitCode = 0) <=> ~red
               /\ ~answer.ok => red
               /\ outcomes # <<>> => (answer.ok <=> ~red)
    <2>1. answer.ok = ~BlockingErrored /\ answer.exitCode = ExitStatus
      BY <1>6 DEF IInv, Verdict
    <2>2. outcomes # <<>> => (red = TRUE <=> failures # {})
      BY <1>1, <1>6 DEF Over
    <2>3. BlockingErrored => outcomes # <<>>
      BY DEF BlockingErrored
    <2>4. BlockingErrored => red = TRUE
      BY <1>5, <2>2, <2>3
    <2>5. ExitStatus = 0 <=> ~(red = TRUE)
      BY <1>3, <2>4 DEF ExitStatus
    <2> QED BY <1>3, <1>5, <2>1, <2>2, <2>4, <2>5
  <1> HIDE DEF Blames
  <1>7. Over /\ outcomes # <<>> =>
          (red <=> \E g \in DOMAIN plan.gates : Blames(g))
    BY <1>3, <1>4
  <1> QED BY <1>6, <1>7 DEF RedHasACause, Blames

\* Every gate is reported, and as what it was.
LEMMA ReportedInTruth == ASSUME IInv PROVE EveryGateReported
  <1>1. ASSUME NEW i \in DOMAIN outcomes PROVE Told(i, outcomes[i])
    BY DEF IInv, Reports
  <1>2. Over /\ IsCI /\ (~red \/ outcomes # <<>>) =>
          Len(outcomes) = Len(plan.gates)
    BY DEF IInv, Verdict, Shapes
  <1> QED BY <1>1, <1>2 DEF EveryGateReported, Told

\* The daemon and git are asked once for the whole run.
LEMMA AskedOnce == ASSUME IInv PROVE OneAnswerPerRun
  <1>1. ASSUME NEW i \in DOMAIN outcomes PROVE Told(i, outcomes[i])
    BY DEF IInv, Reports
  <1>2. ASSUME NEW r \in ran, r.job = "gate", plan.gates[r.index].changed
        PROVE  r.files = scope.files /\ r.files # {}
    BY <1>2 DEF IInv, History
  <1>3. ASSUME NEW i \in DOMAIN outcomes, NEW j \in DOMAIN outcomes
        PROVE  /\ plan.gates[i].image /\ plan.gates[j].image =>
                    (outcomes[i].reason = "refused" <=>
                       outcomes[j].reason = "refused")
               /\ /\ plan.gates[i].changed /\ plan.gates[j].changed
                  /\ "refused" \notin {outcomes[i].reason, outcomes[j].reason}
                  => (outcomes[i].status = "skipped" <=>
                        outcomes[j].status = "skipped")
    BY <1>1 DEF Told
  <1> QED BY <1>2, <1>3 DEF OneAnswerPerRun

\* The colour of a run and its headless answer are the true ones, whatever the
\* children, the daemon and git did (ci.ts:542-1890, 2128-2309).
THEOREM AnswersAreTrue == Spec => []AnswerIsTrue
  <1>1. IInv => AnswerIsTrue
    BY Typed, GreenIsTrue, RedIsTrue DEF AnswerIsTrue
  <1> QED BY <1>1, Inductive, PTL

\* The report leaves no gate out and calls each what it was; the daemon and git
\* are asked once; no volume is forgotten (ci.ts:818-826, 1888-2127).
THEOREM ReportsAreWhole == Spec => []ReportIsWhole
  <1>1. IInv => NoVolumeForgotten
    BY DEF IInv, Volumes, NoVolumeForgotten, Over, InRunners
  <1>2. IInv => ReportIsWhole
    BY <1>1, ReportedInTruth, AskedOnce DEF ReportIsWhole
  <1> QED BY <1>2, Inductive, PTL

-----------------------------------------------------------------------------
(* A run does not go round in circles.                                      *)

\* The parts of the measure are natural numbers.
LEMMA MeasureIsNatural ==
  IInv => /\ Chapter \in Nat /\ JobsLeft \in Nat
          /\ CommandsLeft \in Nat /\ Patience \in Nat
  <1> SUFFICES ASSUME IInv
               PROVE  /\ Chapter \in Nat /\ JobsLeft \in Nat
                      /\ CommandsLeft \in Nat /\ Patience \in Nat
    OBVIOUS
  <1>1. Shapes /\ Stage
    BY DEF IInv
  <1>2. Chapter \in 0..10 /\ Patience \in 0..5
    BY DEF Chapter, Patience
  <1>3. \A k, n \in Nat : From(k, n) \in Nat
    BY DEF From
  <1>4. JobsLeft \in Nat
    BY <1>1, <1>3, PlanShape DEF JobsLeft
  <1>5. JobsLeft > 0 /\ pc = "runner" => at.job \in DOMAIN plan.runners
    BY <1>1, PlanShape DEF JobsLeft, Chapter, From
  <1>6. JobsLeft > 0 /\ pc = "gate" => at.job \in DOMAIN plan.gates
    BY <1>1, PlanShape DEF JobsLeft, Chapter, From
  <1>7. pc \in {"step", "step-runs"} => at.job \in DOMAIN plan.runners
    BY <1>1, PlanShape DEF Stage
  <1>8. pc \in {"scope", "command", "command-runs"} => at.job \in DOMAIN plan.gates
    BY <1>1, PlanShape DEF Stage
  <1>9. /\ pc \in {"step", "step-runs"} \/ (pc = "runner" /\ JobsLeft > 0)
             => Len(Runner.cmds) \in Nat
        /\ pc \in {"scope", "command", "command-runs"} \/ (pc = "gate" /\ JobsLeft > 0)
             => Gate.run \in Nat
    BY <1>1, <1>5, <1>6, <1>7, <1>8, PlanShape DEF Runner, Gate
  <1>10. CommandsLeft \in Nat
    BY <1>1, <1>3, <1>9, PlanShape DEF CommandsLeft
  <1> QED BY <1>2, <1>4, <1>10

\* What is left falls when one of it is done.
LEMMA FromFalls ==
  ASSUME NEW k \in Nat, NEW n \in Nat, k <= n
  PROVE  From(k + 1, n) < From(k, n)
  BY DEF From

\* The steps that end a chapter.
LEMMA ChapterEnds ==
  ASSUME IInv,
         \/ Detect \/ Shell \/ CheckDocker \/ BuildImage \/ RunnersDone
         \/ RemoveVolumes \/ Semgrep \/ Ghagga \/ CloseGates \/ Collect
         \/ (ResolveImage \/ EndStep) /\ pc' = "cleanup"
  PROVE  Spends
  <1>1. \/ pc = "detect" /\ pc' \in {"shell", "docker", "runner", "gate", "over"}
        \/ pc = "shell" /\ pc' = "over"
        \/ pc = "docker" /\ pc' \in {"image", "runner", "over"}
        \/ pc = "image" /\ pc' \in {"runner", "over"}
        \/ pc \in {"runner", "step-runs"} /\ pc' = "cleanup"
        \/ pc = "cleanup" /\ pc' \in {"semgrep", "over"}
        \/ pc = "semgrep" /\ pc' \in {"ghagga", "over"}
        \/ pc = "ghagga" /\ pc' \in {"gate", "over"}
        \/ pc = "gate" /\ pc' = "over"
        \/ pc = "over" /\ pc' = "told"
    BY DEF Detect, Shell, CheckDocker, BuildImage, RunnersDone, RemoveVolumes,
       Semgrep, Ghagga, CloseGates, Collect, ResolveImage, EndStep, Goto, Throw
  <1> QED BY <1>1 DEF Chapter, Spends

\* A runner, and a command of it, is left for the next one.
LEMMA RunnersShrink ==
  ASSUME IInv,
         \/ (ResolveImage \/ EndStep) /\ pc' # "cleanup"
         \/ SkipStep \/ StartStep \/ NextRunner
  PROVE  Spends
  <1>1. Shapes /\ Stage /\ pc \in {"runner", "step", "step-runs"} /\ plan' = plan
    BY DEF IInv, ResolveImage, EndStep, SkipStep, StartStep, NextRunner
  <1>2. pc' \in {"runner", "step", "step-runs"}
    BY <1>1 DEF ResolveImage, EndStep, SkipStep, StartStep, NextRunner, BreakOff,
       Goto
  <1>3. Chapter = 6 /\ Chapter' = 6
    BY <1>1, <1>2 DEF Chapter
  <1>4. JobsLeft = From(at.job, Len(plan.runners))
        /\ JobsLeft' = From(at'.job, Len(plan.runners))
    BY <1>1, <1>3 DEF JobsLeft, From
  <1>5. /\ at \in [job : Nat \ {0}, cmd : Nat \ {0}]
        /\ Len(plan.runners) \in Nat
        /\ at.job \in DOMAIN plan.runners => Len(Runner.cmds) \in Nat
    BY <1>1, PlanShape DEF Shapes, Spots, Runner
  <1>6. at.job <= Len(plan.runners) /\ at.job \in DOMAIN plan.runners
    <2>1. at.job <= Len(plan.runners)
      BY <1>1 DEF Stage, ResolveImage, EndStep, SkipStep, StartStep, NextRunner
    <2> QED BY <1>1, <2>1, PlanShape
  <1>7. JobsLeft > 0
    BY <1>4, <1>5, <1>6 DEF From
  <1>8. CASE NextRunner
    <2>1. at'.job = at.job + 1
      BY <1>8 DEF NextRunner, Begin
    <2>2. From(at.job + 1, Len(plan.runners)) < From(at.job, Len(plan.runners))
      BY <1>5, <1>6, FromFalls
    <2> QED BY <1>3, <1>4, <2>1, <2>2 DEF Spends
  <1>9. ASSUME at'.job = at.job
        PROVE  JobsLeft' = JobsLeft /\ Runner' = Runner
    BY <1>1, <1>4, <1>9 DEF Runner
  <1>10. CASE ResolveImage
    <2>1. pc = "runner" /\ pc' = "step" /\ at' = at
      BY <1>2, <1>10 DEF ResolveImage, Goto, BreakOff
    <2>2. CommandsLeft = Len(Runner.cmds) + 1
      BY <1>7, <2>1 DEF CommandsLeft
    <2>3. CommandsLeft' = From(at.cmd, Len(Runner.cmds))
      BY <1>9, <2>1 DEF CommandsLeft
    <2>4. From(at.cmd, Len(Runner.cmds)) < Len(Runner.cmds) + 1
      BY <1>5, <1>6 DEF From
    <2> QED BY <1>3, <1>9, <2>1, <2>2, <2>3, <2>4 DEF Spends
  <1>11. CASE SkipStep \/ EndStep
    <2>1. /\ pc \in {"step", "step-runs"} /\ pc' = "step"
          /\ at.cmd <= Len(Runner.cmds)
          /\ at'.job = at.job /\ at'.cmd = at.cmd + 1
      BY <1>1, <1>2, <1>5, <1>11, PlanShape
      DEF SkipStep, EndStep, NextCommand, BreakOff, Goto, Stage
    <2>2. CommandsLeft = From(at.cmd, Len(Runner.cmds))
      BY <2>1 DEF CommandsLeft
    <2>3. CommandsLeft' = From(at.cmd + 1, Len(Runner.cmds))
      BY <1>9, <2>1 DEF CommandsLeft
    <2>4. From(at.cmd + 1, Len(Runner.cmds)) < From(at.cmd, Len(Runner.cmds))
      BY <1>5, <1>6, <2>1 DEF From
    <2> QED BY <1>3, <1>9, <2>1, <2>2, <2>3, <2>4 DEF Spends
  <1>12. CASE StartStep
    <2>1. /\ pc = "step" /\ pc' = "step-runs" /\ at' = at
          /\ child'.state = "running"
      BY <1>12 DEF StartStep, Spawn, Goto
    <2>2. CommandsLeft' = CommandsLeft
      BY <1>9, <2>1 DEF CommandsLeft
    <2>3. Patience = 5
      BY <2>1, InRunner DEF Patience, InRunners, NoChild
    <2>4. Patience' = 4
      BY <2>1 DEF Patience
    <2> QED BY <1>3, <1>9, <2>1, <2>2, <2>3, <2>4 DEF Spends
  <1> QED BY <1>8, <1>10, <1>11, <1>12

\* A gate, and a command of it, is left for the next one.
LEMMA GatesShrink ==
  ASSUME IInv,
         \/ OpenImageGate \/ OpenNativeGate \/ ScopeGate
         \/ StartGateCommand \/ EndGateCommand
  PROVE  Spends
  <1>1. Shapes /\ Stage /\ pc \in InGates /\ plan' = plan
    BY DEF IInv, OpenImageGate, OpenNativeGate, ScopeGate, StartGateCommand,
       EndGateCommand, InGates
  <1>2. pc' \in InGates
    BY DEF OpenImageGate, OpenNativeGate, ScopeGate, StartGateCommand,
       EndGateCommand, Emit, Goto, InGates
  <1>3. Chapter = 2 /\ Chapter' = 2
    BY <1>1, <1>2 DEF Chapter, InGates
  <1>4. JobsLeft = From(at.job, Len(plan.gates))
        /\ JobsLeft' = From(at'.job, Len(plan.gates))
    BY <1>1, <1>3 DEF JobsLeft, From
  <1>5. /\ at \in [job : Nat \ {0}, cmd : Nat \ {0}]
        /\ Len(plan.gates) \in Nat
        /\ at.job \in DOMAIN plan.gates => Gate.run \in Nat
    BY <1>1, PlanShape DEF Shapes, Spots, Gate
  <1>6. at.job <= Len(plan.gates) /\ at.job \in DOMAIN plan.gates
    <2>1. at.job <= Len(plan.gates)
      BY <1>1 DEF Stage, OpenImageGate, OpenNativeGate, ScopeGate,
         StartGateCommand, EndGateCommand
    <2> QED BY <1>1, <2>1, PlanShape
  <1>7. JobsLeft > 0
    BY <1>4, <1>5, <1>6 DEF From
  <1>8. CASE at'.job = at.job + 1
    <2>1. From(at.job + 1, Len(plan.gates)) < From(at.job, Len(plan.gates))
      BY <1>5, <1>6, FromFalls
    <2> QED BY <1>3, <1>4, <1>8, <2>1 DEF Spends
  <1>9. ASSUME at'.job = at.job
        PROVE  JobsLeft' = JobsLeft /\ Gate' = Gate
    BY <1>1, <1>4, <1>9 DEF Gate
  <1>10. CASE pc = "gate" /\ pc' = "scope" /\ at' = at
    <2>1. CommandsLeft = Gate.run + 2 /\ CommandsLeft' = Gate.run + 1
      BY <1>7, <1>9, <1>10 DEF CommandsLeft
    <2> QED BY <1>3, <1>5, <1>6, <1>9, <1>10, <2>1 DEF Spends
  <1>11. CASE pc = "scope" /\ pc' = "command" /\ at' = at
    <2>1. CommandsLeft = Gate.run + 1 /\ CommandsLeft' = From(at.cmd, Gate.run)
      BY <1>9, <1>11 DEF CommandsLeft
    <2>2. From(at.cmd, Gate.run) < Gate.run + 1
      BY <1>5, <1>6 DEF From
    <2> QED BY <1>3, <1>9, <1>11, <2>1, <2>2 DEF Spends
  <1>12. CASE /\ pc = "command" /\ pc' = "command-runs" /\ at' = at
              /\ child'.state = "running"
    <2>1. CommandsLeft' = CommandsLeft
      BY <1>9, <1>12 DEF CommandsLeft
    <2>2. Patience = 5
      BY <1>1, <1>12, InGate DEF Patience, NoChild
    <2>3. Patience' = 4
      BY <1>12 DEF Patience
    <2> QED BY <1>3, <1>9, <1>12, <2>1, <2>2, <2>3 DEF Spends
  <1>13. CASE /\ pc = "command-runs" /\ pc' = "command" /\ at.cmd < Gate.run
              /\ at'.job = at.job /\ at'.cmd = at.cmd + 1
    <2>1. /\ CommandsLeft = From(at.cmd, Gate.run)
          /\ CommandsLeft' = From(at.cmd + 1, Gate.run)
      BY <1>9, <1>13 DEF CommandsLeft
    <2>2. From(at.cmd + 1, Gate.run) < From(at.cmd, Gate.run)
      BY <1>5, <1>6, <1>13 DEF From
    <2> QED BY <1>3, <1>9, <1>13, <2>1, <2>2 DEF Spends
  <1>14. CASE OpenImageGate \/ OpenNativeGate
    <2>1. pc = "gate"
      BY <1>14 DEF OpenImageGate, OpenNativeGate
    <2>2. \/ at' = [job |-> at.job + 1, cmd |-> 1]
          \/ pc' = "scope" /\ at' = at
      BY <1>14 DEF OpenImageGate, OpenNativeGate, Emit, Begin, Goto
    <2>3. \/ at'.job = at.job + 1
          \/ pc' = "scope" /\ at' = at
      BY <2>2
    <2> QED BY <1>8, <1>10, <2>1, <2>3
  <1>15. CASE ScopeGate
    <2>1. pc = "scope"
      BY <1>15 DEF ScopeGate
    <2>2. \/ at' = [job |-> at.job + 1, cmd |-> 1]
          \/ pc' = "command" /\ at' = at
      BY <1>15 DEF ScopeGate, Emit, Begin, Goto
    <2>3. \/ at'.job = at.job + 1
          \/ pc' = "command" /\ at' = at
      BY <2>2
    <2> QED BY <1>8, <1>11, <2>1, <2>3
  <1>16. CASE StartGateCommand
    BY <1>12, <1>16 DEF StartGateCommand, Spawn, Goto
  <1>17. CASE EndGateCommand
    BY <1>5, <1>8, <1>13, <1>17
    DEF EndGateCommand, Emit, Begin, NextCommand, Goto
  <1> QED BY <1>14, <1>15, <1>16, <1>17

\* A child comes nearer to its end.
LEMMA ChildShrinks ==
  ASSUME IInv, Child
  PROVE  Spends
  <1>1. UNCHANGED <<plan, pc, at, red, dockerState, gateState, answer, ran>>
    <2>1. CASE ChildEnds
      BY <2>1 DEF ChildEnds
    <2>2. CASE TimerFires
      BY <2>2 DEF TimerFires
    <2>3. CASE Escalate
      BY <2>3 DEF Escalate
    <2> QED BY <2>1, <2>2, <2>3 DEF Child
  <1>2. pc \notin {"step", "command"}
    <2>1. child.state \in {"running", "stopping", "killed"}
      <3>1. CASE ChildEnds
        BY <3>1 DEF ChildEnds
      <3>2. CASE TimerFires
        BY <3>2 DEF TimerFires
      <3>3. CASE Escalate
        BY <3>3 DEF Escalate
      <3> QED BY <3>1, <3>2, <3>3 DEF Child
    <2>2. NoChild.state = "none"
      BY DEF NoChild
    <2> QED BY <2>1, <2>2 DEF IInv, Waiting
  <1>3. UNCHANGED <<Chapter, JobsLeft, CommandsLeft>>
    BY <1>1 DEF Chapter, JobsLeft, CommandsLeft, From, Runner, Gate
  <1>4. \/ child.state \in {"running", "stopping", "killed"} /\ child'.state = "ended"
        \/ child.state = "running" /\ child'.state = "stopping"
        \/ child.state = "stopping" /\ child'.state = "killed"
    <2>1. child \in Children
      BY DEF IInv, Shapes
    <2>2. CASE ChildEnds
      BY <2>1, <2>2 DEF ChildEnds, Children
    <2>3. CASE TimerFires
      BY <2>1, <2>3 DEF TimerFires, Children
    <2>4. CASE Escalate
      BY <2>1, <2>4 DEF Escalate, Children
    <2> QED BY <2>2, <2>3, <2>4 DEF Child
  <1>5. Patience' < Patience
    BY <1>1, <1>2, <1>4 DEF Patience
  <1> QED BY <1>3, <1>5 DEF Spends

\* Each step of the engine, of a child and of its timers leaves the run less to
\* do, for any number of runners, commands and gates (ci.ts:1272-1371,
\* 1620-1667, 1922-2121): what TimedWorkEnds needs beside fairness.
THEOREM RunsShrink == Spec => EveryStepSpends
  <1>1. IInv /\ [Next]_vars => [Spends]_vars
    <2> SUFFICES ASSUME IInv, Next PROVE Spends
      OBVIOUS
    <2>1. CASE Child
      BY <2>1, ChildShrinks
    <2>2. CASE Engine
      BY <2>2, ChapterEnds, RunnersShrink, GatesShrink DEF Engine
    <2> QED BY <2>1, <2>2 DEF Next
  <1> QED BY <1>1, Inductive, PTL DEF Spec, EveryStepSpends
=============================================================================
