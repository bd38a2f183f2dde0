----------------------------- MODULE AiProviders -----------------------------
(***************************************************************************)
(* javi-forge ai providers: smoke-test probes models one after the other   *)
(* and writes what passed; profile-plan and profile-export turn that into  *)
(* an overlay; apply-scope and profile-apply write it into the settings of *)
(* Pi and OpenCode, each after a backup, and can roll back                 *)
(* (src/src/lib/ai-provider-*.ts, src/src/commands/ai-providers.ts).       *)
(*                                                                         *)
(* One command runs at a time, next to a user who edits the settings and   *)
(* to a smoke test of another terminal; it may die between any two calls.  *)
(***************************************************************************)
EXTENDS Integers, Sequences, FiniteSets

CONSTANTS
  Models,    \* what can be probed
  Provider,  \* the provider of each model
  Preset,    \* the models a preset routes to
  Local,     \* the providers on this machine
  Notes,     \* what a user writes into settings
  Evidence,  \* the reports that may be there at first
  Overlays,  \* the exported files that may be: older, edited, damaged
  None,
  MaxCommands, MaxEdits, LastSecond

Targets == {"pi", "opencode"}
Statuses == {"pass", "failed", "timeout", "dry_run"}

ASSUME ProvidersAssumption ==
  /\ Preset \subseteq Models /\ DOMAIN Provider = Models
  /\ None \notin Models \cup Notes
  /\ MaxCommands \in Nat /\ MaxEdits \in Nat /\ LastSecond \in Nat

VARIABLES
  results, tsv,     \* the two files of evidence: rows, and passing models
  profilePlan, overlay,   \* the generated files, None before
  config,          \* per target: models, routes, notes, and whether it parses
  saved, temps,    \* backups and temporary files, by name
  second,          \* the clock, as file names show it
  op, aiStep, todo,    \* the command, its next call, the targets to write
  at,              \* the second in the names it uses
  input, current,  \* evidence and settings as it read them
  probe,           \* the child of the smoke test
  rows,            \* what it has so far
  commands, edits,
  proven,          \* history: models a real probe has seen pass
  notesOwed             \* history: notes each file held outside a window

files == <<results, tsv, profilePlan, overlay, config, saved, temps>>
command == <<op, aiStep, todo, at, input, current>>
smoke == <<probe, rows>>
rest == <<second, commands, edits, proven, notesOwed>>
aiVars == <<files, command, smoke, rest>>

NoProbe == [model |-> None, timer |-> "off", timedOut |-> FALSE]
NoInput == [pass |-> {}, scoped |-> {}]
Idle == [op |-> "none", preset |-> FALSE, source |-> "report", from |-> None,
         dryRun |-> FALSE]

-----------------------------------------------------------------------------
(* Evidence.                                                                *)

\* parseJsonlReport: the models with a row of status pass.
Passing(r) == {row.model : row \in {x \in r : x.status = "pass"}}
Tested(r) == {Provider[row.model] : row \in r}
DryRun(r) == \E row \in r : row.status = "dry_run"

\* readProviderScopeInput over a report or a pass list.
Input(source) ==
  IF source = "report"
  THEN [pass |-> Passing(results), scoped |-> Tested(results)]
  ELSE [pass |-> tsv, scoped |-> {Provider[m] : m \in tsv}]

\* extractPiModels, extractOpenCodeModels: the models of the files, those of
\* local providers when asked.
Listed(local) == {m \in Models : local \/ Provider[m] \notin Local}

\* filterProviderSmokeModels: all, or those of one status in the last report.
Selected(status, local) ==
  {m \in Listed(local) : status = "all" \/
     \E row \in results : row.model = m /\ row.status = status}

\* classifySmokeOutput: a probe that ran into its timer never passes.
StatusOf(timedOut, exitCode) ==
  IF timedOut THEN "timeout"
  ELSE IF exitCode = 0 THEN "pass" ELSE "failed"

-----------------------------------------------------------------------------
(* What the commands write.                                                 *)

\* Pi lists the models to use; OpenCode keeps of every tested provider those
\* that passed and leaves the other providers alone.
Scoped(t, c, in) ==
  IF t = "pi" THEN [c EXCEPT !.models = in.pass]
  ELSE [c EXCEPT !.models =
          {m \in @ : Provider[m] \in in.scoped => m \in in.pass}]

\* requiredOverlayRefs: whatever the overlay routes to or calls primary.
Refs(o) == o.routed \cup o.primaries
\* parseModelAssignmentPlan, parseModelAssignmentProfileOverlay.
WellFormed(file) == file # None /\ file.valid

\* Pi's profiles and routing are replaced; in OpenCode the agents of other
\* phases keep what they had.
Overlaid(t, c, o) ==
  [c EXCEPT !.routes = IF t = "pi" THEN Refs(o) ELSE @ \cup o.routed]

Replacement(t) ==
  CASE op.op = "scope" -> Scoped(t, current, input)
    [] op.op = "overlay" -> Overlaid(t, current, overlay[t])
    [] OTHER -> op.from

\* What of OpenCode's settings a command cannot do without.
Needs(t) == IF t = "pi" \/ op.op = "rollback" THEN {}
            ELSE IF op.op = "scope" THEN {"provider"} ELSE {"agent"}

-----------------------------------------------------------------------------
AiInit ==
  /\ results \in Evidence /\ tsv = Passing(results)
  /\ profilePlan = None
  /\ overlay \in {[t \in Targets |-> None]} \cup
       {[t \in Targets |-> o] : o \in Overlays}
  /\ config \in {[pi |-> [models |-> {}, routes |-> {}, notes |-> {},
                          parts |-> {}],
                  opencode |-> [models |-> Models, routes |-> {},
                                notes |-> {}, parts |-> p]] :
                   p \in {{"provider", "agent"}, {}}}
  /\ saved = {} /\ temps = {} /\ second = 0
  /\ op = Idle /\ aiStep = "idle" /\ todo = <<>> /\ at = 0
  /\ input = NoInput /\ current = None
  /\ probe = NoProbe /\ rows = {} /\ commands = 0 /\ edits = 0
  /\ proven = Passing(results)
  /\ notesOwed = [t \in Targets |-> {}]

Stop == /\ aiStep' = "idle" /\ op' = Idle /\ todo' = <<>> /\ current' = None
        /\ at' = 0 /\ input' = NoInput
GotoStep(call) == aiStep' = call

Start(o, call, targets) ==
  /\ aiStep = "idle" /\ commands < MaxCommands
  /\ commands' = commands + 1
  /\ op' = o /\ aiStep' = call /\ todo' = targets /\ at' = second
  /\ UNCHANGED <<input, current, files, smoke, second, edits, proven,
                 notesOwed>>

\* apply-scope to one target or both, Pi first.
ApplyScope(targets, source) ==
  Start([Idle EXCEPT !.op = "scope", !.source = source], "evidence", targets)

\* profile-apply: the overlay was exported for this target.
ApplyOverlay(t, source) ==
  /\ WellFormed(overlay[t])
  /\ Start([Idle EXCEPT !.op = "overlay", !.source = source], "evidence",
           <<t>>)

\* apply-scope --rollback and profile-apply --rollback, from a file that is
\* there.
Rollback(t) ==
  \E b \in saved :
    /\ b.of = t
    /\ Start([Idle EXCEPT !.op = "rollback", !.from = b.content], "backup",
             <<t>>)

MakePlan(source, preset) ==
  Start([Idle EXCEPT !.op = "plan", !.source = source, !.preset = preset],
        "precheck", <<>>)

\* A report is read twice: to apply, it is taken first and then looked over
\* for the rows of a dry run; to plan, the other way round.
IsDryRun == op.source = "report" /\ DryRun(results)

ReadEvidence ==
  /\ aiStep = "evidence"
  /\ input' = Input(op.source)
  /\ GotoStep(IF op.op = "plan" THEN "plan" ELSE "recheck")
  /\ UNCHANGED <<op, todo, at, current, files, smoke, rest>>

CheckPlanEvidence ==
  /\ aiStep = "precheck"
  /\ IF IsDryRun THEN Stop
     ELSE GotoStep("evidence") /\ UNCHANGED <<op, todo, at, input, current>>
  /\ UNCHANGED <<files, smoke, rest>>

\* Slip: an overlay is as good as the evidence it was made from.
SlipMissing == {}
\* What the overlay names and the evidence of today does not show.
Missing == IF op.op = "overlay"
           THEN Refs(overlay[Head(todo)]) \ input.pass ELSE {}

CheckEvidence ==
  /\ aiStep = "recheck"
  /\ IF IsDryRun \/ input.pass = {} \/ Missing # {} THEN Stop
     ELSE /\ GotoStep("config")
          /\ at' = IF op.op = "scope" THEN second ELSE at
          /\ UNCHANGED <<op, todo, input, current>>
  /\ UNCHANGED <<files, smoke, rest>>

\* rankForProfile: whatever the scores, passing models, if there are any.
Ranked(pass) == {p \in SUBSET pass : p = {} <=> pass = {}}
\* buildPresetCandidatesForProfile: all of the preset's routes or none.
PresetRoutes(pass) == {p \in {Preset} : p \subseteq pass}

\* buildPlan; the plan is a new file.
SavePlan ==
  /\ aiStep = "plan"
  /\ \/ UNCHANGED profilePlan
     \/ /\ profilePlan = None
        /\ \E best \in IF op.preset THEN PresetRoutes(input.pass)
                       ELSE Ranked(input.pass) :
             profilePlan' = [routed |-> best, primaries |-> best,
                             valid |-> TRUE]
  /\ Stop
  /\ UNCHANGED <<results, tsv, overlay, config, saved, temps, smoke,
                 rest>>

\* profile-export: none of the files may be there before the first is made.
\* A death between the two files of "both" leaves what one target leaves.
Unused(targets) == \A t \in targets : overlay[t] = None
OverlayOf(p) == [routed |-> p.routed, primaries |-> p.primaries,
                 valid |-> TRUE]
Export(targets) ==
  /\ aiStep = "idle" /\ commands < MaxCommands
  /\ WellFormed(profilePlan) /\ Unused(targets)
  /\ commands' = commands + 1
  /\ overlay' = [t \in Targets |->
                   IF t \in targets THEN OverlayOf(profilePlan)
                   ELSE overlay[t]]
  /\ UNCHANGED <<results, tsv, profilePlan, config, saved, temps, command,
                 smoke, second, edits, proven, notesOwed>>

Target == Head(todo)

\* The settings are parsed; OpenCode's must have what is to be changed.
ReadConfig ==
  /\ aiStep = "config"
  /\ IF ~(Needs(Target) \subseteq config[Target].parts) THEN Stop
     ELSE /\ current' = config[Target]
          /\ GotoStep("backup")
          /\ UNCHANGED <<op, todo, at, input>>
  /\ UNCHANGED <<files, smoke, rest>>

BackupName == [of |-> Target, at |-> at,
               kind |-> IF op.op = "rollback" THEN "pre-rollback" ELSE "bak"]
NameTaken == \E b \in saved : [of |-> b.of, at |-> b.at, kind |-> b.kind]
                              = BackupName
Backup(content) == [of |-> Target, at |-> at, kind |-> BackupName.kind,
                    content |-> content]

\* Slip: the backup holds what was parsed, not what is there now.
SlipOriginal == IF op.op = "rollback" THEN config[Target] ELSE current
\* The settings are read a second time for the backup.
Original == config[Target]

\* writeFile with wx: a name of the same second is refused.
WriteBackup ==
  /\ aiStep = "backup"
  /\ IF NameTaken THEN Stop /\ UNCHANGED saved
     ELSE /\ saved' = saved \cup {Backup(Original)}
          /\ GotoStep("temp")
          /\ UNCHANGED <<op, todo, at, input, current>>
  /\ UNCHANGED <<results, tsv, profilePlan, overlay, config, temps, smoke,
                 rest>>

WriteTemp ==
  /\ aiStep = "temp"
  /\ IF BackupName \in temps THEN Stop /\ UNCHANGED temps
     ELSE /\ temps' = temps \cup {BackupName}
          /\ GotoStep("rename")
          /\ UNCHANGED <<op, todo, at, input, current>>
  /\ UNCHANGED <<results, tsv, profilePlan, overlay, config, saved, smoke,
                 rest>>

\* The rename, and on to the other target of the scope.
Rename ==
  /\ aiStep = "rename"
  /\ config' = [config EXCEPT ![Target] = Replacement(Target)]
  /\ temps' = temps \ {BackupName}
  /\ IF Len(todo) > 1
     THEN /\ todo' = Tail(todo) /\ GotoStep("config") /\ current' = None
          /\ UNCHANGED <<op, at, input>>
     ELSE Stop
  /\ UNCHANGED <<results, tsv, profilePlan, overlay, saved, smoke, rest>>

Die ==
  /\ aiStep # "idle" /\ Stop
  /\ UNCHANGED <<files, smoke, rest>>

-----------------------------------------------------------------------------
(* The smoke test of another terminal.                                      *)

SmokeRunning == probe.model # None \/ rows # {}

\* The next of the selected models, one child at a time.
StartProbe(m, status, local) ==
  /\ probe = NoProbe /\ rows = {} => commands < MaxCommands
  /\ probe = NoProbe
  /\ m \in Selected(status, local) \ {row.model : row \in rows}
  /\ probe' = [model |-> m, timer |-> "armed", timedOut |-> FALSE]
  /\ commands' = IF rows = {} THEN commands + 1 ELSE commands
  /\ UNCHANGED <<rows, files, command, second, edits, proven, notesOwed>>

\* The timer asks the child to end, a second one makes it end.
TimerFires ==
  /\ probe.timer \in {"armed", "term"}
  /\ probe' = [probe EXCEPT !.timedOut = TRUE,
                            !.timer = IF @ = "armed" THEN "term" ELSE "kill"]
  /\ UNCHANGED <<rows, files, command, rest>>

\* The child closes, before its timer or after it.
ProbeCloses(exitCode) ==
  /\ probe.model # None
  /\ probe.timer = "kill" => exitCode # 0
  /\ rows' = rows \cup {[model |-> probe.model,
                         status |-> StatusOf(probe.timedOut, exitCode)]}
  /\ proven' = IF exitCode = 0 /\ ~probe.timedOut
               THEN proven \cup {probe.model} ELSE proven
  /\ probe' = NoProbe
  /\ UNCHANGED <<files, command, second, commands, edits, notesOwed>>

\* The report is written when all are done, the pass list after it.
WriteReport ==
  /\ probe = NoProbe /\ rows # {} /\ results # rows
  /\ results' = rows
  /\ UNCHANGED <<tsv, profilePlan, overlay, config, saved, temps, command,
                 smoke, rest>>
WritePassList ==
  /\ probe = NoProbe /\ rows # {} /\ results = rows
  /\ tsv' = Passing(rows) /\ rows' = {}
  /\ UNCHANGED <<results, profilePlan, overlay, config, saved, temps,
                 command, probe, rest>>

\* smoke-test --dry-run probes nothing and says so in every row.
DryRunReport ==
  /\ ~SmokeRunning /\ commands < MaxCommands
  /\ commands' = commands + 1
  /\ results' = {[model |-> m, status |-> "dry_run"] : m \in Models}
  /\ tsv' = {}
  /\ UNCHANGED <<profilePlan, overlay, config, saved, temps, command,
                 smoke, second, edits, proven, notesOwed>>

-----------------------------------------------------------------------------
(* The user and the clock.                                                  *)

\* An edit between the backup and the rename is lost: nothing looks again.
InGap(t) == aiStep \in {"temp", "rename"} /\ Target = t
AiUserEdits(t, n) ==
  /\ edits < MaxEdits /\ n \notin config[t].notes
  /\ config' = [config EXCEPT ![t].notes = @ \cup {n}]
  /\ notesOwed' = [notesOwed EXCEPT ![t] = IF InGap(t) THEN @ ELSE @ \cup {n}]
  /\ edits' = edits + 1
  /\ UNCHANGED <<results, tsv, profilePlan, overlay, saved, temps, command,
                 smoke, second, commands, proven>>

Tick ==
  /\ second < LastSecond
  /\ second' = second + 1
  /\ UNCHANGED <<files, command, smoke, commands, edits, proven, notesOwed>>

Sources == {"report", "tsv"}
AiNext ==
  \/ \E targets \in {<<"pi">>, <<"opencode">>, <<"pi", "opencode">>},
        source \in Sources : ApplyScope(targets, source)
  \/ \E t \in Targets, source \in Sources : ApplyOverlay(t, source)
  \/ \E t \in Targets : Rollback(t)
  \/ \E source \in Sources, preset \in BOOLEAN : MakePlan(source, preset)
  \/ \E targets \in SUBSET Targets \ {{}} : Export(targets)
  \/ ReadEvidence \/ CheckEvidence \/ SavePlan
  \/ ReadConfig \/ WriteBackup \/ WriteTemp \/ Rename \/ Die
  \/ CheckPlanEvidence
  \/ \E m \in Models, status \in {"all", "failed"}, local \in BOOLEAN :
       StartProbe(m, status, local)
  \/ TimerFires \/ \E exitCode \in {0, 1} : ProbeCloses(exitCode)
  \/ WriteReport \/ WritePassList \/ DryRunReport
  \/ \E t \in Targets, n \in Notes : AiUserEdits(t, n)
  \/ Tick

AiSpec == AiInit /\ [][AiNext]_aiVars

-----------------------------------------------------------------------------

\* Nothing is enabled in Pi or routed in either runtime that no real probe
\* ever saw pass: not from a dry run, a timed-out probe, an overlay older than
\* the evidence, or a report that changes while it is read
\* (ai-provider-scope.ts:166-192, ai-provider-profile-apply.ts:252-266).
OnlyProven ==
  /\ config.pi.models \subseteq proven
  /\ \A t \in Targets : config[t].routes \subseteq proven

\* What a user wrote into a settings file is there or in a backup, through
\* any sequence of scopes, overlays, rollbacks and deaths
\* (ai-provider-scope.ts:218-236).
EditsKept ==
  \A t \in Targets :
    notesOwed[t] \subseteq config[t].notes
      \cup UNION {b.content.notes : b \in {x \in saved : x.of = t}}
=============================================================================
