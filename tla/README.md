# javi-forge: models, model checks and proofs

javi-forge is a command line tool that sets up and guards a project: it installs
hooks for several coding assistants and for git, runs a CI locally, installs
plugins and skills, and prepares a fixed set of files behind a one-time approval.
Most of its own logic is about one thing: changing files that belong to somebody
else, in several steps, any of which may fail, without losing anything and
without saying something untrue about the outcome. That is what these modules
are about.

All paths below are relative to the repository; line numbers refer to the commit
the modules were read from. `PROJECT.json` maps every definition to its lines.

## 1. Inventory

| Component | State | Operations | Talks to | Hard part |
|---|---|---|---|---|
| Secure file transaction (`lib/secure-fs-transaction.ts`, `lib/secure-fs-posix.ts`) | handles of the directory chain, staged temporaries, committed entries, captured prior bytes | `runTransaction`: gate the ancestors, create containers, capture, back up, stage, re-prove, rename, roll back, close | called by all five hook managers; the disk; other editors of the same files | partial failure at each of ~30 calls, replies that do not say whether the rename was done, edits during a rollback, crash |
| POSIX access proofs (`lib/secure-fs-posix.ts`) | none | ownership, mode, `getfacl` of one directory | the transaction | three sources that are read apart |
| Windows adapter (`lib/secure-fs-windows.ts`) | a helper process, a queue, two timers | request, reply, watchdog, close | the transaction, a PowerShell child | replies carry no numbers |
| Preparation (`commands/preparation.ts`, `lib/preparation-*.ts`) | `approvals/<nonce>.json`, `<nonce>.terminal`, snapshot directory, a worker's recorded identities | approve, revoke, execute | worker process by pipe; other executions by the disk | one use per approval among processes, revocation races, kill and clean-up by identity |
| Preparation worker (`assets/preparation-worker.c`) | directory and file descriptors | READY, wait for GO, mkdir, six files, DONE | the executor | dies between an effect and its report |
| Plugin replacement (`lib/plugin-replacement.ts`) | destination, per-call workspace with stage and backup | `publishPluginReplacement` | `installPlugin`, skill import, `removePlugin`, other processes | comparison and rename are two steps; a rename may throw after it was done |
| Plugin commands (`lib/plugin.ts`, `lib/auto-wire.ts`, `lib/agent-skills.ts`) | installed plugins, manifest, a section of CLAUDE.md, hooks in settings | add, import, remove, search, sync | plugin replacement, network, the skill gate, the user's edits | deadline racing an answer; somebody else's text around the markers; a wiring that throws unheard, a write cut short |
| CI run (`commands/ci.ts`, `lib/docker.ts`, `lib/git-diff.ts`) | memoised Docker probe and changed scope, volumes, outcomes, failures | `runCI`, `runRunner`, `runStep`, `runGates`, `runGateNative`, `collectGateOutcomes`, `ensureImage`, `runInContainer` | children, Docker, git | timers racing children; red and green must mean it; a daemon that hangs |
| CI hook installation (`commands/ci.ts:2320-3161`) | `.git/hooks/*`, their backups, `core.hooksPath` | `guardHooksPath`, `installCIHooks` | git, the user, another installer | detect-before-mutate migration, torn writes, edits in between |
| CI configuration and hook sections (`lib/ci-config.ts`, `commands/hooks.ts`) | `.javi-forge/ci.yaml` | validate, set a feature, resolve, run a hook | CI run, git | defaults in two places; one of several sections failing |
| Claude, Codex, Grok, Cursor and OpenCode hook managers | registration and second file of each agent | install, repair, doctor | the transaction, the agents' own trust | classification of what is there; trust bound to content and position |
| Skill guard hook | none | one decision per tool call | the assistant | bounds that must deny; exit code and body |
| AI provider profiles and scope | evidence, plan, overlay, settings of two runtimes, backups | smoke test, plan, export, apply, rollback | disk, children, the user | evidence older than what is applied; backup and rename without the transaction |
| AI provider bundles | provider files of two runtimes | export, convert | network | gaps and keys in two formats |
| Skills: gate, scan, automatic install | skill directories | scan, gate, copy | plugin commands | what is scanned against what is installed |
| Security commands | `.javi-forge/security-baseline.json` | baseline, check, update, allowlist | external audit tools, other shells | stale, torn or contended baseline |
| Bounded reads (`lib/safe-read.ts`) | none | read up to a budget | everything that reads a foreign file | a file that grows |
| Security analysis, skill analysis, scoring | none | heuristics on text | - | none (pure) |
| Skill publishing and export | copies | copy, write | disk | none promised |
| Init | generated files | fixed sequence of steps | most of the others | idempotence |
| Crash recovery, parallel batch, task tracker | snapshot, wave, list | save, resume; run; add, update | nothing: no command imports them | - |
| Workflow (`lib/workflow/*`) | none | parse, validate, render | - | none (pure) |
| Context, harness audit, doctor, CLI and UI | none of their own | read, report | - | - |

What makes the modelled components correct:

- transaction: success means everything, failure means nothing or a plain STOP;
  replaced bytes are recoverable at each instant; no edit of somebody else is
  taken away unnoticed;
- preparation: an approval starts at most one worker ever; a confirmed
  revocation stands; a denial that says "complete" left nothing behind;
- plugins: no version is lost, two successes never replace the same version, a
  failure says where the old version is; no plugin or folder of skills gets
  around the scan the gate makes of it; a sync keeps the user's text but in named
  windows, and wires what it says it wired;
- CI run: green and red agree with how the children really ended; each gate is
  reported once; the timed part ends; nothing stays in Docker by neglect; an
  image is what its label says;
- hooks of git and of the agents: bytes of the user survive in place or in a
  backup, a hook reported as installed runs, ok and runnable mean it;
- providers: nothing is enabled that no probe saw pass, no key of anybody
  travels in a bundle;
- guard, gate, baseline: allowed means clean, installed means scanned, passed
  means accepted.

The hazards behind these, each at its line, are in `PROJECT.json`.

## 2. Modules

| Module | Role |
|---|---|
| `SecureTransaction` | the engine, with an editor, lost proof and a crash |
| `AllOrNothing` | what its callers are promised |
| `SecureTransactionProofs` | inductive invariant, eleven properties, the step simulation of `AllOrNothing`, termination apart from fairness |
| `Preparation` | executions, revocations, workers, an operator |
| `PreparationProofs` | three inductive invariants, eight properties |
| `PluginReplacement` | installers and a removal on one directory |
| `PluginReplacementProofs` | inductive invariant, three properties |
| `CiRun` | one run, its child and the timers on it |
| `CiRunProofs` | inductive invariant, three properties |
| `HookInstall` | installers of the git hooks, and a user |
| `HookInstallProofs` | inductive invariant, four properties |
| `AgentHooks` | the five managers over the promise of the transaction, a user, a crash |
| `AiProviders` | evidence, plans, overlays, apply and rollback, a user, a second probe |
| `InstallsProofs` | of `AgentHooks` and `AiProviders`: two inductive invariants, five properties |
| `AiBundles` | export and conversion between two formats |
| `CiConfig` | the configuration: validate, set, resolve, run a git hook |
| `Containers` | image and container of one command, and the daemon |
| `SkillGuard` | one decision of the guard |
| `SkillGate` | add, import and automatic install behind the scan |
| `RegistrySearch` | a request, a deadline, a caller who cancels |
| `PluginSync` | syncs whose calls may fail or be cut short, and a user who edits between and during them |
| `SecurityBaseline` | commands of several shells on one baseline |
| `HelperSession` | callers, the session, the helper process |
| `HelperSessionProofs` | inductive invariant, three properties |
| `PosixAcl` | the proofs about one directory, and what the kernel would grant |
| `BoundedRead` | one read of a file that grows |
| `ServicesProofs` | of ten of the small components: an inductive invariant each, and its property |
| `MCWrites`, `MCInstalls`, `MCServices` | compositions: components side by side, one at work |
| other `MC...` | the instances TLC checks |

A definition called `Slip...` is a bug one could plausibly make in the
definition that follows it. `PROJECT.json` pairs each with the property that
fails when it is put in; the specifications do not use them.

### SecureTransaction

`plan` is the argument of `runTransaction`; `dir`, `target`, `temp`, `rtemp`,
`backup` are the disk; `held`, `created`, `captured`, `staged`, `identified`,
`committed`, `undo`, `errors` are the function's locals and result. One action
per awaited adapter call or group of calls between which nothing observable
happens: `OpenAncestor` … `ContainersDone` (lines 404-512), `Capture`,
`Backup*`, `Stage*` (514-573), `Recheck`, `PreRename`, `Rename*`, `PostRename`
(575-634), `Rollback*`, `CleanupTemp`, `RemoveCreated` (719-819), `Close`,
`Return`. Any call may refuse. `RenameUnknown` is `observeRename` with no
answer. Beside the engine: the editor changes a target once, a directory loses
its proof, and the process dies.

The refinement maps each component to a slot that is "before", "after" or
"theirs" and the phase to forward, backward, or one of three ends;
`ImplementsAllOrNothing` says every behaviour of the engine is one of
`AllOrNothing`, including that it ends.

### Preparation

A run is one execution of the command, with its worker; a revoker is one
`approval-revoke`. `terminal[n]` is the file whose exclusive creation settles who
uses the approval: "burnt" when the creation succeeded and the write after it
did not. The worker's lines travel through `pipe`; its death is an action of its
own at any time, and a kill lands later than it is sent. The destination's
directory and files carry the name of their maker, which is what inode identities
are compared for. The operator may touch the destination once, at any time.

### PluginReplacement

`disk` gives the thing at the destination and in each call's stage and backup
place. Each of the three moves (backup, promote, restore) is the same sequence
in the code and here: re-read source, re-read target, rename, read source, read
target; a rename throws or not, done or not, independently. Cleaning up and
removal are actions. A call that never takes another step is a crash.

### CiRun

`at` is the position in runners or gates, `child` the process the engine waits
for, with its place and timer. The child ends by any status; the timer fires,
then the grace timer kills. `ran` records how each command really ended, where,
and whether late; the properties compare it with what the engine concluded.
Docker answers are chosen when asked and memoised where the code memoises them.

### HookInstall

A slot holds what `classifyHookPath` makes of it, or "empty" after a truncation.
`linked`, `exec` and `inode` are link count above one, the mode and the file
identity a descriptor holds on to. `Unready`, `GuardSlot`, `ReadScopes`,
`ReadLocal`, `Unset` are the guard in its order; `Decline` and `Classify` are the
head of the loop; then `Repair`, or backup (`BackupRead`, `BackupTaken`,
`BackupFails`, `BackupWrite`) and write (`WriteOpen`, `WriteRefused`,
`WriteTruncate`, `WriteFill`, `WriteMode`, `WriteFails`). The user changes a hook
in place or replaces the file; a process dies anywhere.

### AgentHooks

A manager run reads two files, the registration (`settings.json`, `hooks.json`,
the plugin file) and the one beside it (guard, policy runtime, `config.toml`), in
either order (`Read`), classifies and plans both (`Decide`), captures (`Stage`),
renames one after the other (`Commit`) and answers (`Settle`: ok, or failed when
only the closing of handles failed). It may fail before, between or after the
renames (`CommitFails`), undo newest first and die or be refused within that
rollback, or die between two renames (`Dies`); `Torn` says what of the two files
may then be in place. These five are the transaction reduced to what
`AllOrNothing` promises. A registration is a sequence of groups: what our
handler in it is, whose others it carries, whether its matcher is ours; the
classifiers, planners and merge functions of the five managers are operators on
it, and so are the doctors with their exit codes. The user edits either file and
approves a Codex hook at any time. `owed` is what each file held outside a run.
`Shaped` says what a file may be: an absent, unreadable or broken one has no
groups, a group of the release's cohort is the release's alone, and bytes a
release wrote hold nothing of the user. `HooksAssumption` asks that of the files
found at first, and that only Claude's registrations hold groups of the cohort or
a part of them; everything later is what the managers and the user make of them.

### AiProviders

`op` is the command with its next call in `aiStep`; every call to the disk is an
action, so that death (`Die`) and an edit (`AiUserEdits`) fall between any two.
`results` and `tsv` are the evidence of the smoke test, whose child and timer are
`probe`; `profilePlan` and `overlay` the generated files; `saved` the backups by
their name, which carries the second they were made in (`Tick`). `proven` is what
some probe has really seen pass.

### CiConfig, Containers

`doc` is the configuration as far as the validators read it. `SetHookFeature`
writes one feature, `RunHook` and `RunSection` are `runHook` over its composed
sections, each of which comes across a problem, an error or nothing, and `Resolve`
is the choice of runners of `ci`. In `Containers` a run hashes the Dockerfile,
compares it with the label of the image, builds, hands the volume over and spawns
one command after the other; the daemon may stop answering (`Wedge`) and the
Dockerfile may change (`Edit`); `Limit`, `Stop` and `LastResort` are the kill
timer, its `docker stop` and the last resort.

### SkillGuard, SkillGate

`SkillGuard` follows `main`: the agent, the event in chunks (`Receive`), the
evaluation of its paths, then its commands peeled of wrappers and shells one at a
time (`Peel`) up to the bounds of the code.

`SkillGate` follows the three commands that install skills. `add` and `import`
have a tree: directories whose names may differ in case only, each with up to
`FileNames` spellings of its skill file, counted in the order in which
`declaredSkillFileOnDisk` looks for them. The walk (`Scan`) sees all of them for
links and for directories nobody declared, and reads one of each declared
directory (`Preferred`); then come the verdict (`Gate`) and the publication.
`auto` classifies, scans the SKILL.md at the root of each folder, judges, and
copies the folders one by one with what is below their roots.

### RegistrySearch, PluginSync, SecurityBaseline

`RegistrySearch` is `searchRegistry` with its two races.

`PluginSync` is `syncPlugins` in its reads and writes, over a page of pieces (texts
of the user, the two markers, the lines between) and the settings (absent, good,
unparsable, of a shape that throws, or an array). A text or a key is known by the
edit that wrote it. Each call may fail: a wiring that throws is noted in `wireErrors`
and the next one begins, and the result is given without them (`Over`). A write
empties the file first (`WirePage`, `WireSettings`) and then fills it, all of it or
a part (`FillPage`, `SaveSettings`); the process may die at any point. The user
writes anywhere in CLAUDE.md, between the markers too, cuts markers out, writes keys
into the settings, and adds and removes plugins, at any point of a sync.

`SecurityBaseline` is `runSecurity` in several shells: the
audit, the read of the baseline, the truncation and the write are steps of their
own; a shell may die between them and the file may be moved.

### HelperSession, PosixAcl, BoundedRead

`HelperSession` has the queue and timers of `createPs1Session` and two pipes; the
helper answers in order with any reply, stops answering, writes garbage or exits.
`PosixAcl` starts from every directory the rules of POSIX.1e allow, prints its
list as `getfacl` does, and compares the verdict of the code with who may really
write. `BoundedRead` reads chunk by chunk while the file grows or is replaced.

## 3. Runs

Passing runs:

| Run | Instance | Shows |
|---|---|---|
| `writes` | the transaction: 1 ancestor, 2 containers, 2 components, 2 backup names, all pairs of plans; syncs: one plugin with a skill and a hook, one with a hook only, 2 edits | transaction: success complete, failure restored, replacement backed up, nothing unreported, published in order, early edits kept; sync: the user's text stays but in named windows, hooks follow the plugins unless their wiring threw, the result is true |
| `transaction_promise` | the same topology, three plan pairs, one name | refinement of `AllOrNothing`, termination, and the measure behind it (`EveryStepSpends`) |
| `preparation` | 2 executions, 1 revocation, 2 approvals (shared or own), 1 file | single use, revocation, effects only after approval, whole results, only own files removed |
| `preparation_alone` | 1 execution, 1 revocation, all six files | complete clean-up at each of the six files; the protocol is kept; the execution returns, and the measure behind that |
| `plugin_replacement` | 3 installers (symmetric), 1 removal, stranger possible | nothing lost, no lost update, truthful outcomes |
| `ci_run` | all pairs of gates (blocking, changed, image, timed, two commands); 0 to 2 runners with each mode and switch | truthful answers, whole reports, timed work ends, and no run goes round in circles |
| `installs` | git hooks: 1 installer over all kinds of slot, scope, link, backup name and force, 2 installers meeting in one slot; agents: 2 runs and 1 step of the user over each agent's registrations; providers: 2 models, 2 commands, 1 edit | bytes and settings of the user survive, hooks run or say so, no half migration, verdicts hold, only proven models are enabled |
| `services` | each of the ten small components from all of its initial states | the properties of each |

`writes`, `installs` and `services` put components that share no state side by side: one is
at work, the others stay in one state, so their state spaces add up and do not
multiply. Their properties, and some of the other runs', are conjunctions of named
properties, which the modules of the components define and
comment on:

| Property | Parts |
|---|---|
| `ImplementsAllOrNothing` | the specification `AllOrNothing`, `Terminates` (SecureTransaction) |
| `ExecutionsEnd` | `EachStepSpends`, `Returns` (Preparation) |
| `RunsEnd` | `EveryStepSpends`, `TimedWorkEnds` (CiRun) |
| `HooksRunOrSaySo` | `TypeOK`, `InstalledHooksRun`, `TornIsReported` (HookInstall) |
| `VerdictsHold` | `AgentTypeOK`, `OkIsCurrent`, `RunnableFires` (AgentHooks) |
| `OutcomeIsTrue` | `TypeOK`, `SuccessIsPublished`, `FailureIsRecoverable`, `CompleteMeansClean` (PluginReplacement) |
| `AnswerIsTrue`, `ReportIsWhole` | `TypeOK`, `GreenMeansGreen`, `RedHasACause`; `EveryGateReported`, `OneAnswerPerRun`, `NoVolumeForgotten` (CiRun) |
| `ConversionIsFaithful` | `NoLiteralKey`, `LimitsSurvive` (AiBundles) |
| `SessionServes` | `OwnAnswer`, `IdleSparesWork` (HelperSession) |
| `ConfigHolds` | `OneFeatureOnly`, and `ConfigDecides`: `ZeroIffPassed`, `AlwaysSomethingToRun` (CiConfig) |
| `WorkEnds` | `Settles` (HelperSession), `LimitedRunEnds` (Containers), `SearchEnds` (RegistrySearch) |
| `AclIsHonest` | `ProvenIsPrivate`, `LenientIsExact` |
| `CutsAreHonest` | `UncutIsWhole`, `CutBetweenCharacters` |
| `ContainerIsHonest` | `ImageIsCurrent`, `FlagIsHonest`, `VolumeIsOurs` |
| `DecisionIsSafe` | `AllowedIsClean`, `NothingHidden`, `CodeAndBodyAgree` |
| `GateHolds` | `InstalledWasScanned`, `OneRefusedNoneCopied` |
| `SyncKeeps` | `TextStays`, `HooksFollowPlugins`, `ToldIsWired` |
| `BaselineHolds` | `PassIsAccepted`, `AllowedStay` |

Why the bounds are enough. Transaction: the components interact through order
only (commit in order, roll back in reverse), so two show an order and one in the
middle of being undone; two containers give a parent and a child. Two backup
names give "first refused, second used" and "all refused". Preparation: an
approval is contended by pairs; with two executions and a revocation every pair
meets; one file suffices where the destination is contended and all six are
tried where it is not. Plugins: three installers let a third come between two
that collided. CI: gates influence each other through the probe, the scope and
the failure list, so pairs cover it. Git hooks: slots are handled one after the
other and influence each other only in the guard, so two suffice; the second
candidate name stands for all further ones. Agents: a run depends on an earlier
one through the two files only, so a second run with the user's step before,
between or during sees what the first left (`MaxRuns`, `MaxUserSteps`).
Providers: two models make one proven and one not, two commands an apply and its
rollback (`MaxCommands`, `MaxEdits`, `LastSecond`). Sessions and baselines are
contended by pairs (`Callers`, `Shells`), the second command over what the first
left (`MaxAudits`). Containers: a second phase shows what is remembered of the
first (`Phases`). Guard: one hop or depth more than the bounds of the model, which
stand for those of the code (`InputLimit`, `MaxHops`, `MaxDepth`). Reads: budgets
below, at and above a chunk (`Budgets`, `Chunk`, `Sniff`, `Largest`). Skills:
three spellings give each rank of the order the scan looks in, and three names a
directory, its twin and another. Sync: two edits meet before, in and after a sync
(`MaxSyncEdits`), and a sync starts with any page of five pieces, which is a section
and two texts of the user's, or what is left of sections that lost a marker or were cut
short (`MaxPage`; `sync_again` takes six); the two plugins give a hook that stays
when another one goes. TLC counts every
reachable state of these instances; none of the runs uses a state constraint, and
the only symmetry set is the installers of `PluginReplacement`, which has no
liveness property. Deadlock is not checked since each of these programs ends.

Runs that are expected to fail, each with a statement of the repository's own
documentation that the code does not keep:

| Run | Statement | What happens |
|---|---|---|
| `ci_late_step` | a timeout surfaces non-zero; any failure aborts | a container step that ends with 0 after its timeout passes |
| `codex_trust` | the doctor detects a missing trust entry | it asks for the trust of position 0; ours comes after a hook of the user's own, whose trust it takes for ours |
| `cursor_rollback` | a transaction that fails puts back what it found | a `hooks.json` without a handler of ours is taken for absent and deleted by the rollback |
| `sync_again` | "re-running produces the same result" | with an end marker in front of the start marker (the user cut the start of an older section) each sync copies what is between the two once more |

Seen in the code while modelling, and kept out of the properties by the
exceptions their comments name: a rollback re-reads, compares and renames in
separate steps (`secure-fs-transaction.ts:778`, against its own header); with
nothing committed yet it cleans up without asking for the proof again (`:800`,
against the skillguard specifications); a temporary is on disk before it is
registered (`:550`); a target is renamed over without being compared with what
was captured (`:613`); the early check of the preparation takes a symbolic link
for nothing (`preparation-execute.ts:36`) and its finally block may replace the
result (`preparation-executor.ts:510`); `removePlugin` takes no identity
(`plugin.ts:307`); a native runner step has no limit (`ci.ts:1385`) and a
timed-out native gate kills its shell only (`ci.ts:1612`); a slot is declined
after the old hook path was unset (`ci.ts:3036`); an unreadable Codex
configuration is replaced as if absent (`codex-hook-manager.ts:694`); Cursor's
unreadable or edited file is replaced without `--force`; hooks of the last removed
plugin stay wired (`auto-wire.ts:237`); a sync says it is done although a wiring
threw (`plugin.ts:541`), its write empties CLAUDE.md before it fills it
(`auto-wire.ts:197`), what the user writes between the markers goes at the next one
(`:306`), and settings that are an array lose the hooks (`:283`); of SKILL.md and
skill.md in one declared directory the scan reads the first and the second is
installed unread (`skill-scanner.ts:816`), although the walk says of any case fold
that "the file is scanned" (`:718`); automatic install reads no skill file below the
root of a folder it copies (`auto-skill-install.ts:142`); an audit cut off by its limit counts as
empty (`security.ts:424`); a reply of the Windows helper with `ok` but no value
raises the count of handles for good (`secure-fs-windows.ts:247`).

## 4. Fairness

- `SecureTransaction`: weak fairness of the engine's step. It is one async
  function; each await settles. No fairness of editor, lost proof, crash.
- `Preparation`: weak fairness of an execution once it has started, its
  timers included, and of a SIGKILL landing. A worker may stall anywhere; nothing
  is assumed of it, the operator or a revocation.
- `CiRun`: weak fairness of the engine, of the timer, of the grace timer and of
  a killed child ending. A running child may run for ever and may ignore the
  first signal; so only timed work is claimed to end.
- `AllOrNothing`: weak fairness of ending, which the engine's fairness implements.
- `services`: weak fairness of the session's deadline (`OpTimeout`), of what the
  host of a container does by itself (`BoxHost`: timers, the attempt to stop, the
  close event) and of what a search does by itself (`SearchHost`). These are
  Node's timers and microtasks. The helper, the daemon, the registry and every
  user may stay silent for ever.
- `PluginReplacement`, `installs`: none; a call may stop anywhere.

## 5. Proofs

Proved by tlapm for every value of the constants under the named assumptions. In
each module the property is not inductive by itself; what follows names the
conjuncts of the invariant that is, and why they are needed. Every inductive
invariant was first checked as an invariant of the run of its component.

**SecureTransactionProofs**, from `LayoutAssumption` (at least one ancestor,
ancestors before containers, each component has a container as its home). That a
STOP-free failure restored everything depends on what was captured, what was
committed and what is still to undo at each point of the rollback. `IInv` is the
conjunction of `TypeOK` and

- `Located`: the point of the engine against `cur`, `errors` and `committed`;
- `Ledger`: `staged`, `identified`, `committed`, `undo` at each point;
- `Temporaries`: what a staged or identified temporary holds;
- `Captures`: what was read before staging is what was there before, unless the
  editor came first, and a forced component that is identified has it in its
  backup;
- `Targets`: new bytes are committed or covered by a STOP; a target nobody edited
  holds the new bytes while committed, and what it held before when it is not
  committed or has been undone;
- `UndoOne`: the component being undone is absent-before or captured, and at the
  path is what was committed unless a late edit is.

One lemma per group of actions, by what they touch. From it: `TypeCorrect`,
`SuccessMeansComplete`, `FailureMeansRestored`, `ReplacementIsBackedUp`,
`StagedBeforeRename`, `EverythingReported`, `TempsRemoved`, and the action
properties `StopIsFinal`, `OnlyLateEditsAreLost` and `EveryCallSpends` (below).

`PromiseIsKept` is the safety half of the refinement, `Spec => Promise!Init /\
[][Promise!Next]_(Promise!vars)`: the initial states map to initial states of
`AllOrNothing`, and each action of the engine, the editor, the lost proof and the
crash to one of its steps or to none. It needs `Ordered` besides: the commit goes on with
the least component staged and the rollback with the greatest committed, which is
the order of the promise. Steps that touch no target are one lemma (`QuietStep`), a rename, an undoing and each of
the three ends have lemmas of their own. `AssetBeforeSettings` goes through that
refinement: that no later component is ever in place without the earlier ones is
proved of `AllOrNothing` (`PromiseIsInOrder`), where it is an induction over four
small steps, and the mapping carries it over to the engine.

**Measures.** For three components the part of termination that needs no fairness
is proved: a lexicographic measure of natural numbers, which each step lowers.
Which part of a run the engine is in (`Chapter`) comes first, so that what a new
part has to do may be as much as it likes.

| Theorem | Measure | Lowered by | Left alone or lowered by |
|---|---|---|---|
| `EveryCallSpends` (SecureTransaction) | `Chapter`, `Left` (directories, components, what is staged, to undo, created or held), `Due` (the calls left for this one, backup names included) | each call of the engine | editor, lost proof; the crash ends it |
| `NothingGoesRound` (Preparation) | `Chapter`, `WorkLeft` (the worker's points and files), `Rest` (lines to read, or files to inspect or remove) | each step of an execution, its worker, the kill, the crash | other executions, revocations, the operator |
| `RunsShrink` (CiRun) | `Chapter`, `JobsLeft`, `CommandsLeft`, `Patience` (the states of a child and its timers) | each step of the engine, a child, its timers | nothing else moves |

`RunsAreFinite` adds that the order is well-founded and that a call goes down in
it: no run of the transaction makes infinitely many calls. The other two orders are
of the same kind. What remains for `Terminates`, `Returns` and `TimedWorkEnds` is
that a run with something left can take a step and does: `ENABLED` and fairness,
which TLC checks. The action properties also find what the liveness properties
would forgive, a retry that is not counted but is cut off by something else.

**PreparationProofs**, from `PreparationAssumption` (at least one file; makers are
distinct from the markers of an absent file or link; executions and revocations
are different processes). The first invariant, `IInv`, is about approvals:

- `Types`: the types the proof needs;
- `SingleUse` itself;
- `Revoked`: a reported revocation owns the terminal;
- `Held`: a worker past its wait was let go, and so (`SingleUse`) its approval is
  consumed;
- `Made`: a run's file or directory exists only after its worker was let go;
- `Stages`: there is no worker before the spawn and no live one from the clean-up
  on, and a result exists only after the return;
- `Placed`: files exist in a directory only, and a worker that creates them opened
  one;
- `DeniedLeavesNothing` itself.

From it: `OneWorkerPerApproval`, `RevocationStands`, `NothingBeforeApproval`,
`CleanUpIsComplete`.

The second, `Kept`, builds on it and is about the destination that executions
contend for: `ToldOf` (what is in a pipe is what its worker opened), `Fresh` and
`OwnDir` (a directory is made once; a worker nobody caught between its mkdir and
its open opened its own), `Compared`, `Emptied`, `Removing` (what the clean-up
compared before it removes), `Apart` (two clean-ups never hold one file at once),
`Undisturbed` and `Inspected` (without an operator, nobody is caught and the set is
whole as far as it was inspected). From it: `PreparedStaysWhole` and
`OthersAreSpared`. Looking for this invariant showed what two executions cannot:
with a third, a clean-up's rmdir may come between another run's check and its use,
as the operator's move may; the history variable `window` records both, and
`RemovesOnlyItsOwn` excepts the run so caught.

The third, `Bounded`, is about the protocol: how many lines a worker has printed by
each of its points (`Said`) bounds what is in its pipe. With the other two it gives
`TypeCorrect` (at most the three lines, one per file and DONE) and
`NothingGoesRound`. All are for any number of executions, revocations and files.

**PluginReplacementProofs**, from `PluginAssumption` (an installer is not one of
the other things and not a removal), for any number of both. `Accounted`: whatever
was published is somewhere or was taken away, and what a clean-up erased is nowhere
and was the prior version of an installer that published its own. `Workspace` and
`Steps` say per installer what its stage and backup hold at each point: the stage
its own version until that is published, the backup what it replaces once it goes
on to promote. `Alone`: only one installer holds a version as its backup and
promotes, since an identity is in one place only (`TypeOK`). `Outcomes` ties the
result to these. One lemma per group of steps; a move that was judged "applied" is
reduced to what was read back of it. From it: `NeverLost`, `OutcomesAreTrue`,
`UpdatesAreNotLost`.

**HookInstallProofs**, from `HookAssumption` (there is a slot and a backup name,
scenes are records of the stated shape), for any number of installers, slots and
names. Per installer (`Local`): `Course` (what of the guard lies behind it),
`Found` (the guard found every foreign hook that was asleep), `Judging` (between
classification and write the user's bytes are in hand or in a backup), `Writes`
(the descriptor is that of the file in the slot unless a user replaced it),
`Reported`. Of the repository: `Preserved` (the user's bytes are in the slot or
saved), `Torn` (an emptied hook has somebody who will fill it, or is reported),
`Migrated` (the old path is gone only if nothing was asleep, or by force). What
the steps of one installer leave of the others is a lemma of its own (`Shared`,
`Others`), so that each action is proved for its own installer only. From it:
`HooksKeepShape` (`TypeOK`), `UserBytesAreKept`, `MigrationIsWhole`,
`ReportsAreTrue`.

**CiRunProofs**, from `PlansAssumption` (a plan is a record of the stated shape),
for any number of runners, commands and gates. `Stage` and `Waiting` say where the
run is against its plan and its child, `Runners` that what it has passed went well,
`Volumes` that what is in Docker is on the list of what is to be removed, `Reports`
that a gate behind the run was told of truly and in order (`Told`), `History` that
the commands on record are those behind, `Open` what is known of the gate in
progress, `Verdict` that the answer is that of the report. From it:
`AnswersAreTrue`, `ReportsAreWhole`, `RunsShrink`.

**HelperSessionProofs**, from no assumption, for any number of callers. That a
frame without a number answers the right request follows from how far the session
and the helper are at each moment: `Handshaking` (nothing is at the helper before
its handshake) and `Serving` (of the queue only the first request is out, and
either it is at the helper or its reply is on the way back). `Queued` says that
whoever waits has exactly one request in the queue, `Counted` that the session's
count of handles is the number of callers with one to give back, `Idles` that the
watchdog is armed only with an empty queue and no holder, `Silent` that a dead
session keeps nobody waiting. From it: `SessionIsSound` (its halves are
`AnswersAreOwn` and `WatchdogSparesWork`) and `NobodyWaitsUntimed` (the safety half
of `Settles`; that a deadline is met is fairness).

**InstallsProofs**, about the two components that share files with the user.

Of `AgentHooks`, from `HooksAssumption` (above), for any registrations, any
surroundings and any number of runs and steps of the user, `HooksInv`:

- `Shapes`: files stay `Shaped`, whoever writes them;
- `RunPhase`: the plan is the one for what was read, and is committed in order;
- `Held`: what is owed to the user is in what was read, planned and captured, or
  in a backup, so that neither a commit nor a rollback drops it;
- `Undisturbed`: a run nobody disturbs finds what it read and leaves what it
  planned, so that the doctor's view after an "ok" is that of the plan;
- `InSync`: a Codex approval is of the hook that stands at its position, also
  while a registration is half way.

The work is in the planners: one lemma per manager (`ClaudePlans`, `CodexPlans`,
`CursorPlans`, `GrokPlans`, `AssetPlans`, `ConfigPlans`) says that a plan keeps
exactly what is current, that what it writes is current and would be kept next
time, and that it drops nothing of the user that no backup has. They rest on
`RankIsOnto` and `OnlyTakes`, about the selection of groups in their order. Then
one lemma per action. From it: `HooksAreTyped` (which says too that only bytes that
were planned are renamed into place), `UsersFilesAreKept`, `VerdictsAreTrue`.

Of `AiProviders`, from `ProvidersAssumption` (each model has a provider, "none" is
not a model or a note), `AiInv`: `Course`; `Evident` (evidence, wherever it stands,
is of real probes); `Sound` (settings, backups and what a command has in hand route
nothing that was never proven); `Owed` (from the backup to the rename what is owed
is in the backup). From it: `NothingUnprovenIsRouted`, `NotesAreKept`.

**ServicesProofs**, ten components and one invariant for each:

| Theorem | From | Because |
|---|---|---|
| `BundlesAreFaithful` | `LimitsAssumption`: naturals, positive defaults | `BundleInv`: the key of a bundled entry is one the export may write, limits of both formats mean the same |
| `ResultsAreHonest` | nothing | `Imaged`: the hash is that of the file until the build ends and a label tells what its image was built of; `BoxQuiet`: nothing runs but under a command; `Flagged`: what stopped a command raised the flag first; `Handed`: the volume is handed over before the spawn |
| `BaselineIsHonest` | nothing; any number of shells | `Accepted`: whatever is in the file or on its way there, some saving command was given; `Kept` (while commands do not meet): the allowlist is in the file or with the one command about to write it |
| `CancelsAreTold` | nothing | `SearchInv`: a race is won only while an await is raced |
| `NothingPassesUnread` | `GateAssumption`: finitely many directories, at least one spelling of the file | `GateInv`: from the scan on, what is allowed was walked and judged; one spelling answers to the name of a directory (`OneSpelling`), and of the files in it the preferred one was read (`PreferredIsIn`, which takes the least of a set of naturals by well-foundedness). A second spelling in one directory and the files below a copied root are outside the statement |
| `SyncKeepsItsOwn` | `SyncAssumption`: bounds are naturals, a torn manifest is no list of plugins | `SyncInv`: what was written and not lost in a window is in the files, or in the process while it rewrites one (`NoneLost`, `Home`); what is told of the page and the hooks is there (`PageTold`, `HooksTold`); what was read of the settings has the hooks of the file or none (`HooksRead`). For any page, whichever call fails and wherever a sync dies; the windows are those `TextStays` names |
| `AclProofsAreHonest` | nothing | `AclInv`: the printed list tells the directory's entries and shows its mask |
| `ReadsAreHonest` | `ReadAssumption`: budgets are naturals, a chunk is positive | `ReadInv`: what was read is a beginning of the file, which is made of whole characters; a cut ends at one of them |
| `ConfigIsSound` | nothing | `ConfigInv`: the outcome on record follows from what each section came across (`Turns`) |
| `GuardDecidesSafely` | `GuardAssumption`: bounds are naturals | `GuardInv`: of the commands of the event those behind were harmless, what is left of the others is on the list (`Seen`) |

Only model-checked: liveness (`Terminates`, `Returns`, `TimedWorkEnds`,
`WorkEnds`, and the liveness half of `ImplementsAllOrNothing`), as fairness and
`ENABLED` are out of the prover's reach; the measures above are their safety half,
and `NobodyWaitsUntimed` that of `Settles`. `HelperSession`, `Containers` and
`RegistrySearch` serve one request after another and have no such measure; theirs
would be one of a single request. Every invariant of a passing run is a theorem,
and so is every action property, with those that are parts of another (`ExecutionsEnd`,
`RunsEnd`, `VerdictsHold`). Proved without a run of their own: `StagedBeforeRename`,
`TempsRemoved`, `StopIsFinal`, `NobodyWaitsUntimed` and `TypeCorrect`, which concern
states inside an execution.

## 6. What is left out of the modelled components

- An identity (device, inode) is taken as not reused while it is remembered.
- `fs.move` across file systems copies; the rename of `PluginReplacement` is the
  same-file-system one, which its workspace beside the destination gives.
- The expiry of an approval is one of the reasons a verification may refuse.
- The snapshot directory of the executor; the descriptor's parsing and digests.
- A hostile process of the same user is outside the documented boundary; the
  editor, operator and user of the models are ordinary ones.
- `CiRun`: the github-parity path; processes a killed shell leaves running.
- `Containers`: the name of an image is shared between projects and its label
  knows nothing of the Java version or the context; the model has one project.
- `HookInstall`: the three higher scopes are one ("shadow"), each candidate name
  after the first is one, and the calls agree on it although real names carry a
  time; notes and messages. A backup written in part is "empty", one cut
  short by death is not told from one not begun.
- `AgentHooks`: what a manager cannot read as text (`Hidden`), an approval given
  during a run, and Cursor's own handler once edited are outside `OthersKept`.
- `SkillGuard`: the lexer, base64 and environment arguments, PowerShell; the host
  runs the tool when the guard itself cannot be started.
- `SkillGate`: a source that changes between scan and copy; the
  patterns of the scanner. Modelled, but excepted by name from what is promised: a
  second spelling of the skill file in one directory,
  and skill files below the root of a folder `auto` copies.
- `PluginSync`: blank lines around the section, and duplicates in the list of hooks,
  which is the program's own. `TextStays` excepts what was written between a sync's
  read and its write, what stood between the first start and the first end marker,
  what a write cut short did not reach, and the keys of settings that could not be
  read or parsed; `HooksFollowPlugins` excepts settings that are an array and a
  wiring that threw.

Components that are not modelled at all are in `PROJECT.json` with the reason:
pure functions on text or data, presentation, or code that no command uses.

## 7. Plan

1. Proofs: that a container command with a limit always has a timer armed (the
   safety half of `LimitedRunEnds`); that the five steps of `AgentHooks` which
   stand for the transaction do what `AllOrNothing` promises.
2. `AgentHooks` over `SecureTransaction` itself instead of its promise.
3. The git calls behind the changed scope (`lib/git-diff.ts`), composed with
   `CiRun`, and the github-parity path.
4. Publishing and export of skills, if their failure is ever documented.
