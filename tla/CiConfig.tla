------------------------------- MODULE CiConfig -------------------------------
(***************************************************************************)
(* .javi-forge/ci.yaml: validated as a whole, changed one hook feature at  *)
(* a time, and read by the git hooks, which run the sections it turns on,  *)
(* and by ci, which resolves its runners from it (ci-config.ts, hooks.ts   *)
(* with its sections, ci-validate.ts, git-diff.ts and the resolution of    *)
(* commands/ci.ts).                                                        *)
(***************************************************************************)
EXTENDS Integers, Sequences, SequencesExt

Hooks == {"pre-commit", "pre-push"}
\* PRE_COMMIT_ORDER, PRE_PUSH_ORDER: cheap sections first.
SectionOrder(name) == IF name = "pre-commit"
                      THEN <<"secrets", "permissions", "tdd", "ci">>
                      ELSE <<"deps", "tdd", "ci">>
Features(name) == ToSet(SectionOrder(name))
Feature == UNION {{h} \X Features(h) : h \in Hooks}
Settings(f) == {"on", "off"} \cup
               (IF f = <<"pre-push", "tdd">> THEN {"strict", "warn"} ELSE {})

VARIABLES
  doc,      \* the text of the file, as far as it is read
  changed,  \* the feature the last command wrote, or none
  hook,     \* the hook that runs: its name, the features it loaded, the
             \* sections left and its exit
  outcome,  \* history: what each section of that hook came across
  resolved  \* what ci resolved last

configVars == <<doc, changed, hook, outcome, resolved>>

NoFeature == <<"none", "none">>
NoOutcome == [s \in UNION {Features(h) : h \in Hooks} |-> <<"unseen">>]
NotResolved == [source |-> "none", runners |-> <<>>, gates |-> FALSE]

-----------------------------------------------------------------------------

\* An entry of a list: its name or id, whether every other field is spelled
\* as it may be (images, users, directories inside the project, commands,
\* modes, scopes, timeouts), and whether it names an image and a build context.
Entry(name) == [name |-> name, sound |-> TRUE, image |-> FALSE,
                context |-> FALSE]
Absent == [kind |-> "absent", entries |-> <<>>]
Mapping == [kind |-> "mapping", entries |-> <<>>]
List(entries) == [kind |-> "list", entries |-> entries]
\* The lists tried: none, not a list, empty, valid, and every refusal.
Lists == {Absent, Mapping, List(<<>>),
          List(<<Entry("a")>>), List(<<Entry("a"), Entry("b")>>),
          List(<<Entry("a"), Entry("a")>>),
          List(<<[Entry("a") EXCEPT !.sound = FALSE]>>),
          List(<<[Entry("a") EXCEPT !.image = TRUE, !.context = TRUE]>>)}
Unset == [f \in Feature |-> "unset"]
NewDoc == [yaml |-> "mapping", version |-> 2, unknown |-> FALSE,
           runners |-> Absent, gates |-> Absent, hooks |-> "absent",
           set |-> Unset]

\* validateHooks: every feature is spelled as it may be.
FeaturesValid(d) ==
  \A f \in Feature : d.set[f] \in {"unset"} \cup Settings(f)
RunnerValid(e) == e.sound /\ ~(e.image /\ e.context)
GateValid(e) == e.sound
Distinct(entries) == \A i, j \in DOMAIN entries :
                       entries[i].name = entries[j].name => i = j
RunnersValid(d) == /\ \A i \in DOMAIN d.runners.entries :
                         RunnerValid(d.runners.entries[i])
                   /\ Distinct(d.runners.entries)
GatesValid(d) == \/ d.gates = Absent
                 \/ /\ d.gates.entries # <<>>
                    /\ \A i \in DOMAIN d.gates.entries :
                         GateValid(d.gates.entries[i])
                    /\ Distinct(d.gates.entries)
\* parseCIConfig: one problem anywhere, and there is no config. Version 2
\* asks for runners only if it has neither gates nor hooks.
ValidDoc(d) ==
  /\ d.yaml = "mapping"
  /\ d.version \in {1, 2}
  /\ ~d.unknown
  /\ d.version = 1 => d.gates = Absent /\ d.hooks = "absent"
  /\ \/ d.runners.entries # <<>>
     \/ d.version = 2 /\ (d.gates # Absent \/ d.hooks # "absent")
  /\ RunnersValid(d) /\ GatesValid(d)
  /\ d.hooks # "scalar"
  /\ d.hooks = "mapping" => FeaturesValid(d)

\* DEFAULT_HOOKS, for a file without hooks or no file at all.
DefaultHooks == [f \in Feature |-> IF f[2] = "ci" THEN "on" ELSE "off"]
\* Slip: hooks that are in the file have no feature on by themselves.
SlipDefaulted(d) ==
  [f \in Feature |-> IF d.set[f] # "unset" THEN d.set[f] ELSE "off"]
\* validateBoolFeature, validatePushTdd: ci is on unless it is turned off.
Defaulted(d) ==
  [f \in Feature |-> IF d.set[f] # "unset" THEN d.set[f]
                     ELSE IF f[2] = "ci" THEN "on" ELSE "off"]
\* loadHooksConfig.
HooksOf(d) ==
  IF d.yaml = "absent" \/ d.hooks = "absent" THEN DefaultHooks
  ELSE Defaulted(d)
Loads(d) == d.yaml = "absent" \/ ValidDoc(d)

NoHook == [name |-> "none", loaded |-> TRUE, on |-> DefaultHooks,
           left |-> {}, exit |-> "none"]

\* featureState, composeSections.
Enabled(on, name, s) == on[<<name, s>>] # "off"
\* Slip: a strict section blocks, one that is merely on does not.
SlipBlocking(on, name, s) == on[<<name, s>>] = "strict" \/ s = "ci"
Blocking(on, name, s) == on[<<name, s>>] # "warn"
Composed(on, name) == {s \in Features(name) : Enabled(on, name, s)}
\* The section of those left whose turn it is: the first in the order.
IsNext(s, name, left) ==
  \E i \in DOMAIN SectionOrder(name) :
    /\ SectionOrder(name)[i] = s /\ s \in left
    /\ \A j \in 1..(i - 1) : SectionOrder(name)[j] \notin left

-----------------------------------------------------------------------------

\* setHookFeature, as tdd and init's security step call it: the document is
\* made if there is none, moved to version 2, and otherwise kept.
SetHookFeature(f) ==
  /\ changed = NoFeature
  /\ doc.yaml \in {"absent", "mapping"}
  /\ doc.hooks # "scalar"
  /\ changed' = f
  /\ \E value \in Settings(f) \ {"off"} :
       LET d == IF doc.yaml = "absent" THEN NewDoc ELSE doc
       IN doc' = [d EXCEPT !.version = 2, !.hooks = "mapping",
                           !.set[f] = value]
  /\ UNCHANGED <<hook, outcome, resolved>>
\* A document that does not parse, or whose hooks are no mapping, is left.
SetRefused == /\ doc.yaml \in {"broken", "scalar"} \/ doc.hooks = "scalar"
              /\ UNCHANGED configVars

\* runHook: an unknown name or a config that does not load exits 1.
RunHook(name) ==
  /\ hook.name = "none" /\ resolved = NotResolved
  /\ hook' = IF name \in Hooks /\ Loads(doc)
             THEN [NoHook EXCEPT !.name = name, !.on = HooksOf(doc),
                     !.left = Composed(HooksOf(doc), name)]
             ELSE [NoHook EXCEPT !.name = name, !.loaded = FALSE, !.exit = "1"]
  /\ UNCHANGED <<doc, changed, outcome, resolved>>

\* What a section can come across, call by call. secretsSection reads the
\* staged diff in batches, permissionsSection the staged files one by one;
\* both stop at the first call that fails.
Staged == UNION {[1..n -> {"clean", "problem"}] : n \in 0..2}
StagedCalls == Staged \cup {Append(seen, "error") : seen \in Staged}
\* depsSection: nothing to audit, or the one auditor of the manifest, whose
\* absence is no failure.
AuditCalls == {<<>>, <<"no-tool">>, <<"clean">>, <<"problem">>, <<"error">>}
\* tddSection: a stack without a test command is no failure.
TestCalls == {<<"no-tool">>, <<"clean">>, <<"problem">>, <<"error">>}
\* ciSection: runCI returns, or rejects.
CiCalls == {<<"clean">>, <<"problem">>}
Calls(s) == IF s \in {"secrets", "permissions"} THEN StagedCalls
            ELSE IF s = "deps" THEN AuditCalls
            ELSE IF s = "tdd" THEN TestCalls
            ELSE CiCalls
\* None of them lets an error out.
SectionOk(calls) == ToSet(calls) \subseteq {"clean", "no-tool"}

\* The sections in order, up to the first blocking one that fails.
RunSection ==
  /\ hook.name # "none" /\ hook.exit = "none"
  /\ \E s \in hook.left : \E calls \in Calls(s) :
       /\ IsNext(s, hook.name, hook.left)
       /\ outcome' = [outcome EXCEPT ![s] = calls]
       /\ hook' = IF SectionOk(calls) \/ ~Blocking(hook.on, hook.name, s)
                  THEN [hook EXCEPT !.left = @ \ {s}]
                  ELSE [hook EXCEPT !.exit = "1"]
  /\ UNCHANGED <<doc, changed, resolved>>
PassHook == /\ hook.name # "none" /\ hook.exit = "none" /\ hook.left = {}
            /\ hook' = [hook EXCEPT !.exit = "0"]
            /\ UNCHANGED <<doc, changed, outcome, resolved>>

-----------------------------------------------------------------------------

\* detectCIStack: the first marker of the list decides, node if there is none.
Stacks == <<"java-gradle", "java-maven", "node", "go", "rust", "python">>
MarkerOf == [s \in ToSet(Stacks) |->
  CASE s = "java-gradle" -> "gradle" [] s = "java-maven" -> "maven"
    [] s = "node" -> "package" [] s = "go" -> "go"
    [] s = "rust" -> "cargo" [] s = "python" -> "pyproject"]
Detected(markers) ==
  LET found == SelectSeq(Stacks, LAMBDA s : MarkerOf[s] \in markers)
  IN IF found = <<>> THEN "node" ELSE found[1]
\* buildCICommands: the phases that have a command; those of node are the
\* scripts of package.json, here all of them.
Commands(stack, markers) ==
  CASE stack = "node" /\ "package" \notin markers -> {}
    [] stack = "python" -> {"lint", "test"}
    [] OTHER -> {"lint", "compile", "test"}
\* resolveConfiguredRunner: the phases the config leaves empty are filled.
Runner(stack, name, markers) ==
  [name |-> name, stack |-> stack, commands |-> Commands(stack, markers)]

\* resolveCIRunners: one that declares no work is not the source.
Declares(d) == d.runners.entries # <<>> \/ d.gates.entries # <<>>
\* --config and --stack exclude each other; a config must load. A behaviour
\* resolves or runs a hook: they share the document only.
Resolve(stack, markers) ==
  /\ resolved = NotResolved /\ hook = NoHook
  /\ resolved' =
       IF stack # "none"
       THEN [source |-> "stack-override",
             runners |-> <<Runner(stack, stack, markers)>>, gates |-> FALSE]
       ELSE IF ~Loads(doc)
       THEN [source |-> "refused", runners |-> <<>>, gates |-> FALSE]
       ELSE IF doc.yaml # "absent" /\ Declares(doc)
       THEN [source |-> "config",
             runners |-> [i \in DOMAIN doc.runners.entries |->
                            Runner("rust", doc.runners.entries[i].name, {})],
             gates |-> doc.gates.entries # <<>>]
       ELSE [source |-> "auto",
             runners |-> <<Runner(Detected(markers), Detected(markers),
                                  markers)>>,
             gates |-> FALSE]
  /\ UNCHANGED <<doc, changed, hook, outcome>>

\* The texts and projects it begins with: anything at the top, or a good file
\* whose hooks set one feature of each hook.
ConfigStill == /\ doc = NewDoc
               /\ changed = NoFeature
               /\ hook = NoHook
               /\ outcome = NoOutcome
               /\ resolved = NotResolved
OneOfEach == {set \in [Feature -> {"unset", "on", "off", "warn", "bad"}] :
                \A h \in Hooks :
                  Cardinality({s \in Features(h) : set[<<h, s>>] # "unset"})
                    <= 1}
ConfigStart ==
  /\ doc \in [yaml : {"mapping"}, version : {1, 2, 3}, unknown : BOOLEAN,
              runners : Lists, gates : Lists,
              hooks : {"absent", "scalar", "mapping"}, set : {Unset}]
         \cup [yaml : {"mapping"}, version : {2}, unknown : {FALSE},
               runners : {Absent, List(<<Entry("a")>>)}, gates : {Absent},
               hooks : {"mapping"}, set : OneOfEach]
         \cup {[NewDoc EXCEPT !.yaml = y] :
                 y \in {"absent", "broken", "scalar"}}
  /\ changed = NoFeature
  /\ hook = NoHook
  /\ outcome = NoOutcome
  /\ resolved = NotResolved

ConfigNext == \/ \E f \in Feature : SetHookFeature(f)
              \/ SetRefused
              \/ \E name \in Hooks \cup {"post-merge"} : RunHook(name)
              \/ RunSection \/ PassHook
              \/ \E stack \in {"none", "go"},
                    markers \in {{}, {"maven", "package"}, {"pyproject"}} :
                    Resolve(stack, markers)
ConfigSpec == ConfigStart /\ [][ConfigNext]_configVars

-----------------------------------------------------------------------------

\* Turning one hook feature on leaves a valid config valid and every other
\* feature as it was in effect, also in a file that had no hooks, or none:
\* the defaults written in two modules agree
\* (ci-config.ts:926-934 "NEVER clobbers a hand-authored config").
OneFeatureOnly ==
  [][doc' # doc /\ Loads(doc) =>
       /\ ValidDoc(doc')
       /\ doc'.runners = doc.runners /\ doc'.gates = doc.gates
       /\ \A f \in Feature \ {changed'} : HooksOf(doc')[f] = HooksOf(doc)[f]
    ]_configVars

\* A hook exits 0 exactly when no blocking section it loaded came across a
\* problem and none of them was left out, and whatever its document was: one
\* that does not load never lets a commit or a push through
\* (hooks.ts:311-315 "0 iff every blocking section passed"). A section that
\* was off never ran, also when it was turned on in the meantime.
ZeroIffPassed ==
  hook.exit # "none" /\ hook.name \in Hooks =>
    LET Failed(s) == \E i \in DOMAIN outcome[s] :
                       outcome[s][i] \in {"problem", "error"}
        On(s) == hook.on[<<hook.name, s>>]
        Blocks == {s \in Features(hook.name) : On(s) \notin {"off", "warn"}}
    IN /\ hook.exit = "0" =>
            /\ hook.loaded
            /\ \A s \in Blocks : ~Failed(s)
            /\ \A s \in Features(hook.name) :
                 On(s) = "off" <=> outcome[s] = <<"unseen">>
       /\ hook.exit = "1" =>
            ~hook.loaded \/ \E s \in Blocks : Failed(s)

\* ci never resolves to nothing: a config for the hooks alone does not turn
\* the detected runner off (ci.ts:457-462).
AlwaysSomethingToRun ==
  resolved.source \notin {"none", "refused"} =>
    resolved.runners # <<>> \/ resolved.gates

\* What hooks and ci make of a config, valid or not.
ConfigDecides == ZeroIffPassed /\ AlwaysSomethingToRun

\* A config decides and one feature of it is turned on alone.
ConfigHolds == []ConfigDecides /\ OneFeatureOnly
=============================================================================
