------------------------------ MODULE SkillGate ------------------------------
(***************************************************************************)
(* The gate every plugin and skill passes before it is installed           *)
(* (skill-scanner.ts, skill-install-gate.ts): plugin add clones and        *)
(* installs (plugin.ts), plugin import installs a directory                *)
(* (agent-skills.ts), auto-skills copies recommended skills one by one     *)
(* (auto-skill-install.ts).                                                *)
(***************************************************************************)
EXTENDS Integers, FiniteSets

CONSTANTS
  SkillDirs,  \* the directories a tree may have
  Fold,       \* per directory: its name without case
  FileNames,  \* the number of ways to write the name of the skill file
  Skills,     \* what auto-skills recommends
  Trees       \* bound: the trees tried

\* A path that leaves the tree.
Outside == "outside"
\* A skill file: there is none, one of each verdict, or a link.
FileKinds == {"none", "clean", "bad", "odd", "link"}
\* A directory may be one that cannot be listed, or a link out of the tree. Its
\* skill files are counted in the order the scan looks for them: 1 is SKILL.md,
\* 2 is skill.md, then the other folds as the directory lists them.
SkillDirectory == [at : {"absent", "plain", "hidden", "away"},
              files : [1..FileNames -> FileKinds]]

ASSUME GateAssumption ==
  /\ IsFiniteSet(SkillDirs) /\ Outside \notin SkillDirs
  /\ FileNames \in Nat \ {0}
  /\ Trees \subseteq [SkillDirs -> SkillDirectory]

VARIABLES
  command,          \* the command: add, import or auto
  forced,           \* --force
  tree,             \* the directories of the staged clone, or of the source
  declared,         \* the skills of the manifest
  gateStep,         \* where the command is
  coverage,         \* what scanSkillsWithCoverage returned
  dest,             \* the plugin installed under the name
  source, target,   \* auto-skills: the skill folders of both sides, source
                    \* by the SKILL.md of its root and the others below it
  copyable, found,  \* the skills left to install, and what their scan said
  read              \* history: the skill files that were scanned

gateVars == <<command, forced, tree, declared, gateStep, coverage, dest,
              source, target, copyable, found, read>>
inputVars == <<command, forced, tree, declared>>
autoVars == <<source, target, copyable, found>>

NoCoverage == [verdicts |-> {}, undeclared |-> {}, links |-> {},
               errors |-> {}, twins |-> {}]
\* The skill files of a directory.
FilesOf(d) == IF tree[d].at \in {"plain", "hidden"}
              THEN {f \in 1..FileNames : tree[d].files[f] # "none"}
              ELSE {}

\* computeVerdict and scanSkillFile: what cannot be read whole, or is not
\* there, is unscannable.
Verdict(kind) == CASE kind = "clean" -> "pass"
                   [] kind = "bad" -> "block"
                   [] OTHER -> "unscannable"
\* --force lifts unscannable and never block.
InstallAllowed(verdicts) ==
  /\ "block" \notin verdicts
  /\ "unscannable" \in verdicts => forced

-----------------------------------------------------------------------------
(***************************************************************************)
(* scanSkillsWithCoverage.                                                 *)
(***************************************************************************)

\* A declared path must stay inside, by its name and by its real path.
Contained(e) == e # Outside /\ tree[e].at # "away"
Walked == {d \in SkillDirs : tree[d].at \in {"plain", "hidden"}}
SpelledAs(e) == {d \in Walked : Fold[d] = Fold[e]}
\* Membership folds case, so one declared name may cover two directories.
Undeclared ==
  {d \in Walked : /\ \E f \in FilesOf(d) : tree[d].files[f] # "link"
                 /\ \A e \in declared : Fold[e] # Fold[d]}
\* Slip: no look at directories that differ in case only.
SlipTwins(e) == {}
Twins(e) == IF Cardinality(SpelledAs(e)) > 1 THEN SpelledAs(e) ELSE {}
\* The directory a declared entry is read from: its own spelling first.
OnDisk(e) == IF e \in Walked \/ SpelledAs(e) = {} THEN {e} ELSE SpelledAs(e)
\* Of the skill files of a directory the scan takes one, the first it finds;
\* without any it takes the SKILL.md that is not there.
Preferred(d) == IF FilesOf(d) = {} THEN 1
                ELSE CHOOSE f \in FilesOf(d) : \A g \in FilesOf(d) : f <= g
\* What the scan reads: never through a link.
ToScan ==
  {r \in {<<d, Preferred(d)>> : d \in UNION {OnDisk(e) : e \in declared}} :
     tree[r[1]].files[r[2]] # "link"}

\* The walk may meet an I/O error anywhere, and does where it cannot list.
Coverage(failing) ==
  [verdicts |-> {Verdict(tree[r[1]].files[r[2]]) : r \in ToScan},
   undeclared |-> Undeclared \ failing,
   links |-> {d \in SkillDirs :
                \/ tree[d].at = "away"
                \/ \E f \in FilesOf(d) : tree[d].files[f] = "link"} \ failing,
   errors |-> failing \cup {d \in Walked : tree[d].at = "hidden"},
   twins |-> UNION {Twins(e) : e \in declared}]

\* evaluateCoverageGate: first the shape of the tree, which --force does not
\* lift, then the verdicts.
GateAllows ==
  /\ coverage.errors = {} /\ coverage.twins = {}
  /\ coverage.links = {} /\ coverage.undeclared = {}
  /\ InstallAllowed(coverage.verdicts)

-----------------------------------------------------------------------------
(***************************************************************************)
(* installPlugin and importAgentSkillsPackage.                             *)
(***************************************************************************)

Denied ==
  /\ gateStep' = "refused"
  /\ UNCHANGED <<inputVars, coverage, dest, autoVars, read>>

\* add: git clone within a limit of time, then validatePlugin, which wants
\* every declared directory under its own spelling. import: skills.json with
\* at least one skill, each inside the directory.
Clone ==
  /\ command = "add" /\ gateStep = "start"
  /\ gateStep' \in {"cloned", "failed"}
  /\ UNCHANGED <<inputVars, coverage, dest, autoVars, read>>
Validate ==
  /\ \/ /\ command = "add" /\ gateStep = "cloned"
        /\ \A e \in declared \ {Outside} : tree[e].at # "absent"
     \/ /\ command = "import" /\ gateStep = "start"
        /\ declared # {} /\ \A e \in declared : Contained(e)
  /\ gateStep' = "valid"
  /\ UNCHANGED <<inputVars, coverage, dest, autoVars, read>>
Invalid ==
  /\ \/ command = "add" /\ gateStep = "cloned"
     \/ command = "import" /\ gateStep = "start"
  /\ Denied

\* A declared path that leaves the tree makes the scan throw, and a scan that
\* throws denies whatever --force says.
Scan ==
  /\ gateStep = "valid"
  /\ IF \A e \in declared : Contained(e)
     THEN /\ \E failing \in {{}} \cup {{d} : d \in Walked} :
               coverage' = Coverage(failing)
          /\ read' = ToScan
          /\ gateStep' = "scanned"
     ELSE gateStep' = "refused" /\ UNCHANGED <<coverage, read>>
  /\ UNCHANGED <<inputVars, dest, autoVars>>
Gate ==
  /\ gateStep = "scanned"
  /\ gateStep' = IF GateAllows THEN "allowed" ELSE "refused"
  /\ UNCHANGED <<inputVars, coverage, dest, autoVars, read>>
\* publishPluginReplacement: the plugin of the name is replaced, or stays.
Publish ==
  /\ gateStep = "allowed"
  /\ \/ dest' = "new" /\ gateStep' = "installed"
     \/ gateStep' = "failed" /\ UNCHANGED dest
  /\ UNCHANGED <<inputVars, coverage, autoVars, read>>

-----------------------------------------------------------------------------
(***************************************************************************)
(* autoInstallSkills.                                                      *)
(***************************************************************************)

\* A folder without a SKILL.md at its root is reported, what the target has is
\* left alone.
Classify ==
  /\ command = "auto" /\ gateStep = "start"
  /\ copyable' = {s \in Skills : source[s].root # "none" /\ target[s] # "own"}
  /\ gateStep' = "classified"
  /\ UNCHANGED <<inputVars, coverage, dest, source, target, found, read>>
\* The SKILL.md at the root of each is scanned before any folder is copied.
ScanAll ==
  /\ gateStep = "classified"
  /\ found' = {Verdict(source[s].root) : s \in copyable}
  /\ gateStep' = "judged"
  /\ UNCHANGED <<inputVars, coverage, dest, source, target, copyable, read>>
Chosen == IF InstallAllowed(found) THEN copyable ELSE {}
Judge ==
  /\ gateStep = "judged"
  /\ copyable' = Chosen
  /\ gateStep' = IF Chosen = {} THEN "done" ELSE "copying"
  /\ UNCHANGED <<inputVars, coverage, dest, source, target, found, read>>
\* The whole folder is copied, with the skill files below its root. A file that
\* is in the target already is not overwritten. A copy that fails ends the
\* command and leaves what was copied.
Copy ==
  /\ gateStep = "copying"
  /\ \E s \in copyable :
       /\ copyable' = copyable \ {s}
       /\ \/ /\ target' = [target EXCEPT ![s] =
                             IF @ = "files" THEN "merged" ELSE "copied"]
             /\ gateStep' = IF copyable' = {} THEN "done" ELSE "copying"
          \/ gateStep' = "failed" /\ UNCHANGED target
  /\ UNCHANGED <<inputVars, coverage, dest, source, found, read>>

-----------------------------------------------------------------------------

GateNext == Clone \/ Validate \/ Invalid \/ Scan \/ Gate \/ Publish
            \/ Classify \/ ScanAll \/ Judge \/ Copy

NoTree == [d \in SkillDirs |-> [at |-> "absent",
                                files |-> [f \in 1..FileNames |-> "none"]]]
NoFolders == [s \in Skills |-> [root |-> "none", below |-> "none"]]
GateInit ==
  /\ gateStep = "start" /\ coverage = NoCoverage /\ dest = "old"
  /\ copyable = {} /\ found = {} /\ read = {}
GateStart ==
  /\ GateInit
  /\ \/ /\ command \in {"add", "import"} /\ forced \in BOOLEAN
        /\ tree \in Trees
        /\ declared \in SUBSET (SkillDirs \cup {Outside})
        /\ source = NoFolders
        /\ target = [s \in Skills |-> "none"]
     \/ /\ command = "auto" /\ forced \in BOOLEAN
        /\ tree = NoTree /\ declared = {}
        /\ source \in [Skills -> [root : {"none", "clean", "bad", "odd"},
                                  below : {"none", "bad"}]]
        /\ target \in [Skills -> {"none", "files", "own"}]
GateSpec == GateStart /\ [][GateNext]_gateVars
GateStill ==
  /\ GateInit /\ command = "none" /\ forced = FALSE
  /\ tree = NoTree /\ declared = {}
  /\ source = NoFolders
  /\ target = [s \in Skills |-> "none"]

\* An installed plugin has no link, and in every directory of it that has a
\* skill file one was scanned, which passed or was let through unread with
\* --force: none escapes in a directory that is not declared, differs in case
\* only, or where the walk failed (skill-scanner.ts:607-804,
\* skill-install-gate.ts:75-125). Of several spellings in one directory only
\* the preferred one is scanned, and the others are installed unread (816-834),
\* although the walk says of any case fold that "the file is scanned" (718-720).
\* Nobody changes the tree between scan and publication.
InstalledWasScanned ==
  dest = "new" =>
    \A d \in SkillDirs :
      /\ \A f \in FilesOf(d) : tree[d].files[f] # "link"
      /\ FilesOf(d) # {} =>
           \E f \in FilesOf(d) :
             /\ <<d, f>> \in read
             /\ \/ tree[d].files[f] = "clean"
                \/ forced /\ tree[d].files[f] = "odd"

\* auto-skills installs nothing while the root SKILL.md of one of the folders
\* it would install is refused: a blocked skill keeps the good ones out too
\* (auto-skill-install.ts:112-131). The skill files below a root are copied
\* with it and nothing is said of them (142).
OneRefusedNoneCopied ==
  (\E s \in Skills : target[s] \in {"copied", "merged"}) =>
    \A s \in Skills : target[s] # "own" =>
      /\ source[s].root # "bad"
      /\ source[s].root = "odd" => forced

\* No plugin and no folder of auto-skills is installed around the scan the gate
\* makes of it.
GateHolds == InstalledWasScanned /\ OneRefusedNoneCopied
=============================================================================
