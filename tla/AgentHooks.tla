----------------------------- MODULE AgentHooks -----------------------------
(***************************************************************************)
(* The five managers that install the skill guard into a coding agent:     *)
(* src/src/lib/{claude,codex,cursor,grok,opencode}-hook-manager.ts and the *)
(* commands above them.  Each run reads the agent's registration and a     *)
(* second file beside it (the guard, its policy runtime, or the Codex      *)
(* config.toml), decides from what it read, and commits through the        *)
(* transaction of SecureTransaction, here reduced to its promise: nothing, *)
(* everything in order, everything put back, or a torn pair it reports.    *)
(* A user edits files and approves hooks at any moment; a run may crash.   *)
(*                                                                         *)
(* A registration is a sequence of groups.  A group says what our handler  *)
(* in it is, whose other handlers it carries and whether its matcher is    *)
(* the managed one; "cohort" is the released four-object legacy guard,     *)
(* "part" a part of it.  What a user wrote is a set of items, and Edit is  *)
(* a change made to our own handler.                                       *)
(***************************************************************************)
EXTENDS Integers, Sequences, FiniteSets

CONSTANTS
  Items,         \* what users write: handlers, settings, lines
  Hidden,        \* those in files a manager cannot read as text
  UserItem,      \* a user's change to a managed handler
  Docs,          \* per agent: the registrations a run may find
  Seconds,       \* per agent: the second files a run may find
  Surroundings,  \* platforms, packages and host policies to run under
  MaxRuns, MaxUserSteps

Agents == {"claude", "codex", "cursor", "grok", "opencode"}
Reg == 1
Second == 2

Group == [own : {"none", "current", "old", "edited", "cohort", "part"},
          guests : SUBSET Items, matcher : {"exact", "other", "none"}]
FileKinds == {"absent", "symlink", "special", "opaque", "garbage", "legacy",
          "file"}
Blank == [kind |-> "absent", groups |-> <<>>, head |-> FALSE,
          text |-> "none", features |-> "absent", trust |-> {}, mine |-> {}]

\* A file as it may be found.  What cannot be read as text has no groups; an
\* asset has none either, and what a release shipped is nobody else's; nor does
\* the legacy guard carry anything of a user.  Only Claude was ever given one:
\* to the others its handlers are somebody else's.
Files == [kind : FileKinds, groups : Seq(Group), head : BOOLEAN,
          text : {"none", "current", "old", "edited", "foreign"},
          features : {"absent", "true", "false"},
          trust : SUBSET [at : Nat, of : Group], mine : SUBSET Items]
Readable(f) == f.kind \in {"file", "symlink"}
IsAsset(a, c) == IF c = Reg THEN a = "opencode" ELSE a # "codex"
Shaped(a, c, f) ==
  /\ f \in Files
  /\ f.kind = "absent" => f = Blank
  /\ f.kind = "legacy" => f.mine = {}
  /\ ~Readable(f) => f.groups = <<>> /\ f.mine \subseteq Hidden
  /\ \A i \in DOMAIN f.groups :
       f.groups[i].own = "cohort" => f.groups[i].guests = {}
  /\ IF IsAsset(a, c)
     THEN f.groups = <<>> /\ (f.text \in {"current", "old"} => f.mine = {})
     ELSE f.text = "none"

ASSUME HooksAssumption ==
  /\ UserItem \notin Items /\ Hidden \subseteq Items
  /\ \A a \in Agents : /\ \A f \in Docs[a] : Shaped(a, Reg, f)
                       /\ \A f \in Seconds[a] : Shaped(a, Second, f)
  /\ \A a \in Agents \ {"claude"} : \A f \in Docs[a] :
       \A i \in DOMAIN f.groups : f.groups[i].own \notin {"cohort", "part"}
  /\ \A s \in Surroundings :
       /\ s.supported \in BOOLEAN /\ s.package \in BOOLEAN
       /\ s.spawn \in {"enoent", "timeout", "failed", "garbage", "v18", "v22"}
  /\ MaxRuns \in Nat /\ MaxUserSteps \in Nat

VARIABLES
  agent, around,  \* which manager runs, and where
  file,           \* the two files on disk
  kept,           \* contents of the persistent backups of each
  phase, forced,  \* the run in progress
  seen,           \* what it read, Blank before
  unread,         \* files it has still to read
  plan,           \* the bytes it decided on, or Keep
  prior,          \* what it captured before staging
  committed,      \* files it renamed into place
  answer,         \* "none", "ok" or "failed"
  runs, userSteps,
  owed,           \* history: user items each path held outside the window
  clean,          \* history: nobody edited since Invoke
  hurt            \* history: a pair was torn, or approved during a run

runVars == <<phase, forced, seen, unread, plan, prior, committed, answer>>
agentHistory == <<owed, clean, hurt>>
agentVars ==
  <<agent, around, file, kept, runVars, runs, userSteps, agentHistory>>

Guests(gs) == UNION {gs[i].guests : i \in DOMAIN gs}
HasEdited(gs) == \E i \in DOMAIN gs : gs[i].own = "edited"
Content(f) == f.mine \cup Guests(f.groups)
                \cup (IF HasEdited(f.groups) THEN {UserItem} ELSE {})

-----------------------------------------------------------------------------
(* Classification: what a manager makes of one file.                        *)

\* classify*Asset and the two kinds of read they share.
Asset(f) ==
  CASE f.kind \in {"absent", "symlink"} -> f.kind
    [] f.kind = "special" -> "non-regular"
    [] f.kind \in {"opaque", "garbage", "legacy"} -> "foreign"
    [] OTHER -> CASE f.text = "current" -> "managed-current"
                  [] f.text = "old" -> "released-outdated"
                  [] f.text = "edited" -> "edited-managed"
                  [] OTHER -> "foreign"

Ours(gs) == {i \in DOMAIN gs : gs[i].own \in {"current", "old", "edited"}}
Handlers(gs) == {i \in DOMAIN gs : gs[i].own # "none" \/ gs[i].guests # {}}
Mine(gs) == CHOOSE i \in Ours(gs) : TRUE

\* Without a marker: the exact cohort once, a trace of it, anything, nothing.
Legacy(gs) ==
  LET whole == {i \in DOMAIN gs : gs[i].own = "cohort"}
      trace == {i \in DOMAIN gs : gs[i].own \in {"cohort", "part"}}
  IN IF Cardinality(whole) = 1 /\ trace = whole THEN "exact-legacy"
     ELSE IF trace # {} \/ Handlers(gs) # {} THEN "foreign" ELSE "absent"

ClaudeEntry(gs) ==
  CASE Cardinality(Ours(gs)) > 1 -> "edited-managed"
    [] Ours(gs) = {} -> Legacy(gs)
    [] OTHER -> LET g == gs[Mine(gs)]
                IN CASE g.matcher = "exact" /\ g.own = "current" ->
                          "managed-current"
                     [] g.matcher = "exact" /\ g.own = "old" ->
                          "released-outdated"
                     [] OTHER -> "edited-managed"

ClaudeSettings(f) ==
  CASE f.kind \in {"absent", "symlink"} -> f.kind
    [] f.kind = "special" -> "non-regular"
    [] f.kind \in {"opaque", "garbage"} -> "malformed"
    [] f.kind = "legacy" -> "exact-legacy"
    [] OTHER -> ClaudeEntry(f.groups)

\* Codex knows its handler by the command alone, and reads through links.
CodexHooks(f) ==
  LET ours == Ours(f.groups)
  IN CASE f.kind = "absent" -> "absent"
       [] f.kind \in {"special", "opaque"} -> "non-regular"
       [] f.kind = "garbage" -> "malformed"
       [] OTHER ->
            IF \E i \in ours : f.groups[i].own \in {"current", "edited"}
            THEN "managed-current"
            ELSE IF ours # {} THEN "released-outdated"
            ELSE IF Handlers(f.groups) # {} THEN "foreign" ELSE "absent"

CursorHooks(f) ==
  CASE f.kind \in {"absent", "symlink"} -> f.kind
    [] f.kind = "special" -> "non-regular"
    [] f.kind = "opaque" -> "foreign"
    [] f.kind = "garbage" -> "malformed"
    [] OTHER ->
         IF f.head /\ \E i \in Ours(f.groups) : f.groups[i].own = "current"
         THEN "managed-current"
         ELSE IF Ours(f.groups) # {} THEN "released-outdated"
         ELSE IF Handlers(f.groups) # {} THEN "foreign" ELSE "absent"

\* Grok owns its whole file; no released version but the current one exists.
GrokFile == <<[own |-> "current", guests |-> {}, matcher |-> "exact"]>>
GrokHook(f) ==
  CASE f.kind \in {"absent", "symlink"} -> f.kind
    [] f.kind = "special" -> "non-regular"
    [] f.kind = "opaque" -> "foreign"
    [] f.kind = "garbage" -> "malformed"
    [] OTHER -> IF ~f.head THEN "foreign"
                ELSE IF f.groups = GrokFile /\ f.mine = {}
                THEN "managed-current" ELSE "edited-managed"

RegState(f) ==
  CASE agent = "claude" -> ClaudeSettings(f)
    [] agent = "codex" -> CodexHooks(f)
    [] agent = "cursor" -> CursorHooks(f)
    [] agent = "grok" -> GrokHook(f)
    [] OTHER -> Asset(f)

-----------------------------------------------------------------------------
(* Planning: the desired contents of each file, Keep, or Refuse.            *)

Keep == [Blank EXCEPT !.kind = "keep"]
Refuse == [Blank EXCEPT !.kind = "refuse"]

Fresh == [own |-> "current", guests |-> {}, matcher |-> "exact"]
Registered(f, groups) ==
  [f EXCEPT !.kind = "file", !.groups = groups, !.head = TRUE]

\* writePlan, policyWritePlan, resolveAssetPlan.
WritePlan(state, force, desired) ==
  CASE state \in {"absent", "released-outdated"} -> desired
    [] state = "managed-current" -> Keep
    [] OTHER -> IF state = "edited-managed" /\ force
                THEN desired ELSE Refuse

Shipped == IF around.package THEN "current" ELSE "edited"
AssetPlan(f, force) ==
  WritePlan(Asset(f), force, [Blank EXCEPT !.kind = "file", !.text = Shipped])

\* An edited handler is replaced where it stands unless its group was given
\* another matcher and carries handlers of somebody else.
ForceReplaces(gs) ==
  /\ Cardinality(Ours(gs)) = 1
  /\ LET g == gs[Mine(gs)]
     IN g.matcher = "exact" \/ (g.matcher = "other" /\ g.guests = {})
Replaced(gs) == [gs EXCEPT ![Mine(gs)].own = "current",
                           ![Mine(gs)].matcher = "exact"]
\* The groups at the positions S, in their order.
Rank(S, i) == Cardinality({j \in S : j <= i})
Only(gs, S) ==
  [k \in 1..Cardinality(S) |-> gs[CHOOSE i \in S : Rank(S, i) = k]]
Excised(gs) ==
  Append(Only(gs, {i \in DOMAIN gs : gs[i].own # "cohort"}), Fresh)

ClaudePlan(f, force) ==
  LET state == ClaudeSettings(f)
  IN CASE state = "managed-current" -> Keep
       [] state = "absent" ->
            IF f.kind = "absent" THEN Registered(Blank, <<Fresh>>)
            ELSE Registered(f, Append(f.groups, Fresh))
       [] state = "released-outdated" -> Registered(f, Replaced(f.groups))
       [] state = "exact-legacy" ->
            IF f.kind = "legacy" THEN Registered(Blank, <<Fresh>>)
            ELSE Registered(f, Excised(f.groups))
       [] state = "edited-managed" /\ force /\ ForceReplaces(f.groups) ->
            Registered(f, Replaced(f.groups))
       [] OTHER -> Refuse

\* Slip: a group that held our handler goes whole, guests included.
SlipMerged(gs) ==
  Append(Only(gs, {i \in DOMAIN gs : gs[i].own = "none" /\ gs[i].guests # {}}),
         Fresh)
\* Our handlers leave, guests stay in their groups, one fresh group is added.
Merged(gs) ==
  LET rest == [i \in DOMAIN gs |-> [gs[i] EXCEPT !.own = "none"]]
  IN Append(Only(rest, {i \in DOMAIN gs : gs[i].guests # {}}), Fresh)

CodexPlan(f) ==
  CASE CodexHooks(f) \in {"malformed", "non-regular"} -> Refuse
    [] CodexHooks(f) = "managed-current" -> Keep
    [] OTHER -> Registered(f, Merged(f.groups))

\* Slip: the rewritten hook keeps the trust recorded for the old one.
SlipConfigPlan(f, rewritten) ==
  LET base == IF f.kind \in {"file", "symlink"} THEN f ELSE Blank
  IN IF f.kind \in {"file", "symlink"} /\ f.features = "true"
     THEN Keep ELSE [base EXCEPT !.kind = "file", !.features = "true"]
\* A rewritten hooks.json voids its trust in the same write; features.hooks
\* is set.  A config that cannot be read counts as an empty one.
CodexConfigPlan(f, rewritten) ==
  LET readable == f.kind \in {"file", "symlink"}
      base == IF readable THEN f ELSE Blank
      next == [base EXCEPT !.kind = "file", !.features = "true",
                           !.trust = IF rewritten THEN {} ELSE @]
  IN IF readable /\ next = [f EXCEPT !.kind = "file"] THEN Keep ELSE next

CursorPlan(f, force) ==
  LET base == IF f.kind = "file" THEN f ELSE Blank
      merged == Registered(base, Merged(base.groups))
  IN IF CursorHooks(f) = "foreign" THEN merged
     ELSE WritePlan(CursorHooks(f), force, merged)

GrokPlan(f, force) ==
  WritePlan(GrokHook(f), force, Registered(Blank, GrokFile))

RegPlan(f, force) ==
  CASE agent = "claude" -> ClaudePlan(f, force)
    [] agent = "codex" -> CodexPlan(f)
    [] agent = "cursor" -> CursorPlan(f, force)
    [] agent = "grok" -> GrokPlan(f, force)
    [] OTHER -> AssetPlan(f, force)

SecondPlan(fs, force) ==
  IF agent = "codex"
  THEN CodexConfigPlan(fs[Second], CodexPlan(fs[Reg]) # Keep)
  ELSE AssetPlan(fs[Second], force)

Plans(fs, force) == <<RegPlan(fs[Reg], force), SecondPlan(fs, force)>>
Nothing == <<Keep, Keep>>
Refused(plans) == \E c \in {Reg, Second} : plans[c] = Refuse
Writes == {c \in {Reg, Second} : plan[c] # Keep}

\* A component whose classified state says there was nothing is not captured.
WasAbsent(c) ==
  IF agent = "codex" THEN seen[c].kind \notin {"file", "symlink"}
  ELSE IF c = Reg THEN RegState(seen[c]) = "absent" /\
                       (agent = "cursor" \/ seen[c].kind = "absent")
  ELSE Asset(seen[c]) = "absent"

\* Codex backs up whatever a forced repair rewrites, the others an edited file.
BackedUp(c) ==
  /\ forced /\ c \in Writes
  /\ IF agent = "codex" THEN ~WasAbsent(c)
     ELSE "edited-managed" =
            IF c = Reg THEN RegState(seen[c]) ELSE Asset(seen[c])

-----------------------------------------------------------------------------
(* The doctor.                                                              *)

Installed == RegState(file[Reg]) = "managed-current"
SecondCurrent == Asset(file[Second]) = "managed-current"

\* A flag holds unless it is missing or false: an invalid value is true.
FlagSet(value) == value \notin {"none", "false"}

\* probeExecutionSource and listManagedDropIns: only a source that is not
\* there, or that parses and sets no flag, is clear.
Probe(s) ==
  IF s.kind \notin {"absent", "file"} THEN "unknown"
  ELSE IF s.kind = "absent" THEN "clear"
  ELSE IF FlagSet(s.disable) THEN "disable"
  ELSE IF FlagSet(s.managedOnly) THEN "managedOnly" ELSE "clear"
Managed(s) == s.place \in {"managed", "drop-in"}

\* node --version; a time-out, a failure or an odd banner is not a version.
NodeStatus(spawn) ==
  CASE spawn = "enoent" -> "absent"
    [] spawn \in {"timeout", "failed", "garbage"} -> "unknown"
    [] spawn = "v18" -> "old"
    [] OTHER -> "ok"

\* probeExecution: a blocker first, then anything unknown, else runnable.
ClaudeVerdict ==
  IF \/ ~Installed \/ ~SecondCurrent
     \/ \E s \in around.policy :
          Probe(s) = "disable" \/ (Probe(s) = "managedOnly" /\ Managed(s))
     \/ NodeStatus(around.spawn) \in {"absent", "old"} THEN "blocked"
  ELSE IF \/ \E s \in around.policy : Probe(s) = "unknown"
          \/ NodeStatus(around.spawn) = "unknown"
          \/ around.safeMode THEN "inconclusive"
  ELSE "runnable"

\* Codex keeps trust per position; the doctor looks at the first one only.
Trusted == \E t \in file[Second].trust : t.at = 1
CodexVerdict ==
  IF \/ file[Second].kind \notin {"absent", "file", "symlink"}
     \/ file[Second].features = "false"
     \/ ~Trusted \/ ~around.package \/ ~Installed
     \/ NodeStatus(around.spawn) \in {"absent", "old"} THEN "blocked"
  ELSE IF NodeStatus(around.spawn) = "unknown" THEN "inconclusive"
  ELSE "runnable"

\* The other three never claim more than inconclusive.  An installed guard is
\* blocked when the program its command records, for Cursor the command of
\* whatever handler comes first, is no file, or when it fails to load.
CursorVerdict ==
  IF Installed /\ SecondCurrent
     /\ (~around.exec \/ file[Reg].groups[1].own = "none")
  THEN "blocked" ELSE "inconclusive"
GrokVerdict ==
  IF Installed /\ SecondCurrent /\ ~around.exec
  THEN "blocked" ELSE "inconclusive"
OpenCodeVerdict ==
  IF Installed /\ SecondCurrent /\ ~around.exec
  THEN "blocked" ELSE "inconclusive"

Verdict ==
  CASE agent \in {"claude", "codex"} /\ ~around.supported -> "blocked"
    [] agent = "claude" /\ around.supported -> ClaudeVerdict
    [] agent = "codex" /\ around.supported -> CodexVerdict
    [] agent = "cursor" -> CursorVerdict
    [] agent = "grok" -> GrokVerdict
    [] OTHER -> OpenCodeVerdict

\* The exit code of hooks doctor; install and repair exit 0 or 1.
ExitCode ==
  CASE Verdict = "runnable" -> 0
    [] Verdict = "blocked" -> 1
    [] OTHER -> 2

-----------------------------------------------------------------------------
AgentInit ==
  /\ agent \in Agents
  /\ around \in Surroundings
  /\ file \in Docs[agent] \X Seconds[agent]
  /\ \A t \in file[Second].trust : /\ t.at \in DOMAIN file[Reg].groups
                                  /\ t.of = file[Reg].groups[t.at]
  /\ kept = <<{}, {}>>
  /\ phase = "idle" /\ forced = FALSE
  /\ seen = <<Blank, Blank>> /\ unread = {} /\ plan = Nothing
  /\ prior = <<Blank, Blank>> /\ committed = {}
  /\ answer = "none" /\ runs = 0 /\ userSteps = 0
  /\ owed = <<Content(file[Reg]), Content(file[Second])>>
  /\ clean = TRUE /\ hurt = FALSE

Answer(a) == phase' = "idle" /\ answer' = a
DiskUnchanged == UNCHANGED <<agent, around, file, kept, userSteps, owed>>

\* hooks install, or hooks repair with or without --force.
Invoke(force) ==
  /\ phase = "idle" /\ runs < MaxRuns
  /\ runs' = runs + 1 /\ forced' = force
  /\ seen' = <<Blank, Blank>> /\ unread' = {Reg, Second} /\ plan' = Nothing
  /\ prior' = <<Blank, Blank>> /\ committed' = {} /\ clean' = TRUE
  /\ IF agent \in {"claude", "codex"} /\ ~around.supported
     THEN Answer("failed") ELSE phase' = "read" /\ answer' = "none"
  /\ DiskUnchanged /\ UNCHANGED hurt

\* The files are read one after the other; Claude reads the asset first.
Read(c) ==
  /\ phase = "read" /\ c \in unread
  /\ agent = "claude" /\ c = Reg => unread = {Reg}
  /\ agent \in {"codex", "cursor"} /\ c = Second => unread = {Second}
  /\ seen' = [seen EXCEPT ![c] = file[c]]
  /\ unread' = unread \ {c}
  /\ DiskUnchanged
  /\ UNCHANGED <<phase, forced, plan, prior, committed, answer, runs, clean,
                 hurt>>

\* What stands between a plan and its transaction: an adapter for the
\* platform, and packaged bytes that match their manifest, which Claude does
\* not compare and Codex, pointing at the package, does not copy.
ClaudeMay == around.supported
CodexMay == around.supported
CursorMay(plans) ==
  around.supported /\ (around.package \/ plans[Second] = Keep)
GrokMay(plans) ==
  around.supported /\ (around.package \/ plans[Second] = Keep)
OpenCodeMay == around.supported /\ around.package

May(plans) ==
  CASE agent = "claude" -> ClaudeMay
    [] agent = "codex" -> CodexMay
    [] agent = "cursor" -> CursorMay(plans)
    [] agent = "grok" -> GrokMay(plans)
    [] OTHER -> OpenCodeMay

\* A refusal of either file refuses both; two current files are a success.
Decide ==
  /\ phase = "read" /\ unread = {}
  /\ LET plans == Plans(seen, forced)
     IN \/ Refused(plans) /\ Answer("failed") /\ UNCHANGED plan
        \/ plans = Nothing /\ Answer("ok") /\ UNCHANGED plan
        \/ /\ ~Refused(plans) /\ plans # Nothing
           /\ IF May(plans)
              THEN phase' = "stage" /\ plan' = plans /\ UNCHANGED answer
              ELSE Answer("failed") /\ UNCHANGED plan
  /\ DiskUnchanged
  /\ UNCHANGED <<forced, seen, unread, prior, committed, runs, clean, hurt>>

\* Capture, forced backup and staging: the transaction refuses a captured
\* target that is no regular file, and may refuse anything else.
Stage ==
  /\ phase = "stage"
  /\ prior' = file
  /\ kept' = [c \in {Reg, Second} |->
                IF BackedUp(c) THEN kept[c] \cup Content(file[c]) ELSE kept[c]]
  /\ \/ /\ \A c \in Writes : ~WasAbsent(c) =>
             file[c].kind \notin {"absent", "symlink", "special"}
        /\ phase' = "commit" /\ UNCHANGED answer
     \/ Answer("failed")
  /\ UNCHANGED <<agent, around, file, forced, seen, unread, plan, committed,
                 runs, userSteps, agentHistory>>

\* Slip: a component with nothing to write is committed as well.
SlipNextToCommit(c) ==
  /\ c \notin committed
  /\ \A d \in {Reg, Second} \ committed :
       IF agent = "claude" THEN d <= c ELSE d >= c
\* Claude commits its asset first, the others their registration.
NextToCommit(c) ==
  /\ c \in Writes \ committed
  /\ \A d \in Writes \ committed : IF agent = "claude" THEN d <= c ELSE d >= c

Commit(c) ==
  /\ phase = "commit" /\ NextToCommit(c)
  /\ file' = [file EXCEPT ![c] = plan[c]]
  /\ committed' = committed \cup {c}
  /\ UNCHANGED <<agent, around, kept, phase, forced, seen, unread, plan,
                 prior, answer, runs, userSteps, agentHistory>>

\* With everything in place the run is ok, unless a handle fails to close.
Settle ==
  /\ phase = "commit" /\ Writes \subseteq committed
  /\ Answer("ok") \/ Answer("failed")
  /\ DiskUnchanged
  /\ UNCHANGED <<forced, seen, unread, plan, prior, committed, runs, clean,
                 hurt>>

\* A failure at any point up to the last check: what was renamed is put back,
\* newest first, as far as it is what was written and putting it back works.
\* The result reports what is left, or the process dies on the way.
CommitFails ==
  /\ phase = "commit"
  /\ Answer("failed") \/ Answer("none")
  /\ \E back \in SUBSET committed :
       /\ \A c \in back : file[c] = plan[c]
       /\ \A c \in back, d \in committed \ back :
            IF agent = "claude" THEN c < d ELSE d < c
       /\ file' = [c \in {Reg, Second} |->
                     IF c \notin back THEN file[c]
                     ELSE IF WasAbsent(c) THEN Blank ELSE prior[c]]
       /\ hurt' = (hurt \/ \E c \in committed :
                     c \notin back \/ file'[c] # prior[c])
  /\ UNCHANGED <<agent, around, kept, forced, seen, unread, plan, prior,
                 committed, runs, userSteps, owed, clean>>

Torn == committed \notin {{}, Writes}
Dies ==
  /\ phase \in {"stage", "commit"}
  /\ phase' = "idle" /\ answer' = "none"
  /\ hurt' = (hurt \/ Torn)
  /\ DiskUnchanged
  /\ UNCHANGED <<forced, seen, unread, plan, prior, committed, runs, clean>>

-----------------------------------------------------------------------------
(* The user: edits, and approves a hook Codex asks about (both external).   *)

InWindow == phase \in {"read", "stage", "commit"}

OneGuest(i) == [own |-> "none", guests |-> {i}, matcher |-> "other"]
WithItem(c, f, i) ==
  IF c = Reg /\ agent # "opencode"
  THEN [f EXCEPT !.groups = Append(@, OneGuest(i))]
  ELSE IF agent = "codex" THEN [f EXCEPT !.mine = @ \cup {i}]
  ELSE [f EXCEPT !.mine = @ \cup {i},
                 !.text = IF @ = "foreign" THEN @ ELSE "edited"]

UserEdits(c, i) ==
  /\ userSteps < MaxUserSteps
  /\ file[c].kind = "file" /\ i \notin Content(file[c])
  /\ file' = [file EXCEPT ![c] = WithItem(c, file[c], i)]
  /\ owed' = IF InWindow THEN owed
             ELSE [owed EXCEPT ![c] = @ \cup {i}]
  /\ clean' = FALSE
  /\ userSteps' = userSteps + 1
  /\ UNCHANGED <<agent, around, kept, runVars, runs, hurt>>

UserApproves(p) ==
  /\ agent = "codex" /\ userSteps < MaxUserSteps
  /\ file[Reg].kind = "file" /\ p \in DOMAIN file[Reg].groups
  /\ file[Second].kind = "file"
  /\ file' = [file EXCEPT ![Second].trust =
       {t \in @ : t.at # p} \cup {[at |-> p, of |-> file[Reg].groups[p]]}]
  /\ userSteps' = userSteps + 1
  /\ hurt' = (hurt \/ phase # "idle")
  /\ UNCHANGED <<agent, around, kept, runVars, runs, owed, clean>>

AgentNext ==
  \/ \E force \in BOOLEAN : Invoke(force)
  \/ \E c \in {Reg, Second} : Read(c) \/ Commit(c)
  \/ Decide \/ Stage \/ Settle \/ CommitFails \/ Dies
  \/ \E c \in {Reg, Second}, i \in Items : UserEdits(c, i)
  \/ \E p \in 1..3 : UserApproves(p)

AgentSpec == AgentInit /\ [][AgentNext]_agentVars

-----------------------------------------------------------------------------

AgentTypeOK ==
  /\ agent \in Agents /\ around \in Surroundings
  /\ \A c \in {Reg, Second} :
       /\ file[c].kind \in FileKinds
       /\ \A i \in DOMAIN file[c].groups : file[c].groups[i] \in Group
       /\ kept[c] \subseteq Items \cup {UserItem}
       /\ owed[c] \subseteq Items \cup {UserItem}
  /\ phase \in {"idle", "read", "stage", "commit"}
  /\ answer \in {"none", "ok", "failed"}
  /\ unread \subseteq {Reg, Second} /\ committed \subseteq {Reg, Second}

\* What a user wrote into one of the files outside a run stays in it or in a
\* persistent backup, whatever is installed, repaired, rolled back or cut
\* short (claude-hook-manager.ts:1078 "preserving unrelated content",
\* codex-hook-manager.ts:319-325).  Left out: what no manager can read, a
\* change to Cursor's own handler, which its classifier calls outdated, and a
\* Cursor file the rollback took for new.
Excepted(c) ==
  CASE agent = "cursor" /\ c = Reg ->
         Hidden \cup {UserItem} \cup (IF hurt THEN Items ELSE {})
    [] agent = "codex" /\ c = Second -> Hidden
    [] OTHER -> {}
OthersKept == \A c \in {Reg, Second} :
  owed[c] \ Excepted(c) \subseteq Content(file[c]) \cup kept[c]

\* A run that answers ok leaves two files the next run finds nothing to do
\* on: what the planner writes is what the classifier calls current
\* (claude-hook-manager.ts:1220-1230, codex-hook-manager.ts:729-738).
OkIsCurrent ==
  phase = "idle" /\ answer = "ok" /\ clean /\ around.package
    => Plans(file, FALSE) = Nothing

\* Whether the agent would really run the guard: Claude Code follows links
\* and reads the files the doctor cannot.
Fires ==
  /\ around.spawn = "v22"
  /\ IF agent = "claude"
     THEN /\ Installed /\ SecondCurrent
          /\ \A s \in around.policy :
               s.kind # "absent" => /\ ~FlagSet(s.disable)
                                    /\ Managed(s) => ~FlagSet(s.managedOnly)
     ELSE /\ around.package /\ file[Second].features # "false"
          /\ \E t \in file[Second].trust :
               /\ t.at \in DOMAIN file[Reg].groups
               /\ t.of = file[Reg].groups[t.at]
               /\ t.of.own \in {"current", "edited"}

\* The doctor exits 0 only if the guard fires: no unreadable source is clear
\* (claude-hook-manager.ts:505-512), and no trust recorded for an earlier
\* hooks.json survives a rewrite of it (codex-hook-manager.ts:708-712).
\* A guest or an outdated handler before ours, a pair torn by a crash and an
\* approval given while a run is under way are left out.
RunnableFires ==
  (phase = "idle" /\ ~hurt /\ ExitCode = 0
     /\ (agent = "codex" =>
           file[Reg].groups[1].own \in {"current", "edited"})) => Fires

\* The doctor "DETECTS the missing trust entry and reports blocked"
\* (codex-hook-manager.ts:19-20), also when the user's own hook comes first.
TrustDetected ==
  (agent = "codex" /\ phase = "idle" /\ ~hurt /\ ExitCode = 0) => Fires

\* A transaction that fails puts back what it found: wasAbsent means the file
\* was not there (secure-fs-transaction.ts:195-203).
RollbackRestores ==
  (phase = "idle" /\ answer = "failed" /\ userSteps = 0)
    => \A c \in {Reg, Second} : owed[c] \subseteq Content(file[c]) \cup kept[c]

\* What install and doctor answer is so.
VerdictsHold == AgentTypeOK /\ OkIsCurrent /\ RunnableFires
=============================================================================
