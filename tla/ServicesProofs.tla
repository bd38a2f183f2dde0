--------------------------- MODULE ServicesProofs ---------------------------
(***************************************************************************)
(* Proofs about the small components of MCServices, one after the other:   *)
(* each keeps what it promises in every state of its own specification,    *)
(* for every value of its constants.                                       *)
(***************************************************************************)
EXTENDS AiBundles, Containers, SecurityBaseline, RegistrySearch, SkillGate,
        PluginSync, PosixAcl, BoundedRead, CiConfig, SkillGuard, TLAPS,
        FiniteSetTheorems, SequenceTheorems, WellFoundedInduction

-----------------------------------------------------------------------------
(* The bundles of the AI providers.                                         *)

ModelLimit == [context : Nat, output : Nat]
\* What a provider is written with; a literal of the user's own is not in it.
Written == {"$NAME", "{env:NAME}", "ollama", "anonymous", ""}
BundleEntry == [key : Spellings \cup Written, header : BOOLEAN, base : BOOLEAN,
                context : Nat, output : Nat]

BundleInv == /\ entry \in [Formats -> BundleEntry]
             /\ origin \in [Formats -> ModelLimit]
             /\ bundled \in Formats \cup {"none"}
             /\ bundled # "none" => entry[bundled].key \in Written
             /\ LimitsSurvive

-----------------------------------------------------------------------------

\* What Pi leaves open is filled by the reader as OpenCode's gaps are filled
\* by the conversion.
LEMMA PortableIsMeant ==
  ASSUME NEW model \in ModelLimit
  PROVE  /\ Portable(model) \in ModelLimit
         /\ Portable(model) = Meant(model)
         /\ Portable(model).context > 0 /\ Portable(model).output > 0
  <1>1. PICK c \in Nat, o \in Nat : model = [context |-> c, output |-> o]
    BY DEF ModelLimit
  <1> DEFINE context == IF c > 0 THEN c ELSE Default
             lesser == IF context < Cap THEN context ELSE Cap
             output == IF o > 0 THEN o ELSE lesser
  <1>2. /\ context \in Nat /\ context > 0
        /\ output \in Nat /\ output > 0
    BY LimitsAssumption DEF LimitsAssumption
  <1>3. Portable(model) = [context |-> context, output |-> output]
    BY <1>1 DEF Portable, Or, Lesser
  <1>4. (IF c = 0 THEN Default ELSE c) = context
    OBVIOUS
  <1>5. (IF o > 0 THEN o ELSE IF context < Cap THEN context ELSE Cap) = output
    OBVIOUS
  <1>6. Meant(model) = [context |-> context, output |-> output]
    <2> HIDE DEF context, output
    <2> QED BY <1>1, <1>4, <1>5 DEF Meant
  <1> HIDE DEF context, output
  <1> QED BY <1>2, <1>3, <1>6 DEF ModelLimit

\* A model without gaps means what it says.
LEMMA WholeIsMeant ==
  ASSUME NEW model \in ModelLimit, model.context > 0, model.output > 0
  PROVE  Meant(model) = model
  <1>1. PICK c \in Nat, o \in Nat : model = [context |-> c, output |-> o]
    BY DEF ModelLimit
  <1> QED BY <1>1 DEF Meant

\* The file says of a model what it was given, and never a literal key.
LEMMA RenderedIsEntry ==
  ASSUME NEW to \in Formats, NEW auth, NEW model \in ModelLimit
  PROVE  /\ Rendered(to, auth, model) \in BundleEntry
         /\ Rendered(to, auth, model).key \in Written
         /\ Meant(Rendered(to, auth, model)) = Meant(model)
  <1>1. Key(to, auth) \in Written
    BY DEF Key, PiKey, OpenCodeKey, Written
  <1>2. Rendered(to, auth, model) \in BundleEntry
    BY <1>1 DEF Rendered, BundleEntry, ModelLimit
  <1>3. Rendered(to, auth, model).key \in Written
    BY <1>1 DEF Rendered
  <1>4. /\ Rendered(to, auth, model).context = model.context
        /\ Rendered(to, auth, model).output = model.output
    BY DEF Rendered
  <1>5. Meant(Rendered(to, auth, model)) = Meant(model)
    BY <1>4 DEF Meant
  <1> QED BY <1>2, <1>3, <1>5

\* A catalogue's model has no gaps, and is a pair of limits.
LEMMA FreeModelIsWhole ==
  ASSUME NEW model \in FreeModels
  PROVE  model \in ModelLimit /\ Meant(model) = model
  <1>1. PICK raw \in Raw : model = Portable(raw)
    BY DEF FreeModels, Catalogue
  <1> DEFINE stated == [context |-> raw.context, output |-> raw.output]
  <1>2. stated \in ModelLimit
    BY <1>1, LimitsAssumption DEF LimitsAssumption, Raw, ModelLimit
  <1>3. Portable(raw) = Portable(stated)
    BY DEF Portable
  <1> QED BY <1>1, <1>2, <1>3, PortableIsMeant, WholeIsMeant

\* What is carried over means what the entry meant.
LEMMA ModelIsMeant ==
  ASSUME NEW format \in Formats, NEW e \in BundleEntry
  PROVE  Model(format, e) \in ModelLimit /\ Meant(Model(format, e)) = Meant(e)
  <1> DEFINE stated == [context |-> e.context, output |-> e.output]
  <1>1. stated \in ModelLimit
    BY DEF BundleEntry, ModelLimit
  <1>2. Meant(stated) = Meant(e)
    BY DEF Meant
  <1>3. /\ Portable(stated) \in ModelLimit
        /\ Meant(Portable(stated)) = Meant(stated)
    BY <1>1, PortableIsMeant, WholeIsMeant
  <1>4. Model(format, e) \in {stated, Portable(stated)}
    BY DEF Model
  <1> QED BY <1>1, <1>2, <1>3, <1>4

-----------------------------------------------------------------------------

LEMMA BundleStarts == BundleInit => BundleInv
  <1> SUFFICES ASSUME BundleInit PROVE BundleInv
    OBVIOUS
  <1>1. entry \in [Formats -> BundleEntry]
    BY LimitsAssumption DEF LimitsAssumption, BundleInit, BundleEntry
  <1>2. \A format \in Formats : Meant(entry[format]) \in ModelLimit
    <2> TAKE format \in Formats
    <2> DEFINE e == entry[format]
    <2>1. e.context \in Nat /\ e.output \in Nat
      BY <1>1 DEF BundleEntry
    <2> QED BY <2>1, SMT, LimitsAssumption
            DEF LimitsAssumption, Meant, ModelLimit
  <1> QED BY <1>1, <1>2 DEF BundleInit, BundleInv, LimitsSurvive

\* A step that writes one format with a model that means its origin.
LEMMA WriteKeeps ==
  ASSUME BundleInv, NEW to \in Formats, NEW auth, NEW model \in ModelLimit,
         NEW meant \in ModelLimit, Meant(model) = meant,
         entry' = [entry EXCEPT ![to] = Rendered(to, auth, model)],
         origin' = [origin EXCEPT ![to] = meant],
         bundled' = to
  PROVE  BundleInv'
  <1>1. /\ Rendered(to, auth, model) \in BundleEntry
        /\ Rendered(to, auth, model).key \in Written
        /\ Meant(Rendered(to, auth, model)) = meant
    BY RenderedIsEntry
  <1>2. /\ entry' \in [Formats -> BundleEntry]
        /\ origin' \in [Formats -> ModelLimit]
    BY <1>1 DEF BundleInv
  <1>3. bundled' # "none" /\ entry'[bundled'].key \in Written
    BY <1>1 DEF BundleInv, Formats
  <1>4. LimitsSurvive'
    <2> SUFFICES ASSUME NEW format \in Formats
                 PROVE  Meant(entry'[format]) = origin'[format]
      BY DEF LimitsSurvive, Meant
    <2>1. CASE format = to
      BY <1>1, <2>1 DEF BundleInv
    <2>2. CASE format # to
      <3>1. entry'[format] = entry[format] /\ origin'[format] = origin[format]
        BY <2>2 DEF BundleInv
      <3> QED BY <3>1 DEF BundleInv, LimitsSurvive
    <2> QED BY <2>1, <2>2
  <1> QED BY <1>2, <1>3, <1>4 DEF BundleInv, Formats

LEMMA BundleSteps == BundleInv /\ [BundleNext]_bundleVars => BundleInv'
  <1> SUFFICES ASSUME BundleInv, [BundleNext]_bundleVars PROVE BundleInv'
    OBVIOUS
  <1>1. ASSUME NEW to \in Formats, ExportFree(to) PROVE BundleInv'
    <2>1. PICK model \in FreeModels, auth \in FreeProviders :
             /\ entry' = [entry EXCEPT ![to] = Rendered(to, auth, model)]
             /\ origin' = [origin EXCEPT ![to] = model]
             /\ bundled' = to
      BY <1>1 DEF ExportFree
    <2> QED BY <2>1, FreeModelIsWhole, WriteKeeps
  <1>2. ASSUME NEW from \in Formats, Convert(from) PROVE BundleInv'
    <2> DEFINE to == Other(from)
               e == entry[from]
    <2>1. to \in Formats /\ e \in BundleEntry
      BY DEF BundleInv, Formats, Other
    <2>2. Model(from, e) \in ModelLimit /\ Meant(Model(from, e)) = origin[from]
      BY <2>1, ModelIsMeant DEF BundleInv, LimitsSurvive
    <2>3. origin[from] \in ModelLimit
      BY DEF BundleInv
    <2>4. /\ entry' = [entry EXCEPT ![to] =
                         Rendered(to, Auth(from, e), Model(from, e))]
          /\ origin' = [origin EXCEPT ![to] = origin[from]]
          /\ bundled' = to
      BY <1>2 DEF Convert
    <2> QED BY <2>1, <2>2, <2>3, <2>4, WriteKeeps
  <1>3. CASE UNCHANGED bundleVars
    BY <1>3 DEF bundleVars, BundleInv, LimitsSurvive, Meant
  <1> QED BY <1>1, <1>2, <1>3 DEF BundleNext

-----------------------------------------------------------------------------

\* No chain of exports and conversions writes a literal key, or changes what
\* the limits of a model mean (ai-provider-bundles.ts:559, 263-281, 754-761).
THEOREM BundlesAreFaithful == BundleSpec => []ConversionIsFaithful
  <1>1. BundleInv => ConversionIsFaithful
    BY DEF BundleInv, ConversionIsFaithful, NoLiteralKey, Written
  <1> QED BY BundleStarts, BundleSteps, <1>1, PTL DEF BundleSpec

-----------------------------------------------------------------------------
(* A command in its container.                                              *)

Stages == {"start", "found", "hashed", "building", "ready", "failed", "spawn",
           "running"}
Exited == {"exit-0", "exit-1"}

BoxTypes == /\ text \in {"none", "v1", "v2"}
            /\ stage \in Stages
            /\ phase \in Nat
            /\ stage \in {"spawn", "running"} => phase > 0

\* A label tells what its image was built of; from the hash to the end of the
\* build the file is the one that was hashed.
Imaged == /\ image.of = image.label
          /\ stage = "found" => text # "none"
          /\ stage \in {"hashed", "building"} => hash = text /\ text # "none"
          /\ ImageIsCurrent

\* Nothing runs and no timer is armed but under a command.
BoxQuiet == stage # "running" => /\ container = "none" /\ client = "none"
                                 /\ timers = {}
\* What ended a command without the flag is the command.
Flagged == /\ timers \cap {"stop", "backstop"} # {} => timedOut
           /\ client = "killed" => timedOut
           /\ container \in Exited \/ client \in Exited =>
                timedOut \/ ended = "itself"
           /\ stage \in {"spawn", "running"} => run = NoRun
           /\ FlagIsHonest
\* The volume is handed over before the command is spawned.
Handed == /\ prepared => volume = "host"
          /\ stage \in {"spawn", "running"} /\ asHost => volume = "host"

BoxInv == BoxTypes /\ Imaged /\ BoxQuiet /\ Flagged /\ Handed

-----------------------------------------------------------------------------

LEMMA BoxStarts == BoxStart => BoxInv
  <1> SUFFICES ASSUME BoxStart PROVE BoxInv
    OBVIOUS
  <1>1. Imaged
    BY DEF BoxStart, Imaged, ImageIsCurrent, NoImage
  <1>2. BoxTypes /\ BoxQuiet /\ Handed
    BY DEF BoxStart, BoxTypes, Stages, BoxQuiet, Handed
  <1>3. Flagged
    BY DEF BoxStart, Flagged, FlagIsHonest, Exited
  <1> QED BY <1>1, <1>2, <1>3 DEF BoxInv

\* ensureImage: no command is under way, and the outcome of the last stays.
LEMMA ImageKeeps ==
  ASSUME BoxInv, FindDockerfile \/ Hash \/ Inspect \/ Build \/ Edit \/ Again
  PROVE  BoxInv'
  <1> USE DEF FindDockerfile, Hash, Inspect, Build, Edit, Again
  <1>1. BoxTypes'
    BY DEF BoxInv, BoxTypes, Stages, imageVars, runVars
  <1>2. Imaged'
    <2>1. ASSUME Inspect PROVE Imaged'
      <3>1. CASE stage' = "ready"
        <4>1. hash = "none" \/ hash = image.label
          BY <2>1, <3>1 DEF Current
        <4>2. hash = image.label
          BY <2>1, <4>1 DEF BoxInv, Imaged
        <4> QED BY <2>1, <3>1, <4>2
                DEF BoxInv, Imaged, ImageIsCurrent, imageVars
      <3>2. CASE stage' = "building"
        BY <2>1, <3>2 DEF BoxInv, Imaged, ImageIsCurrent, imageVars
      <3> QED BY <2>1, <3>1, <3>2
    <2>2. ASSUME FindDockerfile \/ Hash \/ Build PROVE Imaged'
      BY <2>2 DEF BoxInv, BoxTypes, Imaged, ImageIsCurrent
    <2>3. ASSUME Edit \/ Again PROVE Imaged'
      BY <2>3 DEF BoxInv, Imaged, ImageIsCurrent, imageVars
    <2> QED BY <2>1, <2>2, <2>3
  <1>3. stage # "running" /\ stage' \notin {"spawn", "running"}
    OBVIOUS
  <1>4. BoxQuiet' /\ Flagged' /\ Handed'
    BY <1>3 DEF BoxInv, BoxQuiet, Flagged, FlagIsHonest, Handed, runVars
  <1> QED BY <1>1, <1>2, <1>4 DEF BoxInv

\* Before a command and at its start.
LEMMA CommandStartKeeps == ASSUME BoxInv, Prepare \/ Spawn PROVE BoxInv'
  <1>1. ASSUME Prepare PROVE BoxInv'
    <2>1. BoxTypes' /\ Imaged'
      <3>1. phase' = phase + 1 /\ UNCHANGED <<text, image, hash>>
        BY <1>1 DEF Prepare, imageVars
      <3>2. stage' \in {"spawn", "ready"}
        BY <1>1 DEF Prepare
      <3>3. phase' \in Nat /\ phase' > 0
        BY <3>1 DEF BoxInv, BoxTypes
      <3> QED BY <3>1, <3>2, <3>3
              DEF BoxInv, BoxTypes, Stages, Imaged, ImageIsCurrent
    <2>2. BoxQuiet'
      BY <1>1 DEF Prepare, BoxInv, BoxQuiet
    <2>3. Flagged'
      BY <1>1 DEF Prepare, BoxInv, BoxQuiet, Flagged, FlagIsHonest, Exited
    <2>4. Handed'
      BY <1>1 DEF Prepare, BoxInv, Handed, HandedOver
    <2> QED BY <2>1, <2>2, <2>3, <2>4 DEF BoxInv
  <1>2. ASSUME Spawn PROVE BoxInv'
    <2>1. BoxTypes' /\ Imaged'
      BY <1>2 DEF Spawn, BoxInv, BoxTypes, Stages, Imaged, ImageIsCurrent,
                    imageVars
    <2>2. BoxQuiet' /\ Handed'
      BY <1>2 DEF Spawn, BoxInv, BoxQuiet, Handed
    <2>3. Flagged'
      BY <1>2 DEF Spawn, BoxInv, BoxQuiet, Flagged, FlagIsHonest, Exited
    <2> QED BY <2>1, <2>2, <2>3 DEF BoxInv
  <1> QED BY <1>1, <1>2

\* While a command runs, and at its close.
LEMMA CommandKeeps ==
  ASSUME BoxInv,
         CommandEnds \/ Limit \/ Stop \/ LastResort \/ ClientExits \/ Closed
  PROVE  BoxInv'
  <1>1. stage = "running"
    BY DEF BoxInv, BoxQuiet, CommandEnds, Limit, Stop, LastResort, ClientExits,
           Closed
  <1>2. /\ stage' \in {"running", "ready"}
        /\ stage' = "ready" => Closed
    BY <1>1 DEF CommandEnds, Limit, Stop, LastResort, ClientExits, Closed
  <1>3. UNCHANGED <<text, image, hash, phase, asHost, volume, prepared>>
    BY DEF imageVars, CommandEnds, Limit, Stop, LastResort, ClientExits, Closed
  <1>4. BoxTypes' /\ Imaged'
    <2>1. phase' \in Nat /\ phase' > 0
      BY <1>1, <1>3 DEF BoxInv, BoxTypes
    <2> QED BY <1>2, <1>3, <2>1
            DEF BoxInv, BoxTypes, Stages, Imaged, ImageIsCurrent
  <1>5. BoxQuiet' /\ Handed'
    BY <1>1, <1>2, <1>3 DEF BoxInv, BoxQuiet, Handed, Closed
  <1>6. Flagged'
    <2>1. ASSUME CommandEnds \/ ClientExits PROVE Flagged'
      BY <1>1, <2>1 DEF BoxInv, Flagged, FlagIsHonest, Exited, CommandEnds,
                        ClientExits
    <2>2. ASSUME Limit \/ Stop \/ LastResort PROVE Flagged'
      BY <1>1, <2>2 DEF BoxInv, Flagged, FlagIsHonest, Exited, Limit, Stop,
                        LastResort, Backstop
    <2>3. ASSUME Closed PROVE Flagged'
      BY <1>1, <2>3 DEF BoxInv, Flagged, FlagIsHonest, Exited, Closed, Reached
    <2> QED BY <2>1, <2>2, <2>3
  <1> QED BY <1>4, <1>5, <1>6 DEF BoxInv

LEMMA BoxSteps == BoxInv /\ [BoxNext]_boxVars => BoxInv'
  <1> SUFFICES ASSUME BoxInv, [BoxNext]_boxVars PROVE BoxInv'
    OBVIOUS
  <1>1. CASE Wedge \/ UNCHANGED boxVars
    BY <1>1 DEF Wedge, boxVars, imageVars, runVars, BoxInv, BoxTypes, Imaged,
                ImageIsCurrent, BoxQuiet, Flagged, FlagIsHonest, Handed
  <1> QED BY <1>1, ImageKeeps, CommandStartKeeps, CommandKeeps DEF BoxNext

\* Whatever runs, edits and failures of the daemon came before, an image left
\* as it is was built of the file, a result without the flag is the command's
\* own, and the volume is the user's (docker.ts:271-288, 417-442, 452-455).
THEOREM ResultsAreHonest == BoxSpec => []ContainerIsHonest
  <1>1. BoxInv => ContainerIsHonest
    <2>1. BoxInv => ImageIsCurrent
      BY DEF BoxInv, Imaged
    <2>2. BoxInv => FlagIsHonest /\ VolumeIsOurs
      BY DEF BoxInv, Flagged, Handed, VolumeIsOurs
    <2> QED BY <2>1, <2>2 DEF ContainerIsHonest
  <1> QED BY BoxStarts, BoxSteps, <1>1, PTL DEF BoxSpec

-----------------------------------------------------------------------------
(* The baseline of the security checks.                                     *)

IsBaseline(f) ==
  f = [kind |-> f.kind, keys |-> f.keys, allowlist |-> f.allowlist]
IsCommand(c) ==
  /\ c = [step |-> c.step, mode |-> c.mode, min |-> c.min, seen |-> c.seen,
          findings |-> c.findings, existing |-> c.existing, exit |-> c.exit]
  /\ IsBaseline(c.existing)
  /\ c.mode \in Modes
BaseShape == /\ IsBaseline(baseline)
             /\ baseline.kind \in {"absent", "file", "link", "torn"}
             /\ shell = [s \in Shells |-> shell[s]]
             /\ \A s \in Shells : IsCommand(shell[s])

\* Nothing is in a file but what a saving command was given.
Given(f, all) == f.keys \cup f.allowlist \subseteq FindingKeys(all)
Passed(c, all) ==
  c.mode = "check" /\ c.exit = "0" =>
    \A f \in Actionable(c.seen, c.min) : FindingKey(f) \in FindingKeys(all)
Honest(c, all) ==
  /\ Given(c.existing, all)
  /\ c.mode # "check" => FindingKeys(c.findings) \subseteq FindingKeys(all)
  /\ c.mode = "check" => c.step \in {"idle", "audit", "read"}
  /\ c.mode = "check" /\ c.step # "idle" => c.seen \subseteq c.findings
                                             /\ c.exit = "none"
  /\ Passed(c, all)
Accepted == /\ Given(baseline, accepted)
            /\ \A s \in Shells : Honest(shell[s], accepted)

\* The allowlist is in the file, or with the one command that is about to
\* write it; an empty file has a command that fills it.
Carries(c, all) ==
  c.step \in {"save", "fill"} /\ c.mode \in {"update", "allowlist"} =>
    FindingKeys(all) \subseteq c.existing.allowlist
Kept == /\ \A s, t \in Shells : Busy(s) /\ Busy(t) => s = t
        /\ baseline.kind = "absent" => promised = {}
        /\ Readable => FindingKeys(promised) \subseteq baseline.allowlist
        /\ \A s \in Shells : Carries(shell[s], promised)
        /\ baseline.kind = "torn" => \E s \in Shells : shell[s].step = "fill"

BaseInv == BaseShape /\ Accepted /\ (~uneasy => Kept)

-----------------------------------------------------------------------------

\* What was given once stays given.
LEMMA GivenGrows ==
  ASSUME NEW all, NEW more, all \subseteq more
  PROVE  /\ FindingKeys(all) \subseteq FindingKeys(more)
         /\ \A f : Given(f, all) => Given(f, more)
         /\ \A c : Honest(c, all) => Honest(c, more)
  <1>1. FindingKeys(all) \subseteq FindingKeys(more)
    BY DEF FindingKeys
  <1> QED BY <1>1 DEF Given, Honest, Passed

\* The command c with a step, findings and an outcome of its own.
Record(c, point, saw, findings, existing, exit) ==
  [step |-> point, mode |-> c.mode, min |-> c.min, seen |-> saw,
   findings |-> findings, existing |-> existing, exit |-> exit]

\* One command changes, the others stay.
LEMMA OneBecomes ==
  ASSUME BaseShape, NEW s \in Shells, NEW c, Become(s, c)
  PROVE  /\ shell'[s] = c
         /\ \A t \in Shells : t # s => shell'[t] = shell[t]
         /\ IsCommand(c) => /\ shell' = [t \in Shells |-> shell'[t]]
                            /\ \A t \in Shells : IsCommand(shell'[t])
  <1>1. /\ shell'[s] = c
        /\ \A t \in Shells : t # s => shell'[t] = shell[t]
        /\ shell' = [t \in Shells |-> shell'[t]]
    BY DEF Become, BaseShape
  <1> QED BY <1>1 DEF BaseShape

\* A check that is over: its outcome is left.
LEMMA LeavesCheck ==
  ASSUME NEW s \in Shells, NEW code, IsCommand(shell[s]),
         shell[s].mode = "check"
  PROVE  Leave(s, code) =
           Record(shell[s], "idle", shell[s].seen, {}, shell[s].existing, code)
  <1>1. PICK a, b, d, e, g, h, k :
          shell[s] = [step |-> a, mode |-> b, min |-> d, seen |-> e,
                      findings |-> g, existing |-> h, exit |-> k]
    BY DEF IsCommand
  <1> DEFINE c1 == [shell[s] EXCEPT !.step = "idle"]
             c2 == [c1 EXCEPT !.findings = {}]
  <1>2. c1 = [step |-> "idle", mode |-> b, min |-> d, seen |-> e,
              findings |-> g, existing |-> h, exit |-> k]
    BY <1>1
  <1>3. Leave(s, code) = [c2 EXCEPT !.exit = code]
    BY DEF Leave
  <1>4. c2 = [c1 EXCEPT !.findings = {}]
    OBVIOUS
  <1> HIDE DEF c1, c2
  <1>5. c2 = [step |-> "idle", mode |-> b, min |-> d, seen |-> e,
              findings |-> {}, existing |-> h, exit |-> k]
    BY <1>2, <1>4
  <1>6. [c2 EXCEPT !.exit = code] =
          [step |-> "idle", mode |-> b, min |-> d, seen |-> e,
           findings |-> {}, existing |-> h, exit |-> code]
    BY <1>5
  <1> QED BY <1>1, <1>3, <1>6 DEF Record

\* A command that is over is honest, whatever its mode was.
LEMMA LeaveIsHonest ==
  ASSUME NEW s \in Shells, NEW code, NEW all, IsCommand(shell[s]),
         Honest(shell[s], all), code = "1" \/ shell[s].mode # "check"
  PROVE  /\ IsCommand(Leave(s, code)) /\ Honest(Leave(s, code), all)
         /\ Leave(s, code).step = "idle"
  <1>1. CASE shell[s].mode = "check"
    <2>1. Leave(s, code) =
            Record(shell[s], "idle", shell[s].seen, {}, shell[s].existing, code)
      BY <1>1, LeavesCheck
    <2> QED BY <1>1, <2>1 DEF Record, IsCommand, Honest, Passed
  <1>2. CASE shell[s].mode # "check"
    <2>1. Leave(s, code) =
            [step |-> "idle", mode |-> "check", min |-> "info", seen |-> {},
             findings |-> {}, existing |-> NoFile, exit |-> code]
      BY <1>2 DEF Leave, Quiet
    <2> QED BY <2>1
            DEF IsCommand, IsBaseline, NoFile, Modes, Honest, Given, Passed,
                Actionable
  <1> QED BY <1>1, <1>2

LEMMA QuietIsHonest ==
  ASSUME NEW all, NEW code \in {"none", "1"}
  PROVE  /\ IsCommand([Quiet EXCEPT !.exit = code])
         /\ Honest([Quiet EXCEPT !.exit = code], all)
         /\ [Quiet EXCEPT !.exit = code].step = "idle"
         /\ IsCommand(Quiet) /\ Honest(Quiet, all) /\ Quiet.step = "idle"
  <1>1. [Quiet EXCEPT !.exit = code] =
          [step |-> "idle", mode |-> "check", min |-> "info", seen |-> {},
           findings |-> {}, existing |-> NoFile, exit |-> code]
    BY DEF Quiet
  <1> QED BY <1>1 DEF Quiet, IsCommand, IsBaseline, NoFile, Modes, Honest,
                      Given, Passed, Actionable

\* A step of one command that changes it and what was accepted.
LEMMA OneSteps ==
  ASSUME BaseInv, NEW s \in Shells, NEW c, Become(s, c), IsCommand(c),
         accepted \subseteq accepted', Honest(c, accepted'),
         IsBaseline(baseline)', Given(baseline, accepted)',
         baseline'.kind \in {"absent", "file", "link", "torn"}
  PROVE  BaseShape' /\ Accepted'
  <1>1. /\ shell'[s] = c
        /\ \A t \in Shells : t # s => shell'[t] = shell[t]
        /\ shell' = [t \in Shells |-> shell'[t]]
        /\ \A t \in Shells : IsCommand(shell'[t])
    BY OneBecomes DEF BaseInv
  <1>2. \A t \in Shells : Honest(shell[t], accepted')
    BY GivenGrows DEF BaseInv, Accepted
  <1>3. \A t \in Shells : Honest(shell'[t], accepted')
    BY <1>1, <1>2
  <1> QED BY <1>1, <1>3 DEF BaseShape, Accepted

LEMMA KeptMoves ==
  ASSUME BaseShape, Kept, NEW s \in Shells, NEW c, Become(s, c), Busy(s),
         shell[s].step # "fill", UNCHANGED <<baseline, promised>>,
         Carries(c, promised)
  PROVE  Kept'
  <1>1. /\ shell'[s] = c
        /\ \A t \in Shells : t # s => shell'[t] = shell[t]
    BY OneBecomes
  <1>2. \A t, u \in Shells : Busy(t)' /\ Busy(u)' => t = u
    BY <1>1 DEF Kept, Busy
  <1>3. \A t \in Shells : Carries(shell'[t], promised')
    BY <1>1 DEF Kept
  <1>4. baseline.kind = "torn" => \E t \in Shells : shell'[t].step = "fill"
    BY <1>1 DEF Kept
  <1> QED BY <1>2, <1>3, <1>4 DEF Kept, Readable

-----------------------------------------------------------------------------

LEMMA BaseStarts == BaseStart => BaseInv
  <1> SUFFICES ASSUME BaseStart PROVE BaseInv
    OBVIOUS
  <1>1. /\ baseline.keys = {} /\ baseline.allowlist = {} /\ IsBaseline(baseline)
        /\ baseline.kind \in {"absent", "file"}
    BY DEF BaseStart, BaseInit, NoFile, CleanFile, IsBaseline
  <1>2. \A s \in Shells : /\ shell[s] = Quiet /\ IsCommand(Quiet)
                          /\ Honest(Quiet, accepted) /\ Quiet.step = "idle"
    BY QuietIsHonest DEF BaseStart, BaseInit
  <1>3. BaseShape
    BY <1>1, <1>2 DEF BaseStart, BaseInit, BaseShape
  <1>4. Accepted
    BY <1>1, <1>2 DEF Accepted, Given
  <1>5. FindingKeys(promised) = {}
    BY DEF BaseStart, BaseInit, FindingKeys
  <1>6. Kept
    BY <1>1, <1>2, <1>5 DEF BaseStart, BaseInit, Kept, Carries, Busy
  <1> QED BY <1>3, <1>4, <1>6 DEF BaseInv

LEMMA AuditStartKeeps ==
  ASSUME BaseInv, NEW s \in Shells, NEW how \in Modes, NEW min \in Thresholds,
         StartAudit(s, how, min)
  PROVE  BaseInv'
  <1> DEFINE least == IF how = "check" THEN min ELSE "info"
  <1>1. PICK c : Become(s, c) /\ c = (IF stack = "other"
                   THEN [Quiet EXCEPT !.exit = "1"]
                   ELSE [Quiet EXCEPT !.step = "audit", !.mode = how,
                                      !.min = least])
    BY DEF StartAudit
  <1>2. /\ IsCommand(c) /\ Honest(c, accepted)
        /\ c.step \in {"idle", "audit"}
    <2>1. CASE stack = "other"
      BY <1>1, <2>1, QuietIsHonest
    <2>2. CASE stack # "other"
      <3>1. c = [step |-> "audit", mode |-> how, min |-> least, seen |-> {},
                 findings |-> {}, existing |-> NoFile, exit |-> "none"]
        BY <1>1, <2>2 DEF Quiet
      <3> QED BY <3>1 DEF IsCommand, IsBaseline, NoFile, Honest, Given, Passed,
                          FindingKeys
    <2> QED BY <2>1, <2>2
  <1>3. BaseShape' /\ Accepted'
    BY <1>1, <1>2, OneSteps DEF StartAudit, BaseInv, BaseShape, Accepted
  <1>4. ASSUME ~uneasy' PROVE Kept'
    <2>1. ~uneasy /\ \A t \in Shells : ~Busy(t)
      BY <1>4 DEF StartAudit
    <2>2. Kept /\ baseline.kind # "torn"
      BY <2>1 DEF BaseInv, Kept, Busy
    <2>3. /\ shell'[s] = c
          /\ \A t \in Shells : t # s => shell'[t] = shell[t]
      BY <1>1, OneBecomes DEF BaseInv
    <2>4. \A t, u \in Shells : Busy(t)' /\ Busy(u)' => t = u
      BY <2>1, <2>3 DEF Busy
    <2>5. \A t \in Shells : Carries(shell'[t], promised)
      BY <1>2, <2>2, <2>3 DEF Kept, Carries
    <2>6. UNCHANGED <<baseline, promised>>
      BY DEF StartAudit
    <2> QED BY <2>2, <2>4, <2>5, <2>6 DEF Kept, Readable
  <1> QED BY <1>3, <1>4 DEF BaseInv

LEMMA AuditKeeps ==
  ASSUME BaseInv, NEW s \in Shells, AuditEnds(s)
  PROVE  BaseInv'
  <1> DEFINE old == shell[s]
  <1>1. IsCommand(shell[s]) /\ Honest(shell[s], accepted)
    BY DEF BaseInv, BaseShape, Accepted
  <1>2. /\ shell[s].step = "audit"
        /\ UNCHANGED <<stack, baseline, audits, promised, uneasy>>
    BY DEF AuditEnds
  <1>3. ASSUME NEW c, Become(s, c), IsCommand(c), Honest(c, accepted'),
               accepted \subseteq accepted', Carries(c, promised)
        PROVE  BaseInv'
    <2>1. Given(baseline, accepted')
      BY <1>3, GivenGrows DEF BaseInv, Accepted
    <2>2. BaseShape' /\ Accepted'
      BY <1>2, <1>3, <2>1, OneSteps DEF BaseInv, BaseShape
    <2>3. ~uneasy' => Kept'
      BY <1>2, <1>3, KeptMoves DEF BaseInv, Busy
    <2> QED BY <2>2, <2>3 DEF BaseInv
  <1>4. CASE Become(s, Leave(s, "1")) /\ UNCHANGED accepted
    <2>1. /\ IsCommand(Leave(s, "1")) /\ Honest(Leave(s, "1"), accepted)
          /\ Leave(s, "1").step = "idle"
      BY <1>1, LeaveIsHonest
    <2> QED BY <1>3, <1>4, <2>1 DEF Carries
  <1>5. ASSUME NEW entries, NEW whole \in BOOLEAN,
               Become(s, [shell[s] EXCEPT
                 !.step = IF shell[s].mode = "baseline" THEN "save" ELSE "read",
                 !.findings = Parsed(entries),
                 !.seen = IF whole THEN Parsed(entries) ELSE {}]),
               accepted' = IF shell[s].mode = "check" THEN accepted
                           ELSE accepted \cup Parsed(entries)
        PROVE  BaseInv'
    <2> DEFINE point == IF shell[s].mode = "baseline" THEN "save" ELSE "read"
               parsed == Parsed(entries)
               saw == IF whole THEN Parsed(entries) ELSE {}
    <2>1. PICK a, b, d, e, g, h, k :
            shell[s] = [step |-> a, mode |-> b, min |-> d, seen |-> e,
                        findings |-> g, existing |-> h, exit |-> k]
      BY <1>1 DEF IsCommand
    <2> DEFINE c1 == [shell[s] EXCEPT !.step = point]
               c2 == [c1 EXCEPT !.findings = parsed]
               c == [c2 EXCEPT !.seen = saw]
    <2>2. c1 = [step |-> point, mode |-> b, min |-> d, seen |-> e,
                findings |-> g, existing |-> h, exit |-> k]
      BY <2>1
    <2>3. Become(s, c)
      BY <1>5
    <2>4. c2 = [c1 EXCEPT !.findings = parsed] /\ c = [c2 EXCEPT !.seen = saw]
      OBVIOUS
    <2>5. parsed = Parsed(entries) /\ saw \subseteq parsed
          /\ point \in {"save", "read"}
          /\ (point = "save" <=> b = "baseline")
      BY <2>1
    <2> HIDE DEF c1, c2, c, point, parsed, saw
    <2>6. c2 = [step |-> point, mode |-> b, min |-> d, seen |-> e,
                findings |-> parsed, existing |-> h, exit |-> k]
      BY <2>2, <2>4
    <2>7. c = [step |-> point, mode |-> b, min |-> d, seen |-> saw,
               findings |-> parsed, existing |-> h, exit |-> k]
      <3>1. [c2 EXCEPT !.seen = saw] =
              [step |-> point, mode |-> b, min |-> d, seen |-> saw,
               findings |-> parsed, existing |-> h, exit |-> k]
        BY <2>6
      <3> QED BY <2>4, <3>1
    <2>8. IsCommand(c)
      BY <1>1, <2>1, <2>7 DEF IsCommand
    <2>9. accepted \subseteq accepted'
      BY <1>5
    <2>10. Honest(shell[s], accepted')
      BY <1>1, <2>9, GivenGrows
    <2>11. b # "check" => FindingKeys(parsed) \subseteq FindingKeys(accepted')
      <3>1. b # "check" => parsed \subseteq accepted'
        BY <1>5, <2>1, <2>5
      <3> QED BY <3>1, GivenGrows
    <2>12. b = "check" => k = "none"
      BY <1>1, <1>2, <2>1 DEF Honest
    <2>13. Honest(c, accepted')
      BY <2>1, <2>5, <2>7, <2>10, <2>11, <2>12 DEF Honest, Passed
    <2>14. Carries(c, promised)
      BY <2>5, <2>7 DEF Carries
    <2> QED BY <1>3, <2>3, <2>8, <2>9, <2>13, <2>14
  <1> QED BY <1>4, <1>5 DEF AuditEnds

LEMMA ReadKeeps ==
  ASSUME BaseInv, NEW s \in Shells, ReadExisting(s)
  PROVE  BaseInv'
  <1>1. IsCommand(shell[s]) /\ Honest(shell[s], accepted)
    BY DEF BaseInv, BaseShape, Accepted
  <1>2. /\ shell[s].step = "read"
        /\ UNCHANGED <<stack, baseline, audits, accepted, promised, uneasy>>
    BY DEF ReadExisting
  <1>3. ASSUME NEW c, Become(s, c), IsCommand(c), Honest(c, accepted),
               ~uneasy => Carries(c, promised)
        PROVE  BaseInv'
    <2>1. BaseShape' /\ Accepted'
      BY <1>2, <1>3, OneSteps DEF BaseInv, BaseShape, Accepted
    <2>2. ~uneasy' => Kept'
      BY <1>2, <1>3, KeptMoves DEF BaseInv, Busy
    <2> QED BY <2>1, <2>2 DEF BaseInv
  <1>4. CASE shell[s].mode = "check"
    <2> DEFINE code == IF Readable THEN ExitOf(s) ELSE "1"
    <2>1. Become(s, Leave(s, code))
      BY <1>4 DEF ReadExisting
    <2>2. Leave(s, code) =
            Record(shell[s], "idle", shell[s].seen, {}, shell[s].existing, code)
      BY <1>1, <1>4, LeavesCheck
    <2>3. ASSUME code = "0", NEW f \in Actionable(shell[s].seen, shell[s].min)
          PROVE  FindingKey(f) \in FindingKeys(accepted)
      <3>1. Actionable(Regressions(baseline, shell[s].findings),
                       shell[s].min) = {}
        BY <2>3 DEF ExitOf
      <3>2. shell[s].seen \subseteq shell[s].findings
        BY <1>1, <1>2, <1>4 DEF Honest
      <3>3. f \notin Regressions(baseline, shell[s].findings)
        BY <2>3, <3>1 DEF Actionable
      <3>4. f \in shell[s].findings
        BY <2>3, <3>2 DEF Actionable
      <3>5. FindingKey(f) \in baseline.keys \cup baseline.allowlist
        BY <3>3, <3>4 DEF Regressions
      <3> QED BY <3>5 DEF BaseInv, Accepted, Given
    <2> HIDE DEF code
    <2>4. IsCommand(Leave(s, code))
      BY <1>1, <2>2 DEF Record, IsCommand
    <2>5. Honest(Leave(s, code), accepted)
      BY <1>1, <1>4, <2>2, <2>3 DEF Record, Honest, Passed
    <2>6. Carries(Leave(s, code), promised)
      BY <2>2 DEF Record, Carries
    <2> QED BY <1>3, <2>1, <2>4, <2>5, <2>6
  <1>5. CASE shell[s].mode = "allowlist" /\ ~Readable
    <2>1. Become(s, Leave(s, "1"))
      BY <1>5 DEF ReadExisting
    <2>2. /\ IsCommand(Leave(s, "1")) /\ Honest(Leave(s, "1"), accepted)
          /\ Leave(s, "1").step = "idle"
      BY <1>1, LeaveIsHonest
    <2> QED BY <1>3, <2>1, <2>2 DEF Carries
  <1>6. CASE /\ shell[s].mode # "check"
             /\ ~(shell[s].mode = "allowlist" /\ ~Readable)
    <2> DEFINE held == IF Readable THEN baseline ELSE NoFile
               c1 == [shell[s] EXCEPT !.step = "save"]
               c == [c1 EXCEPT !.existing = held]
    <2>1. PICK a, b, d, e, g, h, k :
            shell[s] = [step |-> a, mode |-> b, min |-> d, seen |-> e,
                        findings |-> g, existing |-> h, exit |-> k]
      BY <1>1 DEF IsCommand
    <2>2. c1 = [step |-> "save", mode |-> b, min |-> d, seen |-> e,
                findings |-> g, existing |-> h, exit |-> k]
      BY <2>1
    <2>3. Become(s, c)
      BY <1>6 DEF ReadExisting
    <2>4. IsBaseline(held) /\ Given(held, accepted)
      BY DEF BaseInv, BaseShape, Accepted, NoFile, IsBaseline, Given
    <2>5. ASSUME ~uneasy
          PROVE  FindingKeys(promised) \subseteq held.allowlist
      <3>1. CASE Readable
        BY <2>5, <3>1 DEF BaseInv, Kept
      <3>2. CASE ~Readable
        <4>1. baseline.kind \in {"absent", "torn"}
          BY <3>2 DEF BaseInv, BaseShape, Readable
        <4>2. baseline.kind # "torn"
          BY <1>2, <2>5 DEF BaseInv, Kept, Busy
        <4>3. promised = {}
          BY <2>5, <4>1, <4>2 DEF BaseInv, Kept
        <4> QED BY <4>3 DEF FindingKeys
      <3> QED BY <3>1, <3>2
    <2>6. c = [c1 EXCEPT !.existing = held]
      OBVIOUS
    <2> HIDE DEF c1, c, held
    <2>7. c = [step |-> "save", mode |-> b, min |-> d, seen |-> e,
               findings |-> g, existing |-> held, exit |-> k]
      <3>1. [c1 EXCEPT !.existing = held] =
              [step |-> "save", mode |-> b, min |-> d, seen |-> e,
               findings |-> g, existing |-> held, exit |-> k]
        BY <2>2
      <3> QED BY <2>6, <3>1
    <2>8. IsCommand(c)
      BY <1>1, <2>1, <2>4, <2>7 DEF IsCommand
    <2>9. Honest(c, accepted)
      BY <1>1, <1>6, <2>1, <2>4, <2>7 DEF Honest, Passed
    <2>10. ~uneasy => Carries(c, promised)
      BY <2>5, <2>7 DEF Carries
    <2> QED BY <1>3, <2>3, <2>8, <2>9, <2>10
  <1> QED BY <1>4, <1>5, <1>6

LEMMA OpenKeeps ==
  ASSUME BaseInv, NEW s \in Shells, OpenBaseline(s)
  PROVE  BaseInv'
  <1>1. IsCommand(shell[s]) /\ Honest(shell[s], accepted)
    BY DEF BaseInv, BaseShape, Accepted
  <1>2. /\ shell[s].step = "save"
        /\ UNCHANGED <<stack, audits, accepted, promised, uneasy>>
    BY DEF OpenBaseline
  <1>3. CASE baseline.kind = "link"
    <2>1. Become(s, Leave(s, "1")) /\ UNCHANGED baseline
      BY <1>3 DEF OpenBaseline
    <2>2. /\ IsCommand(Leave(s, "1")) /\ Honest(Leave(s, "1"), accepted)
          /\ Leave(s, "1").step = "idle"
      BY <1>1, LeaveIsHonest
    <2>3. BaseShape' /\ Accepted'
      BY <1>2, <2>1, <2>2, OneSteps DEF BaseInv, BaseShape, Accepted
    <2>4. ~uneasy' => Kept'
      BY <1>2, <2>1, <2>2, KeptMoves DEF BaseInv, Busy, Carries
    <2> QED BY <2>3, <2>4 DEF BaseInv
  <1>4. CASE baseline.kind # "link"
    <2> DEFINE c == [shell[s] EXCEPT !.step = "fill"]
    <2>1. PICK a, b, d, e, g, h, k :
            shell[s] = [step |-> a, mode |-> b, min |-> d, seen |-> e,
                        findings |-> g, existing |-> h, exit |-> k]
      BY <1>1 DEF IsCommand
    <2>2. c = [step |-> "fill", mode |-> b, min |-> d, seen |-> e,
               findings |-> g, existing |-> h, exit |-> k]
      BY <2>1
    <2>3. Become(s, c) /\ baseline' = [NoFile EXCEPT !.kind = "torn"]
      BY <1>4 DEF OpenBaseline
    <2> HIDE DEF c
    <2>4. baseline' = [kind |-> "torn", keys |-> {}, allowlist |-> {}]
      BY <2>3 DEF NoFile
    <2>5. /\ IsBaseline(baseline)' /\ Given(baseline, accepted)'
          /\ baseline'.kind = "torn"
      BY <2>4 DEF IsBaseline, Given
    <2>6. IsCommand(c) /\ Honest(c, accepted)
      BY <1>1, <1>2, <2>1, <2>2 DEF IsCommand, Honest, Passed
    <2>7. BaseShape' /\ Accepted'
      BY <1>2, <2>3, <2>5, <2>6, OneSteps
    <2>8. ASSUME ~uneasy PROVE Kept'
      <3>1. /\ shell'[s] = c
            /\ \A t \in Shells : t # s => shell'[t] = shell[t]
        BY <2>3, OneBecomes DEF BaseInv
      <3>2. Carries(c, promised)
        BY <1>2, <2>1, <2>2, <2>8 DEF BaseInv, Kept, Carries
      <3>3. \A t, u \in Shells : Busy(t)' /\ Busy(u)' => t = u
        BY <1>2, <2>8, <3>1 DEF BaseInv, Kept, Busy
      <3>4. \A t \in Shells : Carries(shell'[t], promised')
        BY <1>2, <2>8, <3>1, <3>2 DEF BaseInv, Kept
      <3>5. shell'[s].step = "fill"
        BY <2>2, <3>1
      <3> QED BY <2>5, <3>3, <3>4, <3>5 DEF Kept, Readable
    <2> QED BY <1>2, <2>7, <2>8 DEF BaseInv
  <1> QED BY <1>3, <1>4

LEMMA FillKeeps ==
  ASSUME BaseInv, NEW s \in Shells, FillBaseline(s)
  PROVE  BaseInv'
  <1> DEFINE c == shell[s]
  <1>1. IsCommand(c) /\ Honest(c, accepted)
    BY DEF BaseInv, BaseShape, Accepted
  <1>2. /\ c.step = "fill"
        /\ baseline' = Saved(c)
        /\ Become(s, Leave(s, "0"))
        /\ UNCHANGED <<stack, audits, accepted, uneasy>>
    BY DEF FillBaseline
  <1>3. c.mode # "check"
    BY <1>1, <1>2 DEF Honest
  <1>4. /\ IsCommand(Leave(s, "0")) /\ Honest(Leave(s, "0"), accepted)
        /\ Leave(s, "0").step = "idle"
    BY <1>1, <1>3, LeaveIsHonest
  <1>5. /\ IsBaseline(baseline)' /\ Given(baseline, accepted)'
        /\ baseline'.kind = "file"
    <2>1. CASE c.mode = "allowlist"
      <3>1. baseline' = [kind |-> "file", keys |-> c.existing.keys,
                         allowlist |-> c.existing.allowlist
                                         \cup FindingKeys(c.findings)]
        BY <1>2, <2>1 DEF Saved
      <3> QED BY <1>1, <1>2, <1>3, <3>1 DEF Honest, IsBaseline, Given
    <2>2. CASE c.mode # "allowlist"
      <3>1. baseline' = [kind |-> "file", keys |-> FindingKeys(c.findings),
                         allowlist |-> c.existing.allowlist]
        BY <1>2, <2>2 DEF Saved
      <3> QED BY <1>1, <1>2, <1>3, <3>1 DEF Honest, IsBaseline, Given
    <2> QED BY <2>1, <2>2
  <1>6. BaseShape' /\ Accepted'
    BY <1>2, <1>4, <1>5, OneSteps
  <1>7. ASSUME ~uneasy PROVE Kept'
    <2>1. /\ shell'[s] = Leave(s, "0")
          /\ \A t \in Shells : t # s => shell'[t] = shell[t]
      BY <1>2, OneBecomes DEF BaseInv
    <2>2. \A t \in Shells : ~Busy(t)'
      BY <1>2, <1>4, <1>7, <2>1 DEF BaseInv, Kept, Busy
    <2>3. FindingKeys(promised') \subseteq baseline'.allowlist
      <3>1. CASE c.mode = "baseline"
        <4>1. promised' = {}
          BY <3>1 DEF FillBaseline
        <4> QED BY <4>1 DEF FindingKeys
      <3>2. CASE c.mode = "allowlist"
        <4>1. promised' = promised \cup c.findings
          BY <3>2 DEF FillBaseline
        <4>2. baseline'.allowlist =
                c.existing.allowlist \cup FindingKeys(c.findings)
          BY <1>2, <3>2 DEF Saved
        <4>3. FindingKeys(promised) \subseteq c.existing.allowlist
          BY <1>2, <1>7, <3>2 DEF BaseInv, Kept, Carries
        <4> QED BY <4>1, <4>2, <4>3 DEF FindingKeys
      <3>3. CASE c.mode = "update"
        <4>1. promised' = promised
          BY <3>3 DEF FillBaseline
        <4>2. baseline'.allowlist = c.existing.allowlist
          BY <1>2, <3>3 DEF Saved
        <4>3. FindingKeys(promised) \subseteq c.existing.allowlist
          BY <1>2, <1>7, <3>3 DEF BaseInv, Kept, Carries
        <4> QED BY <4>1, <4>2, <4>3
      <3> QED BY <1>1, <1>3, <3>1, <3>2, <3>3 DEF IsCommand, Modes
    <2> QED BY <1>5, <2>2, <2>3 DEF Kept, Carries, Busy
  <1> QED BY <1>2, <1>6, <1>7 DEF BaseInv

LEMMA DiesKeeps ==
  ASSUME BaseInv, NEW s \in Shells, ShellDies(s)
  PROVE  BaseInv'
  <1>1. /\ Busy(s) /\ Become(s, Quiet)
        /\ uneasy' = (uneasy \/ shell[s].step = "fill")
        /\ UNCHANGED <<stack, baseline, audits, accepted, promised>>
    BY DEF ShellDies
  <1>2. IsCommand(Quiet) /\ Honest(Quiet, accepted) /\ Quiet.step = "idle"
    BY QuietIsHonest
  <1>3. BaseShape' /\ Accepted'
    BY <1>1, <1>2, OneSteps DEF BaseInv, BaseShape, Accepted
  <1>4. ~uneasy' => Kept'
    BY <1>1, <1>2, KeptMoves DEF BaseInv, Carries
  <1> QED BY <1>3, <1>4 DEF BaseInv

LEMMA MovedKeeps == ASSUME BaseInv, BaselineMoved PROVE BaseInv'
  <1>1. CASE baseline' = [baseline EXCEPT !.kind = "link"] /\ UNCHANGED uneasy
    <2>1. baseline' = [kind |-> "link", keys |-> baseline.keys,
                       allowlist |-> baseline.allowlist]
      BY <1>1 DEF BaseInv, BaseShape, IsBaseline
    <2>2. BaseShape'
      BY <2>1 DEF BaselineMoved, BaseInv, BaseShape, IsBaseline
    <2>3. Accepted'
      BY <2>1 DEF BaselineMoved, BaseInv, Accepted, Given
    <2>4. ~uneasy' => Kept'
      BY <1>1, <2>1 DEF BaselineMoved, BaseInv, Kept, Readable, Busy
    <2> QED BY <2>2, <2>3, <2>4 DEF BaseInv
  <1>2. CASE baseline' = NoFile /\ uneasy' = TRUE
    <2>1. BaseShape'
      BY <1>2 DEF BaselineMoved, BaseInv, BaseShape, IsBaseline, NoFile
    <2>2. Accepted'
      BY <1>2 DEF BaselineMoved, BaseInv, Accepted, Given, NoFile
    <2> QED BY <1>2, <2>1, <2>2 DEF BaseInv
  <1> QED BY <1>1, <1>2 DEF BaselineMoved

LEMMA BaseSteps == BaseInv /\ [BaseNext]_baseVars => BaseInv'
  <1> SUFFICES ASSUME BaseInv, [BaseNext]_baseVars PROVE BaseInv'
    OBVIOUS
  <1>1. CASE UNCHANGED baseVars
    BY <1>1 DEF baseVars, BaseInv, BaseShape, Accepted, Kept, Readable, Busy
  <1> QED BY <1>1, AuditStartKeeps, AuditKeeps, ReadKeeps, OpenKeeps, FillKeeps,
             DiesKeeps, MovedKeeps DEF BaseNext

-----------------------------------------------------------------------------

\* A check that passes saw only what was accepted before, and what was
\* allowlisted stays (security.ts:321-345 and 527), whatever the audits
\* report and however the shells meet.
THEOREM BaselineIsHonest == BaseSpec => []BaselineHolds
  <1>1. BaseInv => BaselineHolds
    <2> SUFFICES ASSUME BaseInv PROVE PassIsAccepted /\ AllowedStay
      BY DEF BaselineHolds
    <2>1. PassIsAccepted
      <3> SUFFICES ASSUME NEW s \in Shells, shell[s].mode = "check",
                          shell[s].exit = "0",
                          NEW f \in Actionable(shell[s].seen, shell[s].min)
                   PROVE  \E g \in accepted :
                            <<g.id, g.package>> = <<f.id, f.package>>
        BY DEF PassIsAccepted
      <3>1. FindingKey(f) \in FindingKeys(accepted)
        BY DEF BaseInv, Accepted, Honest, Passed
      <3> QED BY <3>1 DEF FindingKeys, FindingKey
    <2>2. AllowedStay
      <3> SUFFICES ASSUME ~uneasy, Readable, NEW f \in promised
                   PROVE  <<f.id, f.package>> \in baseline.allowlist
        BY DEF AllowedStay
      <3>1. FindingKeys(promised) \subseteq baseline.allowlist
        BY DEF BaseInv, Kept
      <3> QED BY <3>1 DEF FindingKeys, FindingKey
    <2> QED BY <2>1, <2>2
  <1> QED BY BaseStarts, BaseSteps, <1>1, PTL DEF BaseSpec

-----------------------------------------------------------------------------
(* The search of the registry.                                              *)

\* A race is won and a deadline armed only while an await is raced, and a
\* search that has answered is over.
SearchInv == /\ asked \in {"start", "fetch", "body", "done"}
             /\ settled # "no" => asked \in {"fetch", "body"}
             /\ listening = TRUE => asked \in {"fetch", "body"}
             /\ listening \in BOOLEAN /\ cancelled \in BOOLEAN
             /\ reply # "none" => asked = "done"
             /\ CancelIsTold

LEMMA SearchSteps == SearchInv /\ [SearchNext]_searchVars => SearchInv'
  <1> SUFFICES ASSUME SearchInv, [SearchNext]_searchVars PROVE SearchInv'
    OBVIOUS
  <1>1. CASE SearchAsk
    BY <1>1 DEF SearchAsk, SearchInv, CancelIsTold
  <1>2. CASE RegistryAnswers
    BY <1>2 DEF RegistryAnswers, Racing, SearchInv, CancelIsTold
  <1>3. CASE SearchDeadline
    BY <1>3 DEF SearchDeadline, SearchInv, CancelIsTold
  <1>4. CASE Cancel
    <2>1. listening = FALSE => settled' = settled
      BY <1>4 DEF Cancel
    <2>2. reply = "none"
      BY <1>4 DEF Cancel, SearchInv
    <2> QED BY <1>4, <2>1, <2>2 DEF Cancel, SearchInv, CancelIsTold
  <1>5. CASE Continue
    <2>1. asked \in {"fetch", "body"}
      BY <1>5 DEF Continue, SearchInv
    <2>2. Outcome = "cancelled" <=> cancelled = TRUE
      BY DEF Outcome, SearchInv
    <2>3. CASE asked = "fetch" /\ Outcome = "success"
      BY <1>5, <2>3 DEF Continue, SearchInv, CancelIsTold
    <2>4. CASE ~(asked = "fetch" /\ Outcome = "success")
      <3>1. /\ asked' = "done" /\ reply' = Outcome /\ listening' = FALSE
            /\ settled' = "no" /\ cancelled' = cancelled
        BY <1>5, <2>4 DEF Continue
      <3> QED BY <2>2, <3>1 DEF SearchInv, CancelIsTold
    <2> QED BY <2>3, <2>4
  <1>6. CASE UNCHANGED searchVars
    BY <1>6 DEF searchVars, SearchInv, CancelIsTold
  <1> QED BY <1>1, <1>2, <1>3, <1>4, <1>5, <1>6 DEF SearchNext, SearchHost

\* Whichever of the answer, the deadline and the abort wins a race, a caller
\* who cancelled is told so and no other one is (plugin.ts:386-402).
THEOREM CancelsAreTold == SearchSpec => []CancelIsTold
  <1>1. SearchStart => SearchInv
    BY DEF SearchStart, SearchInv, CancelIsTold
  <1>2. SearchInv => CancelIsTold
    BY DEF SearchInv
  <1> QED BY <1>1, <1>2, SearchSteps, PTL DEF SearchSpec

-----------------------------------------------------------------------------
(* The gate before an install.                                              *)

\* What the gate knows when the tree has been scanned: some of it may not have
\* been listed.
Scanned ==
  /\ \A e \in declared : Contained(e)
  /\ \E failing : coverage = Coverage(failing)
  /\ read = ToScan
\* What auto-skills would install, none of it refused.
Installable == {s \in Skills : source[s].root # "none" /\ target[s] # "own"}
Vetted == InstallAllowed({Verdict(source[s].root) : s \in Installable})

GateInv ==
  /\ tree \in [SkillDirs -> SkillDirectory]
  /\ declared \subseteq SkillDirs \cup {Outside}
  /\ gateStep \in {"scanned", "allowed"} => Scanned
  /\ gateStep = "allowed" => GateAllows
  /\ dest = "new" => gateStep = "installed"
  /\ InstalledWasScanned
  /\ target = [s \in Skills |-> target[s]]
  /\ gateStep \in {"classified", "judged"} => copyable = Installable
  /\ gateStep = "judged" => found = {Verdict(source[s].root) : s \in copyable}
  /\ gateStep = "copying" => Vetted /\ copyable \subseteq Installable
  /\ (\E s \in Skills : target[s] \in {"copied", "merged"}) => Vetted

-----------------------------------------------------------------------------

Under == {ss \in Nat \X Nat : ss[1] < ss[2]}
LEMMA UnderIsWellFounded == IsWellFoundedOn(Under, Nat)
  <1> DEFINE R == OpToRel(<, Nat)
  <1>1. R = Under
    BY Zenon DEF OpToRel, Under
  <1>2. IsWellFoundedOn(R, Nat)
    BY NatLessThanWellFounded, Zenon
  <1> HIDE DEF R
  <1> QED BY <1>1, <1>2

\* Some number of a set of them is the first.
LEMMA LeastExists ==
  ASSUME NEW S \in SUBSET Nat, S # {}
  PROVE  \E n \in S : \A m \in S : n <= m
  <1>1. PICK n \in S : \A m \in S : ~(<<m, n>> \in Under)
    BY UnderIsWellFounded, WFMin
  <1>2. ASSUME NEW m \in S PROVE n <= m
    <2>1. n \in Nat /\ m \in Nat
      OBVIOUS
    <2>2. m < n => <<m, n>> \in Under
      <3>1. <<m, n>> \in Nat \X Nat /\ <<m, n>>[1] = m /\ <<m, n>>[2] = n
        BY <2>1
      <3> QED BY <3>1 DEF Under
    <2> QED BY <1>1, <2>1, <2>2
  <1> QED BY <1>2

\* One directory only answers to a name.
LEMMA OneSpelling ==
  ASSUME NEW e, Twins(e) = {}, NEW d \in SpelledAs(e)
  PROVE  SpelledAs(e) = {d}
  <1>1. IsFiniteSet(SpelledAs(e)) /\ Cardinality(SpelledAs(e)) \in Nat
    BY GateAssumption, FS_Subset, FS_CardinalityType
       DEF GateAssumption, SpelledAs, Walked
  <1>2. ~(Cardinality(SpelledAs(e)) > 1)
    BY DEF Twins
  <1>3. Cardinality(SpelledAs(e)) # 0
    BY <1>1, FS_EmptySet
  <1>4. Cardinality(SpelledAs(e)) = 1
    BY <1>1, <1>2, <1>3
  <1>5. PICK x : SpelledAs(e) = {x}
    BY <1>1, <1>4, FS_Singleton
  <1> QED BY <1>5

\* What the gate promises of a directory.
DirectoryPassed(d) ==
  /\ \A f \in FilesOf(d) : tree[d].files[f] # "link"
  /\ FilesOf(d) # {} =>
       \E f \in FilesOf(d) :
         /\ <<d, f>> \in read
         /\ \/ tree[d].files[f] = "clean"
            \/ forced /\ tree[d].files[f] = "odd"

\* The file the scan takes of a directory that has some is one of them.
LEMMA PreferredIsIn ==
  ASSUME NEW d, FilesOf(d) # {}
  PROVE  Preferred(d) \in FilesOf(d)
  <1>1. FilesOf(d) \in SUBSET Nat
    BY GateAssumption DEF GateAssumption, FilesOf
  <1>2. PICK f \in FilesOf(d) : \A g \in FilesOf(d) : f <= g
    BY <1>1, LeastExists
  <1> QED BY <1>2 DEF Preferred

\* A tree that passes the gate has a file the scan read and let through in
\* every directory with a skill file, and no link.
LEMMA PassedIsScanned ==
  ASSUME Scanned, GateAllows, tree \in [SkillDirs -> SkillDirectory],
         declared \subseteq SkillDirs \cup {Outside}, NEW d \in SkillDirs
  PROVE  DirectoryPassed(d)
  <1> DEFINE p == Preferred(d)
  <1>1. PICK failing : coverage = Coverage(failing)
    BY DEF Scanned
  <1>2. failing = {} /\ \A x \in Walked : tree[x].at # "hidden"
    <2>1. coverage.errors = failing \cup {x \in Walked : tree[x].at = "hidden"}
      BY <1>1 DEF Coverage
    <2> QED BY <2>1 DEF GateAllows
  <1>3. \A x \in SkillDirs : \A f \in FilesOf(x) : tree[x].files[f] # "link"
    <2>1. coverage.links =
            {x \in SkillDirs :
               \/ tree[x].at = "away"
               \/ \E f \in FilesOf(x) : tree[x].files[f] = "link"} \ failing
      BY <1>1 DEF Coverage
    <2> QED BY <1>2, <2>1 DEF GateAllows
  <1> SUFFICES ASSUME FilesOf(d) # {}
               PROVE  /\ p \in FilesOf(d) /\ <<d, p>> \in read
                      /\ \/ tree[d].files[p] = "clean"
                         \/ forced /\ tree[d].files[p] = "odd"
    BY <1>3 DEF DirectoryPassed
  <1>4. d \in Walked
    BY DEF FilesOf, Walked
  <1>5. p \in FilesOf(d)
    BY PreferredIsIn
  <1>6. tree[d].files[p] \in {"clean", "bad", "odd"}
    <2>1. p \in 1..FileNames /\ tree[d].files[p] # "none"
      BY <1>5 DEF FilesOf
    <2>2. tree[d] \in SkillDirectory
      OBVIOUS
    <2>3. tree[d].files \in [1..FileNames -> FileKinds]
      BY <2>2 DEF SkillDirectory
    <2>4. tree[d].files[p] \in FileKinds
      BY <2>1, <2>3
    <2>5. tree[d].files[p] # "link"
      BY <1>3, <1>5
    <2> QED BY <2>1, <2>4, <2>5 DEF FileKinds
  <1>7. PICK e \in declared : Fold[e] = Fold[d]
    <2>1. coverage.undeclared = Undeclared \ failing
      BY <1>1 DEF Coverage
    <2>2. d \notin Undeclared
      BY <1>2, <2>1 DEF GateAllows
    <2>3. \E f \in FilesOf(d) : tree[d].files[f] # "link"
      BY <1>3, <1>5
    <2> QED BY <1>4, <2>2, <2>3 DEF Undeclared
  <1>8. SpelledAs(e) = {d}
    <2>1. coverage.twins = UNION {Twins(x) : x \in declared}
      BY <1>1 DEF Coverage
    <2>2. Twins(e) = {}
      BY <2>1 DEF GateAllows
    <2>3. d \in SpelledAs(e)
      BY <1>4, <1>7 DEF SpelledAs
    <2> QED BY <2>2, <2>3, OneSpelling
  <1>9. OnDisk(e) = {d}
    <2>1. e \in Walked => e = d
      BY <1>8 DEF SpelledAs
    <2> QED BY <1>8, <2>1 DEF OnDisk
  <1>10. <<d, p>> \in ToScan
    <2>1. d \in UNION {OnDisk(x) : x \in declared}
      BY <1>9
    <2>2. <<d, p>> \in {<<x, Preferred(x)>> :
                          x \in UNION {OnDisk(y) : y \in declared}}
      BY <2>1
    <2>3. tree[<<d, p>>[1]].files[<<d, p>>[2]] # "link"
      BY <1>6
    <2> HIDE DEF p
    <2> QED BY <2>2, <2>3 DEF ToScan
  <1>11. Verdict(tree[d].files[p]) \in coverage.verdicts
    <2>1. coverage.verdicts =
            {Verdict(tree[r[1]].files[r[2]]) : r \in ToScan}
      BY <1>1 DEF Coverage
    <2> HIDE DEF p
    <2> QED BY <1>10, <2>1
  <1>12. InstallAllowed(coverage.verdicts)
    BY DEF GateAllows
  <1> HIDE DEF p
  <1>13. tree[d].files[p] # "bad" /\ (tree[d].files[p] = "odd" => forced)
    BY <1>11, <1>12 DEF InstallAllowed, Verdict
  <1> QED BY <1>5, <1>6, <1>10, <1>13 DEF Scanned

\* A step that leaves the tree and the skills of both sides alone.
LEMMA GateStays ==
  ASSUME GateInv, UNCHANGED <<inputVars, source, target>>
  PROVE  /\ tree' \in [SkillDirs -> SkillDirectory]
         /\ declared' \subseteq SkillDirs \cup {Outside}
         /\ target' = [s \in Skills |-> target'[s]]
         /\ (\E s \in Skills : target'[s] \in {"copied", "merged"}) => Vetted'
         /\ Installable' = Installable /\ (Vetted' <=> Vetted)
  <1>1. UNCHANGED <<command, forced, tree, declared, source, target>>
    BY DEF inputVars
  <1>2. Installable' = Installable
    BY <1>1 DEF Installable
  <1>3. Vetted' <=> Vetted
    BY <1>1, <1>2 DEF Vetted, InstallAllowed
  <1> QED BY <1>1, <1>2, <1>3 DEF GateInv

\* Nothing but a publication makes a plugin new.
LEMMA OldStays ==
  ASSUME GateInv, gateStep # "installed", UNCHANGED dest
  PROVE  /\ dest' = "new" => gateStep' = "installed"
         /\ InstalledWasScanned'
  BY DEF GateInv, InstalledWasScanned

LEMMA GateSteps == GateInv /\ [GateNext]_gateVars => GateInv'
  <1> SUFFICES ASSUME GateInv, [GateNext]_gateVars PROVE GateInv'
    OBVIOUS
  <1>1. CASE Clone \/ Validate \/ Invalid
    <2>1. /\ UNCHANGED <<inputVars, source, target, dest>>
          /\ gateStep # "installed"
          /\ gateStep' \in {"cloned", "failed", "valid", "refused"}
      BY <1>1 DEF Clone, Validate, Invalid, Denied, autoVars
    <2> QED BY <2>1, GateStays, OldStays DEF GateInv
  <1>2. CASE Scan
    <2>1. /\ UNCHANGED <<inputVars, source, target, dest>>
          /\ gateStep # "installed"
          /\ gateStep' \in {"scanned", "refused"}
      BY <1>2 DEF Scan, autoVars
    <2>2. ASSUME gateStep' = "scanned" PROVE Scanned'
      <3>1. \A e \in declared : Contained(e)
        BY <1>2, <2>2 DEF Scan
      <3>2. PICK failing : coverage' = Coverage(failing)
        BY <1>2, <3>1 DEF Scan
      <3>3. read' = ToScan
        BY <1>2, <3>1 DEF Scan
      <3>4. UNCHANGED <<tree, declared>>
        BY <2>1 DEF inputVars
      <3>5. /\ \A e : Contained(e)' <=> Contained(e)
            /\ ToScan' = ToScan
            /\ Coverage(failing)' = Coverage(failing)
        BY <3>4 DEF Contained, OnDisk, Walked, SpelledAs, ToScan, Coverage,
                    Undeclared, Twins, FilesOf, Preferred
      <3> QED BY <3>1, <3>2, <3>3, <3>4, <3>5 DEF Scanned
    <2> QED BY <2>1, <2>2, GateStays, OldStays DEF GateInv
  <1>3. CASE Gate
    <2>1. /\ UNCHANGED <<inputVars, source, target, dest, coverage, read>>
          /\ gateStep = "scanned"
          /\ gateStep' = IF GateAllows THEN "allowed" ELSE "refused"
      BY <1>3 DEF Gate, autoVars
    <2>2. UNCHANGED <<forced, tree, declared>>
      BY <2>1 DEF inputVars
    <2>3. (GateAllows' <=> GateAllows) /\ (Scanned' <=> Scanned)
      BY <2>1, <2>2 DEF GateAllows, InstallAllowed, Scanned, Contained, OnDisk,
                        Walked, SpelledAs, ToScan, Coverage, Undeclared, Twins,
                        FilesOf, Preferred
    <2> QED BY <2>1, <2>3, GateStays, OldStays DEF GateInv
  <1>4. CASE Publish
    <2>1. /\ UNCHANGED <<inputVars, source, target, coverage, read>>
          /\ gateStep = "allowed"
          /\ gateStep' \in {"installed", "failed"}
          /\ gateStep' = "failed" => dest' = dest
      BY <1>4 DEF Publish, autoVars
    <2>2. UNCHANGED <<forced, tree, declared>>
      BY <2>1 DEF inputVars
    <2>3. InstalledWasScanned'
      <3>1. \A d \in SkillDirs : DirectoryPassed(d)
        BY <2>1, PassedIsScanned DEF GateInv
      <3>2. \A d : FilesOf(d)' = FilesOf(d)
        BY <2>2 DEF FilesOf
      <3> QED BY <2>1, <2>2, <3>1, <3>2 DEF InstalledWasScanned, DirectoryPassed
    <2>4. dest' = "new" => gateStep' = "installed"
      BY <2>1 DEF GateInv
    <2> QED BY <2>1, <2>3, <2>4, GateStays DEF GateInv
  <1>5. CASE Classify \/ ScanAll \/ Judge
    <2>1. /\ UNCHANGED <<inputVars, source, target, dest>>
          /\ gateStep # "installed"
          /\ gateStep' \in {"classified", "judged", "done", "copying"}
      BY <1>5 DEF Classify, ScanAll, Judge
    <2>2. gateStep' \in {"classified", "judged"} => copyable' = Installable
      BY <1>5 DEF Classify, ScanAll, Judge, Installable, GateInv
    <2>3. gateStep' = "judged" =>
            found' = {Verdict(source[s].root) : s \in copyable'}
      BY <1>5 DEF Classify, ScanAll, Judge
    <2>4. gateStep' = "copying" => Vetted /\ copyable' \subseteq Installable
      BY <1>5 DEF Classify, ScanAll, Judge, Chosen, GateInv, Vetted
    <2> QED BY <2>1, <2>2, <2>3, <2>4, GateStays, OldStays DEF GateInv
  <1>6. CASE Copy
    <2>1. PICK s \in copyable :
             /\ copyable' = copyable \ {s}
             /\ \/ /\ target' = [target EXCEPT ![s] =
                                   IF @ = "files" THEN "merged" ELSE "copied"]
                   /\ gateStep' = IF copyable' = {} THEN "done" ELSE "copying"
                \/ gateStep' = "failed" /\ UNCHANGED target
      BY <1>6 DEF Copy
    <2>2. /\ gateStep = "copying" /\ s \in Installable /\ Vetted
          /\ UNCHANGED <<command, forced, tree, declared, dest, source>>
      BY <1>6, <2>1 DEF Copy, inputVars, GateInv
    <2>3. /\ target' = [t \in Skills |-> target'[t]]
          /\ \A t \in Skills : target'[t] = "own" <=> target[t] = "own"
      BY <2>1, <2>2 DEF GateInv, Installable
    <2>4. Installable' = Installable
      BY <2>2, <2>3 DEF Installable
    <2>5. Vetted'
      BY <2>2, <2>4 DEF Vetted, InstallAllowed
    <2>6. gateStep' \in {"done", "copying", "failed"}
      BY <2>1
    <2> QED BY <2>1, <2>2, <2>3, <2>4, <2>5, <2>6, OldStays DEF GateInv
  <1>7. CASE UNCHANGED gateVars
    <2>1. UNCHANGED <<inputVars, source, target, dest, coverage, read, gateStep,
                      copyable, found>>
      BY <1>7 DEF gateVars, inputVars
    <2>2. UNCHANGED <<forced, tree, declared>>
      BY <2>1 DEF inputVars
    <2>3. (GateAllows' <=> GateAllows) /\ (Scanned' <=> Scanned)
      BY <2>1, <2>2 DEF GateAllows, InstallAllowed, Scanned, Contained, OnDisk,
                        Walked, SpelledAs, ToScan, Coverage, Undeclared, Twins,
                        FilesOf, Preferred
    <2>4. InstalledWasScanned'
      BY <2>1, <2>2 DEF GateInv, InstalledWasScanned, FilesOf
    <2> QED BY <2>1, <2>3, <2>4, GateStays DEF GateInv
  <1> QED BY <1>1, <1>2, <1>3, <1>4, <1>5, <1>6, <1>7 DEF GateNext

\* A plugin is not installed around the scan: for any tree, any folding of
\* names and any number of spellings, every directory with a skill file had the
\* preferred one read and let through, declared or not, differing in case or
\* not, and there is no link (skill-scanner.ts:607-804); a second spelling in
\* the same directory is not promised. And no folder is copied beside one whose
\* root SKILL.md is refused (auto-skill-install.ts:112-131), for any number of
\* skills; the files below the roots are not promised.
THEOREM NothingPassesUnread == GateSpec => []GateHolds
  <1>1. GateStart => GateInv
    <2> SUFFICES ASSUME GateStart PROVE GateInv
      OBVIOUS
    <2>1. tree \in [SkillDirs -> SkillDirectory]
      BY GateAssumption DEF GateAssumption, GateStart, NoTree, SkillDirectory,
                            FileKinds
    <2>2. /\ target \in [Skills -> {"none", "files", "own"}]
          /\ declared \subseteq SkillDirs \cup {Outside}
      BY DEF GateStart
    <2> QED BY <2>1, <2>2 DEF GateStart, GateInit, GateInv, InstalledWasScanned
  <1>2. GateInv => GateHolds
    <2> SUFFICES ASSUME GateInv PROVE OneRefusedNoneCopied
      BY DEF GateHolds, GateInv
    <2> SUFFICES ASSUME Vetted, NEW s \in Skills, target[s] # "own"
                 PROVE  /\ source[s].root # "bad"
                        /\ source[s].root = "odd" => forced
      BY DEF OneRefusedNoneCopied, GateInv
    <2>1. CASE source[s].root = "none"
      BY <2>1
    <2>2. CASE source[s].root # "none"
      BY <2>2 DEF Vetted, Installable, InstallAllowed, Verdict
    <2> QED BY <2>1, <2>2
  <1> QED BY <1>1, <1>2, GateSteps, PTL DEF GateSpec

-----------------------------------------------------------------------------
(* The plugins of the project in its files.                                 *)

Pieces == [kind : {"text", "start", "body", "end"}, edit : Nat,
           of : SUBSET AllPlugins]
AllSettings == [state : {"absent", "broken", "ok", "odd", "array"},
                keys : SUBSET Nat, hooks : SUBSET HookOf]

SyncTypes ==
  /\ present \subseteq AllPlugins /\ detected \subseteq AllPlugins
  /\ settings \in AllSettings /\ settingsRead \in AllSettings
  /\ page \in Seq(Pieces) /\ pageRead \in Seq(Pieces)
  /\ told \in [page : BOOLEAN, hooks : SUBSET HookOf]
  /\ userEdits \in Nat
  /\ syncStep \in {"idle", "detected", "page", "filling", "wired", "settings",
                   "saving", "finished"}

\* Where the user's texts and keys are: while a file is rewritten, those that
\* were in it are in the process only.
Home == Texts(page) \cup settings.keys
        \cup (IF syncStep = "filling" THEN Texts(NewPage) ELSE {})
        \cup (IF syncStep = "saving" THEN settingsRead.keys ELSE {})
NoneLost == written \ lost \subseteq Home
\* Before the section was written the result has none.
PageTold ==
  told.page => /\ syncStep \in {"wired", "settings", "saving", "finished"}
               /\ Piece("body", 0, Wanted) \in Range(page)
HooksTold ==
  /\ syncStep # "finished" => told.hooks = {}
  /\ settingsRead.state # "array" => told.hooks \subseteq settings.hooks
\* What was read of the settings has the hooks of the file or none.
HooksRead ==
  syncStep = "settings" =>
    WiredHooks # {} /\ settingsRead.hooks \in {settings.hooks, {}}

SyncInv == /\ SyncTypes /\ NoneLost /\ PageTold /\ HooksTold /\ HooksRead
           /\ HooksFollowPlugins

-----------------------------------------------------------------------------

\* Pages put one after the other, and a part of a page.
LEMMA JoinedRange ==
  ASSUME NEW s \in Seq(Pieces), NEW t \in Seq(Pieces)
  PROVE  s \o t \in Seq(Pieces) /\ Range(s \o t) = Range(s) \cup Range(t)
  <1> DEFINE u == s \o t
  <1>1. /\ u \in Seq(Pieces) /\ Len(u) = Len(s) + Len(t)
        /\ \A i \in 1..(Len(s) + Len(t)) :
             u[i] = IF i <= Len(s) THEN s[i] ELSE t[i - Len(s)]
    BY ConcatProperties
  <1>2. /\ Len(s) \in Nat /\ Len(t) \in Nat
        /\ DOMAIN s = 1..Len(s) /\ DOMAIN t = 1..Len(t)
    OBVIOUS
  <1> HIDE DEF u
  <1>3. DOMAIN u = 1..(Len(s) + Len(t))
    BY <1>1, LenProperties
  <1>4. ASSUME NEW i \in DOMAIN s PROVE s[i] \in Range(u)
    <2>1. i \in DOMAIN u /\ u[i] = s[i]
      BY <1>1, <1>2, <1>3
    <2> QED BY <2>1 DEF Range
  <1>5. ASSUME NEW i \in DOMAIN t PROVE t[i] \in Range(u)
    <2>1. Len(s) + i \in DOMAIN u /\ Len(s) + i > Len(s)
      BY <1>2, <1>3
    <2>2. u[Len(s) + i] = t[i]
      BY <1>1, <1>2, <1>3, <2>1
    <2> QED BY <2>1, <2>2 DEF Range
  <1>6. ASSUME NEW i \in DOMAIN u PROVE u[i] \in Range(s) \cup Range(t)
    <2>1. CASE i <= Len(s)
      <3>1. i \in DOMAIN s /\ u[i] = s[i]
        BY <1>1, <1>2, <1>3, <2>1
      <3> QED BY <3>1 DEF Range
    <2>2. CASE i > Len(s)
      <3>1. i - Len(s) \in DOMAIN t /\ u[i] = t[i - Len(s)]
        BY <1>1, <1>2, <1>3, <2>2
      <3> QED BY <3>1 DEF Range
    <2> QED BY <1>2, <1>3, <2>1, <2>2
  <1>7. Range(u) = Range(s) \cup Range(t)
    BY <1>4, <1>5, <1>6 DEF Range
  <1> QED BY <1>1, <1>7 DEF u

LEMMA SliceRange ==
  ASSUME NEW s \in Seq(Pieces), NEW m \in 1..(Len(s) + 1), NEW n \in 0..Len(s)
  PROVE  /\ SubSeq(s, m, n) \in Seq(Pieces)
         /\ Range(SubSeq(s, m, n)) = {s[i] : i \in m..n}
  <1> DEFINE u == SubSeq(s, m, n)
  <1>1. /\ Len(s) \in Nat /\ m \in Nat /\ n \in Nat
        /\ \A i \in m..n : i \in 1..Len(s)
    OBVIOUS
  <1>2. \A i \in m..n : s[i] \in Pieces
    BY <1>1
  <1>3. /\ u \in Seq(Pieces)
        /\ Len(u) = IF m <= n THEN n - m + 1 ELSE 0
        /\ \A i \in 1..(n - m + 1) : u[i] = s[m + i - 1]
    BY <1>1, <1>2, SubSeqProperties
  <1> HIDE DEF u
  <1>4. DOMAIN u = 1..(n - m + 1)
    <2>1. DOMAIN u = 1..Len(u)
      BY <1>3, LenProperties
    <2> QED BY <1>1, <1>3, <2>1
  <1>5. ASSUME NEW i \in DOMAIN u PROVE u[i] \in {s[j] : j \in m..n}
    <2>1. m + i - 1 \in m..n /\ u[i] = s[m + i - 1]
      BY <1>1, <1>3, <1>4
    <2> QED BY <2>1
  <1>6. ASSUME NEW j \in m..n PROVE s[j] \in Range(u)
    <2>1. j - m + 1 \in 1..(n - m + 1) /\ m + (j - m + 1) - 1 = j
      BY <1>1
    <2>2. j - m + 1 \in DOMAIN u /\ u[j - m + 1] = s[j]
      BY <1>3, <1>4, <2>1
    <2> QED BY <2>2 DEF Range
  <1>7. Range(u) = {s[i] : i \in m..n}
    BY <1>5, <1>6 DEF Range
  <1> QED BY <1>3, <1>7 DEF u

\* The first piece of a kind is where it is said to be.
LEMMA FirstIsThere ==
  ASSUME NEW s \in Seq(Pieces), NEW k
  PROVE  /\ FirstOf(k, s) \in 0..Len(s)
         /\ FirstOf(k, s) # 0 => s[FirstOf(k, s)].kind = k
  <1> DEFINE is == {i \in 1..Len(s) : s[i].kind = k}
  <1>1. FirstOf(k, s) = IF is # {} THEN Min(is) ELSE 0
    BY DEF FirstOf, SelectInSeq
  <1>2. is \in SUBSET Nat /\ Len(s) \in Nat
    OBVIOUS
  <1>3. ASSUME is # {} PROVE Min(is) \in is
    <2> HIDE DEF is
    <2>1. PICK n \in is : \A m \in is : n <= m
      BY <1>2, <1>3, LeastExists
    <2> QED BY <2>1 DEF Min
  <1>4. CASE is = {}
    BY <1>1, <1>2, <1>4
  <1>5. CASE is # {}
    <2>1. FirstOf(k, s) \in is
      BY <1>1, <1>3, <1>5
    <2> QED BY <1>2, <2>1
  <1> QED BY <1>4, <1>5

\* What is taken out of a page has no text but the one between the markers,
\* whatever markers there are and in whatever order.
LEMMA CleanedKeeps ==
  ASSUME NEW s \in Seq(Pieces)
  PROVE  /\ Cleaned(s) \in Seq(Pieces)
         /\ Texts(s) \ Inside(s) \subseteq Texts(Cleaned(s))
  <1> DEFINE a == FirstOf("start", s)
             b == FirstOf("end", s)
             front == SubSeq(s, 1, a - 1)
             back == SubSeq(s, b + 1, Len(s))
  <1>1. CASE a = 0 \/ b = 0
    <2>1. Cleaned(s) = s
      BY <1>1 DEF Cleaned
    <2> QED BY <2>1
  <1>2. CASE a # 0 /\ b # 0
    <2>1. Cleaned(s) = front \o back
      BY <1>2 DEF Cleaned
    <2>2. /\ a \in 1..Len(s) /\ s[a].kind = "start"
          /\ b \in 1..Len(s) /\ s[b].kind = "end"
          /\ Len(s) \in Nat /\ DOMAIN s = 1..Len(s)
      BY <1>2, FirstIsThere
    <2>3. \A j \in DOMAIN s : a < j /\ j < b /\ s[j].kind = "text"
                                => s[j].edit \in Inside(s)
      BY <1>2 DEF Inside
    <2> HIDE DEF a, b
    <2>4. /\ front \in Seq(Pieces) /\ Range(front) = {s[i] : i \in 1..(a - 1)}
      <3>1. 1 \in 1..(Len(s) + 1) /\ a - 1 \in 0..Len(s)
        BY <2>2
      <3> QED BY <3>1, SliceRange
    <2>5. /\ back \in Seq(Pieces)
          /\ Range(back) = {s[i] : i \in (b + 1)..Len(s)}
      <3>1. b + 1 \in 1..(Len(s) + 1) /\ Len(s) \in 0..Len(s)
        BY <2>2
      <3> QED BY <3>1, SliceRange
    <2> HIDE DEF front, back
    <2>6. /\ front \o back \in Seq(Pieces)
          /\ Range(front \o back) = Range(front) \cup Range(back)
      BY <2>4, <2>5, JoinedRange
    <2>7. ASSUME NEW n \in Texts(s) \ Inside(s)
          PROVE  n \in Texts(front \o back)
      <3>1. PICK i \in DOMAIN s : s[i].kind = "text" /\ s[i].edit = n
        BY DEF Texts, Range
      <3>2. i # a /\ i # b /\ ~(a < i /\ i < b)
        BY <2>2, <2>3, <3>1
      <3>3. i \in 1..(a - 1) \/ i \in (b + 1)..Len(s)
        BY <2>2, <3>2
      <3>4. s[i] \in Range(front \o back)
        BY <2>4, <2>5, <2>6, <3>3
      <3> QED BY <3>1, <3>4 DEF Texts
    <2> QED BY <2>1, <2>6, <2>7
  <1> QED BY <1>1, <1>2

\* The new page has what is left and the list of the plugins.
LEMMA SyncedKeeps ==
  ASSUME SyncTypes, NEW s \in Seq(Pieces)
  PROVE  /\ Synced(s) \in Seq(Pieces)
         /\ Texts(s) \ Inside(s) \subseteq Texts(Synced(s))
         /\ Wanted # {} => Piece("body", 0, Wanted) \in Range(Synced(s))
  <1> DEFINE c == IF Wanted # {} THEN Section(Wanted) ELSE <<>>
  <1>1. /\ Cleaned(s) \in Seq(Pieces)
        /\ Texts(s) \ Inside(s) \subseteq Texts(Cleaned(s))
    BY CleanedKeeps
  <1>2. /\ c \in Seq(Pieces)
        /\ Wanted # {} => Piece("body", 0, Wanted) \in Range(c)
    <2>1. Wanted \in SUBSET AllPlugins
      BY DEF SyncTypes, Wanted
    <2>2. /\ Marker("start") \in Pieces /\ Marker("end") \in Pieces
          /\ Piece("body", 0, Wanted) \in Pieces
      BY <2>1 DEF Marker, Piece, Pieces
    <2>3. CASE Wanted = {}
      BY <2>3
    <2>4. CASE Wanted # {}
      <3>1. c = <<Marker("start"), Piece("body", 0, Wanted), Marker("end")>>
        BY <2>4 DEF Section
      <3> HIDE DEF c
      <3>2. /\ c \in Seq(Pieces) /\ 2 \in DOMAIN c
            /\ c[2] = Piece("body", 0, Wanted)
        BY <2>2, <3>1
      <3> QED BY <3>2 DEF Range
    <2> QED BY <2>3, <2>4
  <1> HIDE DEF c
  <1>3. /\ Cleaned(s) \o c \in Seq(Pieces)
        /\ Range(Cleaned(s) \o c) = Range(Cleaned(s)) \cup Range(c)
    BY <1>1, <1>2, JoinedRange
  <1>4. Synced(s) = Cleaned(s) \o c
    BY DEF Synced, c
  <1>5. Texts(Cleaned(s)) \subseteq Texts(Cleaned(s) \o c)
    BY <1>3 DEF Texts
  <1> QED BY <1>1, <1>2, <1>3, <1>4, <1>5

-----------------------------------------------------------------------------

LEMMA SyncReads ==
  SyncInv /\ (Detect \/ DetectFails \/ ReadPage \/ ReadSettings) => SyncInv'
  <1> SUFFICES ASSUME SyncInv,
                      Detect \/ DetectFails \/ ReadPage \/ ReadSettings
               PROVE  SyncInv'
    OBVIOUS
  <1> USE DEF SyncInv, SyncTypes, NoneLost, Home, PageTold, HooksTold,
              HooksRead, HooksFollowPlugins, userVars, Wanted, WiredHooks
  <1>1. <<>> \in Seq(Pieces) /\ NoSettings \in AllSettings
    BY DEF NoSettings, SettingsFile, AllSettings
  <1>2. CASE Detect
    BY <1>2 DEF Detect
  <1>3. CASE DetectFails
    BY <1>3 DEF DetectFails, localVars
  <1>4. CASE ReadPage
    BY <1>1, <1>4 DEF ReadPage, PageFails, PageDone
  <1>5. CASE ReadSettings
    <2>1. /\ settingsRead' \in {NoSettings, settings} /\ syncStep = "wired"
          /\ syncStep' = "settings" /\ WiredHooks # {}
          /\ UNCHANGED <<userVars, listed, page, settings, detected, pageRead,
                         wireErrors, told, lost>>
      BY <1>5 DEF ReadSettings
    <2>2. settingsRead' \in AllSettings
      BY <1>1, <2>1
    <2>3. settingsRead'.hooks \in {settings.hooks, {}}
      BY <2>1 DEF NoSettings, SettingsFile
    <2> QED BY <2>1, <2>2, <2>3
  <1> QED BY <1>2, <1>3, <1>4, <1>5

\* Emptied, the page is in the process; what was written since it was read, or
\* stands between the markers, is not.
LEMMA SyncEmptiesPage == SyncInv /\ WirePage => SyncInv'
  <1> SUFFICES ASSUME SyncInv, WirePage PROVE SyncInv'
    OBVIOUS
  <1> USE DEF SyncInv, userVars
  <1>1. /\ syncStep = "page" /\ <<>> \in Seq(Pieces)
        /\ UNCHANGED <<present, userEdits, written, settings, detected,
                       settingsRead, told>>
        /\ ~told.page
    BY DEF WirePage, PageTold
  <1>2. Wanted' = Wanted /\ WiredHooks' = WiredHooks
    BY <1>1 DEF Wanted, WiredHooks
  <1>3. CASE PageDone /\ page' = page /\ lost' = lost
    BY <1>1, <1>2, <1>3 DEF PageDone, SyncTypes, NoneLost, Home, PageTold,
                        HooksTold, HooksRead, HooksFollowPlugins
  <1>4. CASE /\ page' = <<>> /\ syncStep' = "filling"
             /\ lost' = lost \cup (Texts(page) \ Texts(pageRead))
                             \cup Inside(pageRead)
             /\ UNCHANGED <<pageRead, wireErrors>>
    <2>1. Texts(pageRead) \ Inside(pageRead) \subseteq Texts(NewPage)
      BY SyncedKeeps DEF NewPage, SyncTypes
    <2>2. NewPage' = NewPage
      BY <1>2, <1>4 DEF NewPage, Synced
    <2>3. NoneLost'
      <3>1. written \ lost \subseteq Texts(page) \cup settings.keys
        BY <1>1 DEF NoneLost, Home
      <3>2. written' \ lost' \subseteq Texts(NewPage) \cup settings.keys
        BY <1>1, <1>4, <2>1, <3>1
      <3>3. Texts(NewPage) \cup settings.keys \subseteq Home'
        BY <1>1, <1>4, <2>2 DEF Home
      <3> QED BY <3>2, <3>3 DEF NoneLost
    <2> QED BY <1>1, <1>2, <1>4, <2>3 DEF SyncTypes, PageTold, HooksTold,
                              HooksRead, HooksFollowPlugins
  <1> QED BY <1>3, <1>4 DEF WirePage, PageFails

\* A page that is filled, or cut short by an error or a death.
LEMMA FilledKeeps ==
  ASSUME SyncInv, syncStep = "filling", NEW n \in 0..(Len(NewPage) - 1),
         Filled(n), settings' = settings, written' = written,
         syncStep' \in {"wired", "idle"}
  PROVE  page' \in Seq(Pieces) /\ NoneLost'
  <1>1. NewPage \in Seq(Pieces)
    BY SyncedKeeps DEF NewPage, SyncInv, SyncTypes
  <1>2. page' \in Seq(Pieces)
    <2>1. Len(NewPage) \in Nat
      BY <1>1
    <2>2. 1 \in 1..(Len(NewPage) + 1) /\ n \in 0..Len(NewPage)
      BY <2>1
    <2> QED BY <1>1, <2>2, SliceRange DEF Filled
  <1>3. written \ lost \subseteq
          Texts(NewPage) \cup Texts(page) \cup settings.keys
    BY DEF SyncInv, NoneLost, Home
  <1>4. lost' = lost \cup Texts(page) \cup (Texts(NewPage) \ Texts(page'))
    BY DEF Filled
  <1>5. written' \ lost' \subseteq Texts(page') \cup settings'.keys
    BY <1>3, <1>4
  <1>6. Home' = Texts(page') \cup settings'.keys
    BY DEF Home
  <1> QED BY <1>2, <1>5, <1>6 DEF NoneLost

LEMMA SyncFillsPage == SyncInv /\ FillPage => SyncInv'
  <1> SUFFICES ASSUME SyncInv, FillPage PROVE SyncInv'
    OBVIOUS
  <1>1. /\ syncStep = "filling" /\ syncStep' = "wired" /\ pageRead' = <<>>
        /\ <<>> \in Seq(Pieces)
        /\ UNCHANGED <<present, userEdits, written, settings, detected,
                       settingsRead>>
    BY DEF FillPage, PageFails, PageDone, userVars
  <1>2. Wanted' = Wanted /\ WiredHooks' = WiredHooks
    BY <1>1 DEF Wanted, WiredHooks
  <1>3. /\ SyncTypes /\ told.hooks = {} /\ ~told.page
        /\ told \in [page : BOOLEAN, hooks : SUBSET HookOf]
    BY <1>1 DEF SyncInv, SyncTypes, HooksTold, PageTold
  <1>4. CASE /\ page' = NewPage
             /\ lost' = lost \cup (Texts(page) \ Texts(NewPage))
             /\ told' = [told EXCEPT !.page = Wanted # {}]
    <2>1. /\ NewPage \in Seq(Pieces)
          /\ Wanted # {} => Piece("body", 0, Wanted) \in Range(NewPage)
      BY <1>3, SyncedKeeps DEF NewPage, SyncTypes
    <2>2. /\ told' \in [page : BOOLEAN, hooks : SUBSET HookOf]
          /\ told'.hooks = {} /\ (told'.page => Wanted # {})
      BY <1>3, <1>4
    <2>3. NoneLost'
      <3>1. written \ lost \subseteq
              Texts(NewPage) \cup Texts(page) \cup settings.keys
        BY <1>1 DEF SyncInv, NoneLost, Home
      <3>2. Home' = Texts(NewPage) \cup settings.keys
        BY <1>1, <1>4 DEF Home
      <3> QED BY <1>1, <1>4, <3>1, <3>2 DEF NoneLost
    <2>4. PageTold'
      BY <1>1, <1>2, <1>4, <2>1, <2>2 DEF PageTold
    <2> QED BY <1>1, <1>3, <1>4, <2>1, <2>2, <2>3, <2>4
          DEF SyncInv, SyncTypes, HooksTold, HooksRead, HooksFollowPlugins
  <1>5. CASE /\ \E n \in 0..(Len(NewPage) - 1) : Filled(n)
             /\ told' = told
    <2>1. page' \in Seq(Pieces) /\ NoneLost'
      BY <1>1, <1>5, FilledKeeps
    <2> QED BY <1>1, <1>3, <1>5, <2>1
          DEF SyncInv, SyncTypes, PageTold, HooksTold, HooksRead,
              HooksFollowPlugins
  <1> QED BY <1>4, <1>5 DEF FillPage

\* The settings are as they should be, or are emptied, or stay as they are.
LEMMA SyncWiresSettings == SyncInv /\ WireSettings => SyncInv'
  <1> SUFFICES ASSUME SyncInv, WireSettings PROVE SyncInv'
    OBVIOUS
  <1>1. /\ syncStep = "settings" /\ told.hooks = {}
        /\ UNCHANGED <<present, userEdits, written, page, detected, pageRead,
                       settingsRead, told>>
    BY DEF WireSettings, userVars, SyncInv, HooksTold
  <1>2. Wanted' = Wanted /\ WiredHooks' = WiredHooks
    BY <1>1 DEF Wanted, WiredHooks
  <1>3. CASE /\ syncStep' = "finished" /\ UNCHANGED <<settings, lost>>
             /\ \/ "settings" \in wireErrors'
                \/ settingsRead.hooks = WiredHooks
    <2>1. HooksFollowPlugins'
      BY <1>1, <1>2, <1>3 DEF HooksFollowPlugins, SyncInv, HooksRead
    <2> QED BY <1>1, <1>2, <1>3, <2>1
          DEF SyncInv, SyncTypes, NoneLost, Home, PageTold, HooksTold, HooksRead
  <1>4. CASE /\ settings' = TornSettings /\ syncStep' = "saving"
             /\ lost' = lost \cup (settings.keys \ settingsRead.keys)
    <2>1. settings' \in AllSettings
      BY <1>4 DEF TornSettings, SettingsFile, AllSettings
    <2> QED BY <1>1, <1>2, <1>4, <2>1
          DEF SyncInv, SyncTypes, NoneLost, Home, PageTold, HooksTold,
              HooksRead, HooksFollowPlugins
  <1> QED BY <1>3, <1>4 DEF WireSettings, SettingsFail

\* Settings that were emptied and are left so.
LEMMA TornKeeps ==
  ASSUME SyncInv, syncStep = "saving", settings' = TornSettings,
         lost' = Unsaved, page' = page, written' = written,
         syncStep' \in {"finished", "idle"}
  PROVE  settings' \in AllSettings /\ NoneLost'
  <1>1. settings' \in AllSettings /\ settings'.keys = {}
    BY DEF TornSettings, SettingsFile, AllSettings
  <1>2. Home' = Texts(page)
    BY <1>1 DEF Home
  <1>3. written \ lost \subseteq
          Texts(page) \cup settings.keys \cup settingsRead.keys
    BY DEF SyncInv, NoneLost, Home
  <1> QED BY <1>1, <1>2, <1>3 DEF NoneLost, Unsaved

LEMMA SyncSavesSettings == SyncInv /\ SaveSettings => SyncInv'
  <1> SUFFICES ASSUME SyncInv, SaveSettings PROVE SyncInv'
    OBVIOUS
  <1>1. /\ syncStep = "saving" /\ syncStep' = "finished" /\ told.hooks = {}
        /\ UNCHANGED <<present, userEdits, written, page, detected, pageRead,
                       settingsRead>>
    BY DEF SaveSettings, SettingsFail, userVars, SyncInv, HooksTold
  <1>2. Wanted' = Wanted /\ WiredHooks' = WiredHooks
    BY <1>1 DEF Wanted, WiredHooks
  <1>3. /\ settingsRead \in AllSettings /\ WiredHooks \in SUBSET HookOf
        /\ told \in [page : BOOLEAN, hooks : SUBSET HookOf]
    BY DEF SyncInv, SyncTypes, WiredHooks
  <1>4. CASE /\ settings' = NewSettings
             /\ lost' = lost \cup (settings.keys \ NewSettings.keys)
             /\ told' = [told EXCEPT !.hooks = WiredHooks \ settingsRead.hooks]
    <2>1. /\ NewSettings \in AllSettings
          /\ NewSettings.keys = settingsRead.keys
          /\ settingsRead.state # "array" => NewSettings.hooks = WiredHooks
      BY <1>3 DEF NewSettings, AllSettings
    <2>2. /\ told' \in [page : BOOLEAN, hooks : SUBSET HookOf]
          /\ told'.hooks \subseteq WiredHooks /\ told'.page = told.page
      BY <1>3, <1>4
    <2>3. NoneLost'
      BY <1>1, <1>4, <2>1 DEF SyncInv, NoneLost, Home
    <2>4. HooksFollowPlugins' /\ HooksTold'
      BY <1>1, <1>2, <1>4, <2>1, <2>2 DEF HooksFollowPlugins, HooksTold
    <2> QED BY <1>1, <1>2, <1>4, <2>1, <2>2, <2>3, <2>4
          DEF SyncInv, SyncTypes, PageTold, HooksRead
  <1>5. CASE /\ settings' = TornSettings /\ lost' = Unsaved
             /\ SettingsFail /\ told' = told
    <2>1. settings' \in AllSettings /\ NoneLost'
      BY <1>1, <1>5, TornKeeps
    <2>2. "settings" \in wireErrors'
      BY <1>5 DEF SettingsFail
    <2> QED BY <1>1, <1>2, <1>5, <2>1, <2>2
          DEF SyncInv, SyncTypes, PageTold, HooksTold, HooksRead,
              HooksFollowPlugins
  <1> QED BY <1>4, <1>5 DEF SaveSettings

\* The command ends, or is killed.
LEMMA SyncEnds == SyncInv /\ (SyncFinish \/ SyncDies) => SyncInv'
  <1> SUFFICES ASSUME SyncInv, SyncFinish \/ SyncDies PROVE SyncInv'
    OBVIOUS
  <1>1. /\ syncStep' = "idle" /\ detected' = {} /\ pageRead' = <<>>
        /\ settingsRead' = NoSettings /\ told' = NothingTold
        /\ UNCHANGED <<present, userEdits, written>>
    BY DEF SyncFinish, SyncDies, Over, userVars
  <1>2. /\ <<>> \in Seq(Pieces) /\ NoSettings \in AllSettings
        /\ NothingTold \in [page : BOOLEAN, hooks : SUBSET HookOf]
        /\ ~NothingTold.page /\ NothingTold.hooks = {}
    BY DEF NoSettings, SettingsFile, AllSettings, NothingTold
  <1>3. page' \in Seq(Pieces) /\ settings' \in AllSettings /\ NoneLost'
    <2>1. CASE /\ syncStep \notin {"filling", "saving"}
               /\ UNCHANGED <<page, settings, lost>>
      BY <1>1, <2>1 DEF SyncInv, SyncTypes, NoneLost, Home
    <2>2. CASE /\ syncStep = "filling" /\ settings' = settings
               /\ \E n \in 0..(Len(NewPage) - 1) : Filled(n)
      <3>1. settings' \in AllSettings
        BY <2>2 DEF SyncInv, SyncTypes
      <3> QED BY <1>1, <2>2, <3>1, FilledKeeps
    <2>3. CASE /\ syncStep = "saving" /\ settings' = TornSettings
               /\ lost' = Unsaved /\ page' = page
      <3>1. page' \in Seq(Pieces)
        BY <2>3 DEF SyncInv, SyncTypes
      <3> QED BY <1>1, <2>3, <3>1, TornKeeps
    <2> QED BY <2>1, <2>2, <2>3 DEF SyncFinish, SyncDies
  <1> QED BY <1>1, <1>2, <1>3 DEF SyncInv, SyncTypes, PageTold, HooksTold,
                                  HooksRead, HooksFollowPlugins

\* The user writes anywhere, and takes markers out; nothing else goes.
LEMMA InsertedStays ==
  ASSUME NEW s \in Seq(Pieces), NEW i \in 1..(Len(s) + 1), NEW x \in Pieces
  PROVE  /\ InsertAt(s, i, x) \in Seq(Pieces)
         /\ Range(InsertAt(s, i, x)) = Range(s) \cup {x}
  <1> DEFINE front == SubSeq(s, 1, i - 1)
             back == SubSeq(s, i, Len(s))
  <1>1. Len(s) \in Nat /\ DOMAIN s = 1..Len(s) /\ i \in Nat
    OBVIOUS
  <1>2. front \in Seq(Pieces) /\ Range(front) = {s[j] : j \in 1..(i - 1)}
    <2>1. 1 \in 1..(Len(s) + 1) /\ i - 1 \in 0..Len(s)
      BY <1>1
    <2> QED BY <2>1, SliceRange
  <1>3. back \in Seq(Pieces) /\ Range(back) = {s[j] : j \in i..Len(s)}
    <2>1. Len(s) \in 0..Len(s)
      BY <1>1
    <2> QED BY <2>1, SliceRange
  <1> HIDE DEF front, back
  <1>4. <<x>> \in Seq(Pieces) /\ Range(<<x>>) = {x}
    BY DEF Range
  <1>5. /\ front \o <<x>> \in Seq(Pieces)
        /\ Range(front \o <<x>>) = Range(front) \cup {x}
    BY <1>2, <1>4, JoinedRange
  <1>6. /\ (front \o <<x>>) \o back \in Seq(Pieces)
        /\ Range((front \o <<x>>) \o back) =
             Range(front) \cup {x} \cup Range(back)
    BY <1>3, <1>5, JoinedRange
  <1>7. Range(s) = Range(front) \cup Range(back)
    <2>1. \A j \in 1..Len(s) : j \in 1..(i - 1) \/ j \in i..Len(s)
      BY <1>1
    <2>2. \A j : (j \in 1..(i - 1) \/ j \in i..Len(s)) => j \in 1..Len(s)
      BY <1>1
    <2> QED BY <1>1, <1>2, <1>3, <2>1, <2>2 DEF Range
  <1>8. InsertAt(s, i, x) = (front \o <<x>>) \o back
    BY DEF InsertAt, front, back
  <1> QED BY <1>6, <1>7, <1>8

LEMMA RemovedOnly ==
  ASSUME NEW s \in Seq(Pieces), NEW i \in DOMAIN s
  PROVE  /\ RemoveAt(s, i) \in Seq(Pieces)
         /\ Range(s) \ {s[i]} \subseteq Range(RemoveAt(s, i))
  <1> DEFINE front == SubSeq(s, 1, i - 1)
             back == SubSeq(s, i + 1, Len(s))
  <1>1. Len(s) \in Nat /\ DOMAIN s = 1..Len(s) /\ i \in 1..Len(s)
    OBVIOUS
  <1>2. front \in Seq(Pieces) /\ Range(front) = {s[j] : j \in 1..(i - 1)}
    <2>1. 1 \in 1..(Len(s) + 1) /\ i - 1 \in 0..Len(s)
      BY <1>1
    <2> QED BY <2>1, SliceRange
  <1>3. back \in Seq(Pieces) /\ Range(back) = {s[j] : j \in (i + 1)..Len(s)}
    <2>1. i + 1 \in 1..(Len(s) + 1) /\ Len(s) \in 0..Len(s)
      BY <1>1
    <2> QED BY <2>1, SliceRange
  <1> HIDE DEF front, back
  <1>4. /\ front \o back \in Seq(Pieces)
        /\ Range(front \o back) = Range(front) \cup Range(back)
    BY <1>2, <1>3, JoinedRange
  <1>5. \A j \in 1..Len(s) : j = i \/ j \in 1..(i - 1) \/ j \in (i + 1)..Len(s)
    BY <1>1
  <1>6. Range(s) \ {s[i]} \subseteq Range(front) \cup Range(back)
    BY <1>1, <1>2, <1>3, <1>5 DEF Range
  <1>7. RemoveAt(s, i) = front \o back
    BY DEF RemoveAt, front, back
  <1> QED BY <1>4, <1>6, <1>7

LEMMA UserEdits == SyncInv /\ EditAnything => SyncInv'
  <1> SUFFICES ASSUME SyncInv, EditAnything PROVE SyncInv'
    OBVIOUS
  <1>1. /\ UNCHANGED <<syncStep, detected, pageRead, settingsRead, wireErrors,
                       told, lost>>
        /\ userEdits' = userEdits + 1 /\ userEdits \in Nat /\ userEdits' \in Nat
    BY DEF EditAnything, localVars, SyncInv, SyncTypes
  <1>2. /\ Wanted' = Wanted /\ WiredHooks' = WiredHooks /\ NewPage' = NewPage
    BY <1>1 DEF Wanted, WiredHooks, NewPage, Synced
  <1>3. ASSUME UNCHANGED <<page, settings, written>>,
               present' \subseteq AllPlugins
        PROVE  SyncInv'
    BY <1>1, <1>2, <1>3 DEF SyncInv, SyncTypes, NoneLost, Home, PageTold,
                    HooksTold, HooksRead, HooksFollowPlugins
  <1>4. ASSUME UNCHANGED <<settings, present>>, page' \in Seq(Pieces),
               Texts(page) \cup (written' \ written) \subseteq Texts(page'),
               \A x \in Range(page) : x.kind = "body" => x \in Range(page')
        PROVE  SyncInv'
    <2>1. NoneLost'
      <3>1. Home \cup (written' \ written) \subseteq Home'
        BY <1>1, <1>2, <1>4 DEF Home
      <3> QED BY <1>1, <3>1 DEF SyncInv, NoneLost
    <2>2. PageTold'
      <3>1. Piece("body", 0, Wanted).kind = "body"
        BY DEF Piece
      <3> QED BY <1>1, <1>2, <1>4, <3>1 DEF SyncInv, PageTold
    <2> QED BY <1>1, <1>2, <1>4, <2>1, <2>2
          DEF SyncInv, SyncTypes, HooksTold, HooksRead, HooksFollowPlugins
  <1>5. page \in Seq(Pieces) /\ settings \in AllSettings
        /\ present \subseteq AllPlugins
    BY DEF SyncInv, SyncTypes
  <1>6. CASE /\ \E p \in AllPlugins :
                  present' = IF p \in present THEN present \ {p}
                             ELSE present \cup {p}
             /\ UNCHANGED <<listed, page, settings, written>>
    <2>1. present' \subseteq AllPlugins
      BY <1>5, <1>6
    <2> QED BY <1>3, <1>6, <2>1
  <1>7. CASE /\ \E i \in 1..(Len(page) + 1) :
                  page' = InsertAt(page, i, UserText(userEdits'))
             /\ written' = written \cup {userEdits'}
             /\ UNCHANGED <<present, listed, settings>>
    <2>1. UserText(userEdits') \in Pieces
      BY <1>1 DEF UserText, Piece, Pieces
    <2>2. /\ UserText(userEdits').kind = "text"
          /\ UserText(userEdits').edit = userEdits'
      BY DEF UserText, Piece
    <2>3. /\ page' \in Seq(Pieces)
          /\ Range(page') = Range(page) \cup {UserText(userEdits')}
      BY <1>5, <1>7, <2>1, InsertedStays
    <2>4. Texts(page) \cup {userEdits'} \subseteq Texts(page')
      BY <2>2, <2>3 DEF Texts
    <2> QED BY <1>4, <1>7, <2>3, <2>4
  <1>8. CASE /\ \E i \in DOMAIN page :
                  /\ page[i].kind \in {"start", "end"}
                  /\ page' = RemoveAt(page, i)
             /\ UNCHANGED <<present, listed, settings, written>>
    <2>1. PICK i \in DOMAIN page : /\ page[i].kind \in {"start", "end"}
                                  /\ page' = RemoveAt(page, i)
      BY <1>8
    <2>2. /\ page' \in Seq(Pieces)
          /\ Range(page) \ {page[i]} \subseteq Range(page')
      BY <1>5, <2>1, RemovedOnly
    <2>3. Texts(page) \subseteq Texts(page')
      BY <2>1, <2>2 DEF Texts
    <2> QED BY <1>4, <1>8, <2>1, <2>2, <2>3
  <1>9. CASE /\ \E s \in {"ok", "broken"} :
                  settings' = SettingsFile(s, settings.keys \cup {userEdits'},
                                           settings.hooks)
             /\ written' = written \cup {userEdits'}
             /\ UNCHANGED <<present, listed, page>>
    <2>1. /\ settings' \in AllSettings /\ settings'.hooks = settings.hooks
          /\ settings'.keys = settings.keys \cup {userEdits'}
      BY <1>1, <1>5, <1>9 DEF SettingsFile, AllSettings
    <2>2. NoneLost'
      BY <1>1, <1>2, <1>9, <2>1 DEF SyncInv, NoneLost, Home
    <2> QED BY <1>1, <1>2, <1>9, <2>1, <2>2
          DEF SyncInv, SyncTypes, PageTold, HooksTold, HooksRead,
              HooksFollowPlugins
  <1>10. CASE /\ listed = TornManifest /\ listed' = {}
              /\ UNCHANGED <<present, page, settings, written>>
    BY <1>3, <1>5, <1>10
  <1> QED BY <1>6, <1>7, <1>8, <1>9, <1>10 DEF EditAnything

\* For any plugins, page, settings and number of syncs and edits, with markers
\* in any order, a write that fails, falls short or is cut off by a death: what
\* the user wrote stays but for the windows TextStays names; a sync whose
\* settings wiring did not throw has wired the hooks of exactly the plugins it
\* found, unless settings.json is an array; and what its result says is wired
\* is in the files (auto-wire.ts:154-313, plugin.ts:541-551).
THEOREM SyncKeepsItsOwn == SyncSpec => []SyncKeeps
  <1>1. SyncStart => SyncInv
    <2> SUFFICES ASSUME SyncStart PROVE SyncInv
      OBVIOUS
    <2>1. NoSettings \in AllSettings /\ settings \in AllSettings
      BY DEF SyncStart, NoSettings, SettingsFile, AllSettings
    <2>2. <<>> \in Seq(Pieces)
      OBVIOUS
    <2>3. /\ NothingTold \in [page : BOOLEAN, hooks : SUBSET HookOf]
          /\ ~NothingTold.page /\ NothingTold.hooks = {}
      BY DEF NothingTold
    <2> QED BY <2>1, <2>2, <2>3
          DEF SyncStart, SyncInit, SyncInv, SyncTypes, NoneLost, Home, PageTold,
              HooksTold, HooksRead, HooksFollowPlugins
  <1>2. SyncInv /\ [SyncNext]_syncVars => SyncInv'
    <2>1. SyncInv /\ SyncNext => SyncInv'
      BY SyncReads, SyncEmptiesPage, SyncFillsPage, SyncWiresSettings,
         SyncSavesSettings, SyncEnds, UserEdits DEF SyncNext
    <2>2. SyncInv /\ UNCHANGED syncVars => SyncInv'
      BY DEF SyncInv, SyncTypes, NoneLost, Home, PageTold, HooksTold, HooksRead,
             HooksFollowPlugins, syncVars, NewPage, Synced, Wanted, WiredHooks
    <2> QED BY <2>1, <2>2
  <1>3. SyncInv => SyncKeeps
    BY DEF SyncInv, SyncKeeps, NoneLost, Home, TextStays, PageTold, HooksTold,
           ToldIsWired
  <1> QED BY <1>1, <1>2, <1>3, PTL DEF SyncSpec

-----------------------------------------------------------------------------
(* The proofs about a directory from its access list.                       *)

LinesOf(s) == {s[i] : i \in DOMAIN s}
\* A list tells no more and no less than the directory: a named line is its
\* own entry, and the mask is printed whenever there is one.
Tells(s, d) ==
  \A l \in LinesOf(s) :
    /\ l.kind \in Kinds /\ l.w \in BOOLEAN
    /\ l.kind = "user" => /\ l.id = d.user /\ d.user # "none"
                          /\ l.w = TRUE => d.userW = TRUE
    /\ l.kind = "group" => /\ d.named = TRUE
                           /\ l.w = TRUE => d.namedW = TRUE
    /\ l.kind = "mask" => l = Line("mask", "", d.mask = "w")
ShowsMask(s, d) ==
  d.mask # "none" => Line("mask", "", d.mask = "w") \in LinesOf(s)

AclInv ==
  /\ dir \in Dirs /\ Real(dir)
  /\ printed.ran = "yes" =>
       Tells(printed.lines, dir) /\ ShowsMask(printed.lines, dir)
  /\ owner \in {"unread", "unknown", dir.owner}
  /\ owner # "unread" => printed.ran = "yes"
  /\ verdict # "none" => printed # Nothing
  /\ verdict = "list-refused" /\ printed.ran = "yes" => owner # "unread"
  /\ AclIsHonest

\* The lines of a list that was put together are those of its parts.
LEMMA JoinedLines ==
  ASSUME NEW S, NEW s \in Seq(S), NEW t \in Seq(S)
  PROVE  s \o t \in Seq(S) /\ LinesOf(s \o t) = LinesOf(s) \cup LinesOf(t)
  <1> DEFINE c == s \o t
  <1>1. /\ c \in Seq(S) /\ Len(c) = Len(s) + Len(t)
        /\ \A i \in 1..(Len(s) + Len(t)) :
             c[i] = IF i <= Len(s) THEN s[i] ELSE t[i - Len(s)]
    BY ConcatProperties
  <1>2. /\ DOMAIN s = 1..Len(s) /\ DOMAIN t = 1..Len(t)
        /\ DOMAIN c = 1..(Len(s) + Len(t))
        /\ Len(s) \in Nat /\ Len(t) \in Nat
    BY <1>1, LenProperties
  <1> HIDE DEF c
  <1>3. \A i \in DOMAIN s : i \in DOMAIN c /\ c[i] = s[i]
    BY <1>1, <1>2
  <1>4. ASSUME NEW i \in DOMAIN t
        PROVE  i + Len(s) \in DOMAIN c /\ c[i + Len(s)] = t[i]
    <2>1. /\ i + Len(s) \in 1..(Len(s) + Len(t)) /\ ~(i + Len(s) <= Len(s))
          /\ i + Len(s) - Len(s) = i
      BY <1>2
    <2>2. c[i + Len(s)] = t[i + Len(s) - Len(s)]
      BY <1>1, <2>1
    <2> QED BY <1>2, <2>1, <2>2
  <1>5. ASSUME NEW i \in DOMAIN c
        PROVE  \/ i \in DOMAIN s /\ c[i] = s[i]
               \/ \E j \in DOMAIN t : c[i] = t[j]
    <2>1. CASE i <= Len(s)
      BY <1>1, <1>2, <2>1
    <2>2. CASE i > Len(s)
      <3>1. i - Len(s) \in DOMAIN t /\ c[i] = t[i - Len(s)]
        BY <1>1, <1>2, <2>2
      <3> QED BY <3>1
    <2> QED BY <1>2, <2>1, <2>2
  <1>6. LinesOf(c) \subseteq LinesOf(s) \cup LinesOf(t)
    BY <1>5 DEF LinesOf
  <1>7. LinesOf(s) \subseteq LinesOf(c) /\ LinesOf(t) \subseteq LinesOf(c)
    BY <1>3, <1>4 DEF LinesOf
  <1> QED BY <1>1, <1>6, <1>7 DEF c

LEMMA OneLine ==
  ASSUME NEW S, NEW l \in S, NEW b
  PROVE  /\ <<l>> \in Seq(S) /\ LinesOf(<<l>>) = {l}
         /\ If(b, l) \in Seq(S)
         /\ LinesOf(If(b, l)) = IF b THEN {l} ELSE {}
  <1>1. <<l>> \in Seq(S) /\ LinesOf(<<l>>) = {l}
    BY DEF LinesOf
  <1>2. <<>> \in Seq(S) /\ LinesOf(<<>>) = {}
    BY DEF LinesOf
  <1> QED BY <1>1, <1>2 DEF If

\* getfacl prints the entries of the directory, and its mask if it has one.
LEMMA ListingTells ==
  ASSUME NEW d \in Dirs
  PROVE  /\ Tells(Listing(d), d) /\ ShowsMask(Listing(d), d)
         /\ \E S : Listing(d) \in Seq(S)
  <1> DEFINE l1 == Line("base", "owner", TRUE)
             l2 == Line("user", d.user, d.userW)
             l3 == Line("base", "group", d.group)
             l4 == Line("group", "staff", d.namedW)
             l5 == Line("mask", "", d.mask = "w")
             l6 == Line("base", "others", d.others)
             l7 == Line("default", "", TRUE)
             S == {l1, l2, l3, l4, l5, l6, l7}
             p2 == If(d.user # "none", l2)
             p4 == If(d.named, l4)
             p5 == If(d.mask # "none", l5)
             p7 == If(d.inherits, l7)
             p1 == <<l1>>
             p3 == <<l3>>
             p6 == <<l6>>
             s2 == p1 \o p2
             s3 == s2 \o p3
             s4 == s3 \o p4
             s5 == s4 \o p5
             s6 == s5 \o p6
  <1>1. Listing(d) = s6 \o p7
    BY DEF Listing
  <1>2. /\ l1.kind = "base" /\ l3.kind = "base" /\ l6.kind = "base"
        /\ l7.kind = "default"
        /\ l2.kind = "user" /\ l2.id = d.user /\ l2.w = d.userW
        /\ l4.kind = "group" /\ l4.w = d.namedW
        /\ l5.kind = "mask"
    BY DEF Line
  <1>0. /\ l1.w \in BOOLEAN /\ l2.w \in BOOLEAN /\ l3.w \in BOOLEAN
        /\ l4.w \in BOOLEAN /\ l5.w \in BOOLEAN /\ l6.w \in BOOLEAN
        /\ l7.w \in BOOLEAN
    BY DEF Line, Dirs
  <1> HIDE DEF l1, l2, l3, l4, l5, l6, l7
  <1>3. /\ l1 \in S /\ l2 \in S /\ l3 \in S /\ l4 \in S /\ l5 \in S
        /\ l6 \in S /\ l7 \in S
    OBVIOUS
  <1> HIDE DEF S
  <1>4. /\ p1 \in Seq(S) /\ LinesOf(p1) = {l1}
        /\ p3 \in Seq(S) /\ LinesOf(p3) = {l3}
        /\ p6 \in Seq(S) /\ LinesOf(p6) = {l6}
    BY <1>3, OneLine
  <1>5. /\ p2 \in Seq(S)
        /\ LinesOf(p2) = IF d.user # "none" THEN {l2} ELSE {}
    BY <1>3, OneLine
  <1>6. p4 \in Seq(S) /\ LinesOf(p4) = IF d.named THEN {l4} ELSE {}
    BY <1>3, OneLine
  <1>7. p5 \in Seq(S) /\ LinesOf(p5) = IF d.mask # "none" THEN {l5} ELSE {}
    BY <1>3, OneLine
  <1>8. p7 \in Seq(S) /\ LinesOf(p7) = IF d.inherits THEN {l7} ELSE {}
    BY <1>3, OneLine
  <1> HIDE DEF p1, p2, p3, p4, p5, p6, p7
  <1>9. s2 \in Seq(S) /\ LinesOf(s2) = {l1} \cup LinesOf(p2)
    BY <1>4, <1>5, JoinedLines
  <1> HIDE DEF s2
  <1>10. s3 \in Seq(S) /\ LinesOf(s3) = LinesOf(s2) \cup {l3}
    BY <1>4, <1>9, JoinedLines
  <1> HIDE DEF s3
  <1>11. s4 \in Seq(S) /\ LinesOf(s4) = LinesOf(s3) \cup LinesOf(p4)
    BY <1>6, <1>10, JoinedLines
  <1> HIDE DEF s4
  <1>12. s5 \in Seq(S) /\ LinesOf(s5) = LinesOf(s4) \cup LinesOf(p5)
    BY <1>7, <1>11, JoinedLines
  <1> HIDE DEF s5
  <1>13. s6 \in Seq(S) /\ LinesOf(s6) = LinesOf(s5) \cup {l6}
    BY <1>4, <1>12, JoinedLines
  <1> HIDE DEF s6
  <1>14. /\ Listing(d) \in Seq(S)
         /\ LinesOf(Listing(d)) = LinesOf(s6) \cup LinesOf(p7)
    BY <1>1, <1>8, <1>13, JoinedLines
  <1>15. ASSUME NEW l \in LinesOf(Listing(d))
         PROVE  \/ l = l1 \/ l = l3 \/ l = l6 \/ l = l7
                \/ l = l2 /\ d.user # "none"
                \/ l = l4 /\ d.named
                \/ l = l5
    BY <1>5, <1>6, <1>7, <1>8, <1>9, <1>10, <1>11, <1>12, <1>13, <1>14
  <1>16. Tells(Listing(d), d)
    <2> SUFFICES ASSUME NEW l \in LinesOf(Listing(d))
                 PROVE  /\ l.kind \in Kinds /\ l.w \in BOOLEAN
                        /\ l.kind = "user" =>
                             /\ l.id = d.user /\ d.user # "none"
                             /\ l.w = TRUE => d.userW = TRUE
                        /\ l.kind = "group" =>
                             /\ d.named = TRUE
                             /\ l.w = TRUE => d.namedW = TRUE
                        /\ l.kind = "mask" =>
                             l = Line("mask", "", d.mask = "w")
      BY DEF Tells
    <2>1. CASE l = l1 \/ l = l3 \/ l = l6 \/ l = l7
      BY <1>0, <1>2, <2>1 DEF Kinds
    <2>2. CASE l = l2 /\ d.user # "none"
      BY <1>0, <1>2, <2>2 DEF Kinds
    <2>3. CASE l = l4 /\ d.named
      BY <1>0, <1>2, <2>3 DEF Kinds, Dirs
    <2>4. CASE l = l5
      BY <1>0, <1>2, <2>4 DEF Kinds, l5
    <2> QED BY <1>15, <2>1, <2>2, <2>3, <2>4
  <1>17. ShowsMask(Listing(d), d)
    <2>1. d.mask # "none" => l5 \in LinesOf(Listing(d))
      BY <1>7, <1>12, <1>13, <1>14
    <2> QED BY <2>1 DEF ShowsMask, l5
  <1> QED BY <1>14, <1>16, <1>17

\* A line that cannot be read, behind the others, hides none of them.
LEMMA OddLineTells ==
  ASSUME NEW d \in Dirs
  PROVE  /\ Tells(Append(Listing(d), Line("odd", "", FALSE)), d)
         /\ ShowsMask(Append(Listing(d), Line("odd", "", FALSE)), d)
  <1> DEFINE odd == Line("odd", "", FALSE)
             s == Listing(d)
             c == Append(s, odd)
  <1>1. PICK T : s \in Seq(T)
    BY ListingTells
  <1>2. odd.kind = "odd" /\ odd.w \in BOOLEAN
    BY DEF Line
  <1> HIDE DEF odd
  <1>3. LinesOf(c) = LinesOf(s) \cup {odd}
    <2>1. s \in Seq(T \cup {odd}) /\ odd \in T \cup {odd}
      BY <1>1
    <2> DEFINE o == <<odd>>
    <2>2. o \in Seq(T \cup {odd}) /\ LinesOf(o) = {odd}
      BY <2>1, OneLine
    <2> HIDE DEF s
    <2>3. c = s \o o
      BY <2>1, AppendIsConcat
    <2> HIDE DEF o, c
    <2> QED BY <2>1, <2>2, <2>3, JoinedLines
  <1>4. Tells(s, d) /\ ShowsMask(s, d)
    BY ListingTells
  <1> HIDE DEF s, c
  <1>5. Tells(c, d)
    BY <1>2, <1>3, <1>4 DEF Tells, Kinds
  <1>6. ShowsMask(c, d)
    BY <1>3, <1>4 DEF ShowsMask
  <1> QED BY <1>5, <1>6 DEF s, c, odd

\* A list is refused for a line that cannot be read, or for a stranger's.
LEMMA RefusalIsForAStranger ==
  ASSUME NEW d \in Dirs, Real(d), NEW s, Tells(s, d), ShowsMask(s, d),
         ~Harmless(s, Trusted(d.owner))
  PROVE  \/ \E i \in DOMAIN s : s[i].kind = "odd"
         \/ \E w \in Writers(d) :
              w \notin {d.owner, "root", "self", "group", "others"}
  <1>1. PICK i \in DOMAIN s : ~Tolerated(s, i, Trusted(d.owner))
    BY DEF Harmless
  <1> DEFINE l == s[i]
             masks == MaskFor(s)
  <1>2. l \in LinesOf(s)
    BY DEF LinesOf
  <1>3. /\ l.kind \in Kinds
        /\ l.kind = "user" => /\ l.id = d.user /\ d.user # "none"
                              /\ l.w = TRUE => d.userW = TRUE
        /\ l.kind = "group" => /\ d.named = TRUE
                               /\ l.w = TRUE => d.namedW = TRUE
    BY <1>2 DEF Tells
  <1>4. /\ l.kind \notin {"base", "mask", "default"}
        /\ l.kind \in {"user", "group"} =>
             /\ l.w
             /\ masks = {} \/ \E m \in masks : m.w
             /\ masks = {} \/ l.kind # "user" \/ l.id \notin Trusted(d.owner)
    BY <1>1 DEF Tolerated
  <1>5. CASE l.kind = "odd"
    BY <1>5
  <1>6. CASE l.kind \in {"user", "group"}
    <2>1. d.mask # "none"
      BY <1>3, <1>6 DEF Real
    <2>2. masks # {}
      <3>1. PICK j \in DOMAIN s : s[j] = Line("mask", "", d.mask = "w")
        BY <2>1 DEF ShowsMask, LinesOf
      <3>2. s[j].kind = "mask"
        <4>1. Line("mask", "", d.mask = "w").kind = "mask"
          BY DEF Line
        <4> QED BY <3>1, <4>1, Zenon
      <3>3. s[j] \in masks
        BY <3>2 DEF MaskFor
      <3> QED BY <3>3
    <2>3. PICK m \in masks : m.w
      BY <1>4, <1>6, <2>2
    <2>4. m \in LinesOf(s) /\ m.kind = "mask"
      BY <2>3 DEF MaskFor, LinesOf
    <2>5. m = Line("mask", "", d.mask = "w")
      BY <2>4 DEF Tells
    <2>6. d.mask = "w"
      BY <2>3, <2>5 DEF Line
    <2>7. CASE l.kind = "user"
      <3>1. l.w = TRUE
        <4>1. l.w
          BY <1>4, <1>6
        <4>2. l.w \in BOOLEAN
          BY <1>2, <2>7 DEF Tells
        <4> QED BY <4>1, <4>2
      <3>2. d.userW = TRUE /\ d.user # "none" /\ l.id = d.user
        BY <1>3, <2>7, <3>1
      <3>3. d.user \in Writers(d)
        BY <2>6, <3>2 DEF Writers
      <3>4. d.user \in Users /\ d.user \notin Trusted(d.owner)
        BY <1>4, <2>2, <2>7, <3>2 DEF Dirs
      <3> QED BY <3>3, <3>4 DEF Users, Trusted
    <2>8. CASE l.kind = "group"
      <3>1. l.w = TRUE
        <4>1. l.w
          BY <1>4, <1>6
        <4>2. l.w \in BOOLEAN
          BY <1>2, <2>8 DEF Tells
        <4> QED BY <4>1, <4>2
      <3>2. d.namedW = TRUE
        BY <1>3, <2>8, <3>1
      <3>3. "staff" \in Writers(d)
        BY <2>6, <3>2 DEF Writers
      <3> QED BY <3>3 DEF Dirs, Users
    <2> QED BY <1>6, <2>7, <2>8
  <1> QED BY <1>3, <1>4, <1>5, <1>6 DEF Kinds

\* A closed directory of the user has no other writer: group bits show the
\* mask of every named entry.
LEMMA ClosedIsPrivate ==
  ASSUME NEW d \in Dirs, Real(d), OwnedAndClosed(d)
  PROVE  Writers(d) \subseteq {"root", "self"}
  <1>1. d.mask # "w" /\ d.owner \in {"root", "self"}
    BY DEF Real, OwnedAndClosed
  <1> QED BY <1>1 DEF OwnedAndClosed, Writers

LEMMA AclSteps == AclInv /\ [AclNext]_aclVars => AclInv'
  <1> SUFFICES ASSUME AclInv, [AclNext]_aclVars PROVE AclInv'
    OBVIOUS
  <1>1. dir \in Dirs /\ Real(dir) /\ AclIsHonest
    BY DEF AclInv
  <1>2. CASE Getfacl
    <2>1. /\ UNCHANGED <<dir, owner, verdict>> /\ verdict = "none"
          /\ owner = "unread"
      <3>1. printed = Nothing /\ UNCHANGED <<dir, owner, verdict>>
        BY <1>2 DEF Getfacl
      <3>2. printed.ran = "no"
        BY <3>1 DEF Nothing
      <3> QED BY <3>1, <3>2 DEF AclInv
    <2>2. printed'.ran = "yes" =>
            Tells(printed'.lines, dir) /\ ShowsMask(printed'.lines, dir)
      <3> DEFINE s == Listing(dir)
                 c == Append(Listing(dir), Line("odd", "", FALSE))
      <3>1. /\ Tells(s, dir) /\ ShowsMask(s, dir)
            /\ Tells(c, dir) /\ ShowsMask(c, dir)
        BY <1>1, ListingTells, OddLineTells
      <3>2. \/ printed' = [ran |-> "yes", lines |-> s]
            \/ printed' = [ran |-> "yes", lines |-> c]
            \/ \E failure \in Failures :
                 printed' = [ran |-> failure, lines |-> <<>>]
        BY <1>2 DEF Getfacl
      <3> HIDE DEF s, c
      <3>3. CASE printed' = [ran |-> "yes", lines |-> s]
        BY <3>1, <3>3
      <3>4. CASE printed' = [ran |-> "yes", lines |-> c]
        BY <3>1, <3>4
      <3>5. ASSUME NEW failure \in Failures,
                   printed' = [ran |-> failure, lines |-> <<>>]
            PROVE  printed'.ran # "yes"
        BY <3>5 DEF Failures
      <3> QED BY <3>2, <3>3, <3>4, <3>5
    <2> QED BY <2>1, <2>2
         DEF AclInv, AclIsHonest, ProvenIsPrivate, LenientIsExact
  <1>3. CASE StatOwner
    <2>1. /\ UNCHANGED <<dir, printed, verdict>> /\ printed.ran = "yes"
          /\ owner = "unread" /\ owner' \in {dir.owner, "unknown"}
          /\ dir.owner # "unread"
      BY <1>1, <1>3 DEF StatOwner, Dirs, Users
    <2>2. verdict # "list-refused"
      BY <2>1 DEF AclInv
    <2> QED BY <2>1, <2>2
         DEF AclInv, AclIsHonest, ProvenIsPrivate, LenientIsExact
  <1>4. CASE ProveAncestor \/ ProveContainer
    <2>1. /\ UNCHANGED <<dir, printed, owner>> /\ printed # Nothing
          /\ verdict' \in {"ancestor", "container", "refused"}
          /\ verdict' \in {"ancestor", "container"} => OwnedAndClosed(dir)
      BY <1>4 DEF ProveAncestor, ProveContainer
    <2>2. AclIsHonest'
      BY <1>1, <2>1, ClosedIsPrivate
         DEF AclIsHonest, ProvenIsPrivate, LenientIsExact
    <2> QED BY <2>1, <2>2 DEF AclInv
  <1>5. CASE ProveList
    <2>1. /\ UNCHANGED <<dir, printed, owner>> /\ printed # Nothing
          /\ printed.ran = "yes" => owner # "unread"
          /\ verdict' \in {"list", "list-refused"}
          /\ verdict' = "list-refused" =>
               \/ printed.ran # "yes" \/ owner = "unknown"
               \/ ~Harmless(printed.lines, Trusted(owner))
      BY <1>5 DEF ProveList
    <2>2. LenientIsExact'
      <3> SUFFICES ASSUME verdict' = "list-refused", printed.ran = "yes",
                          owner # "unknown"
                   PROVE  \/ \E i \in DOMAIN printed.lines :
                               printed.lines[i].kind = "odd"
                          \/ \E w \in Writers(dir) :
                               w \notin {dir.owner, "root", "self", "group",
                                         "others"}
        BY <2>1 DEF LenientIsExact
      <3>1. /\ owner = dir.owner /\ ~Harmless(printed.lines, Trusted(owner))
            /\ Tells(printed.lines, dir) /\ ShowsMask(printed.lines, dir)
        BY <2>1 DEF AclInv
      <3> QED BY <1>1, <3>1, RefusalIsForAStranger
    <2>3. AclIsHonest'
      BY <2>1, <2>2 DEF AclIsHonest, ProvenIsPrivate
    <2> QED BY <2>1, <2>3 DEF AclInv
  <1>6. CASE UNCHANGED aclVars
    BY <1>6 DEF aclVars, AclInv, AclIsHonest, ProvenIsPrivate, LenientIsExact
  <1> QED BY <1>2, <1>3, <1>4, <1>5, <1>6 DEF AclNext

\* A directory that was proven can be written to by root and by the user
\* alone, whatever its access list and whatever became of getfacl, and the
\* lenient proof refuses a list only for a stranger who may write by it or for
\* want of a reading (secure-fs-posix.ts:4-8, 67-75 and 200-252).
THEOREM AclProofsAreHonest == AclSpec => []AclIsHonest
  <1>1. AclStart => AclInv
    BY DEF AclStart, AclInv, Nothing, AclIsHonest, ProvenIsPrivate,
           LenientIsExact
  <1>2. AclInv => AclIsHonest
    BY DEF AclInv
  <1> QED BY <1>1, <1>2, AclSteps, PTL DEF AclSpec

-----------------------------------------------------------------------------
(* The bounded read.                                                        *)

Bytes == {"a", "lead2", "lead3", "tail", "nul"}
\* A file of whole characters: a lead is followed by its tail.
WholeText(f) == \A i \in DOMAIN f : \A j \in (i + 1)..(i + Width(f[i]) - 1) :
              j \in DOMAIN f /\ f[j] = "tail"
\* What was read is how the file begins.
Begins(s, f) == Len(s) <= Len(f) /\ \A i \in DOMAIN s : s[i] = f[i]

ReadInv ==
  /\ budget \in Nat
  /\ file = Gone \/ file = Directory \/ (file \in Seq(Bytes) /\ WholeText(file))
  /\ longest = Gone \/ longest = Directory \/ longest \in Seq(Bytes)
  /\ step \in {"called", "reading", "ended", "done"}
  /\ step = "called" => bytes = <<>> /\ longest = <<>>
  /\ step \in {"reading", "ended"} =>
       /\ IsFile /\ bytes \in Seq(Bytes) /\ Begins(bytes, file)
  /\ step = "ended" => Len(bytes) >= Len(longest)
  /\ step # "done" => result.says = "none" /\ result.cut = FALSE
  /\ result.cut \in BOOLEAN
  /\ CutsAreHonest

LEMMA WidthIsSmall == \A b : Width(b) \in {1, 2, 3}
  BY DEF Width

\* A file that ends with a character goes on with one.
LEMMA GrownIsWhole ==
  ASSUME NEW f \in Seq(Bytes), WholeText(f), NEW c \in Characters \cup {Binary}
  PROVE  /\ f \o c \in Seq(Bytes) /\ WholeText(f \o c)
         /\ Len(f \o c) = Len(f) + Len(c) /\ Len(c) \in Nat
         /\ \A i \in DOMAIN f : (f \o c)[i] = f[i]
  <1> DEFINE g == f \o c
  <1>1. c \in Seq(Bytes) /\ Len(c) \in 1..3
    <2>1. /\ <<"a">> \in Seq(Bytes) /\ Len(<<"a">>) = 1
          /\ <<"nul">> \in Seq(Bytes) /\ Len(<<"nul">>) = 1
      BY DEF Bytes
    <2>2. /\ <<"lead2", "tail">> \in Seq(Bytes)
          /\ Len(<<"lead2", "tail">>) = 2
      BY DEF Bytes
    <2>3. /\ <<"lead3", "tail", "tail">> \in Seq(Bytes)
          /\ Len(<<"lead3", "tail", "tail">>) = 3
      BY DEF Bytes
    <2>4. \/ c = <<"a">> \/ c = <<"nul">> \/ c = <<"lead2", "tail">>
          \/ c = <<"lead3", "tail", "tail">>
      BY DEF Characters, Binary
    <2>5. 1 \in 1..3 /\ 2 \in 1..3 /\ 3 \in 1..3
      OBVIOUS
    <2> QED BY <2>1, <2>2, <2>3, <2>4, <2>5, Zenon
  <1>2. WholeText(c)
    BY DEF Characters, Binary, Width, WholeText
  <1>3. /\ g \in Seq(Bytes) /\ Len(g) = Len(f) + Len(c)
        /\ \A i \in 1..(Len(f) + Len(c)) :
             g[i] = IF i <= Len(f) THEN f[i] ELSE c[i - Len(f)]
    BY <1>1, ConcatProperties
  <1>4. /\ DOMAIN f = 1..Len(f) /\ DOMAIN c = 1..Len(c)
        /\ DOMAIN g = 1..(Len(f) + Len(c)) /\ Len(f) \in Nat
    BY <1>1, <1>3, LenProperties
  <1> HIDE DEF g
  <1>5. \A i \in DOMAIN f : i \in DOMAIN g /\ g[i] = f[i]
    BY <1>1, <1>3, <1>4
  <1>6. ASSUME NEW i \in DOMAIN c
        PROVE  i + Len(f) \in DOMAIN g /\ g[i + Len(f)] = c[i]
    <2>1. /\ i + Len(f) \in 1..(Len(f) + Len(c)) /\ ~(i + Len(f) <= Len(f))
          /\ i + Len(f) - Len(f) = i
      BY <1>1, <1>4
    <2> QED BY <1>3, <1>4, <2>1
  <1>7. ASSUME NEW i \in DOMAIN g, NEW j \in (i + 1)..(i + Width(g[i]) - 1)
        PROVE  j \in DOMAIN g /\ g[j] = "tail"
    <2>1. CASE i <= Len(f)
      <3>1. i \in DOMAIN f /\ g[i] = f[i]
        BY <1>1, <1>4, <1>5, <2>1
      <3>2. j \in DOMAIN f /\ f[j] = "tail"
        BY <1>7, <3>1 DEF WholeText
      <3> QED BY <1>5, <3>2
    <2>2. CASE i > Len(f)
      <3>1. i \in Int /\ i - Len(f) \in DOMAIN c /\ i - Len(f) + Len(f) = i
        BY <1>1, <1>4, <2>2
      <3>2. g[i] = c[i - Len(f)]
        BY <1>6, <3>1
      <3>3. j - Len(f) \in (i - Len(f) + 1)..(i - Len(f) + Width(g[i]) - 1)
        BY <1>4, <1>7, <3>1, WidthIsSmall
      <3>4. j - Len(f) \in DOMAIN c /\ c[j - Len(f)] = "tail"
        BY <1>2, <3>1, <3>2, <3>3 DEF WholeText
      <3>5. j - Len(f) + Len(f) = j
        BY <1>4, <1>7, <3>1, WidthIsSmall
      <3> QED BY <1>6, <3>4, <3>5
    <2> QED BY <1>1, <1>4, <2>1, <2>2
  <1>8. WholeText(g)
    BY <1>7 DEF WholeText
  <1> QED BY <1>1, <1>3, <1>5, <1>8 DEF g

LEMMA LeastIs ==
  \A x, y \in Nat :
    Least(x, y) \in Nat /\ Least(x, y) \in {x, y}
    /\ Least(x, y) <= x /\ Least(x, y) <= y
  BY DEF Least

\* A chunk is what follows in the file, and something if anything follows.
LEMMA ChunkFollows ==
  ASSUME NEW f \in Seq(Bytes), NEW n \in 0..Len(f), NEW m \in Nat
  PROVE  LET c == Upto(From(f, n), m) IN
         /\ c \in Seq(Bytes) /\ Len(c) <= Len(f) - n
         /\ \A i \in 1..Len(c) : c[i] = f[n + i]
         /\ m > 0 /\ c = <<>> => Len(f) = n
  <1> DEFINE L == Len(f)
             M == L - n
             r == From(f, n)
             k == Least(m, M)
             c == SubSeq(r, 1, k)
  <1>1. L \in Nat /\ DOMAIN f = 1..L /\ n \in Nat /\ n <= L /\ M \in Nat
    BY LenProperties
  <1>2. /\ r \in Seq(Bytes)
        /\ Len(r) = IF n + 1 <= L THEN L - (n + 1) + 1 ELSE 0
        /\ \A i \in 1..(L - (n + 1) + 1) : r[i] = f[(n + 1) + i - 1]
    <2>1. \A i \in (n + 1)..L : f[i] \in Bytes
      BY <1>1
    <2> QED BY <1>1, <2>1, SubSeqProperties DEF From
  <1>3. Upto(r, m) = SubSeq(r, 1, Least(m, Len(r)))
    BY DEF Upto
  <1> HIDE DEF r, L
  <1>4. Len(r) = M /\ DOMAIN r = 1..M
    <2>1. Len(r) = M
      BY <1>1, <1>2
    <2> QED BY <1>2, <2>1, LenProperties
  <1>5. ASSUME NEW i \in 1..M PROVE r[i] = f[n + i] /\ r[i] \in Bytes
    <2>1. (n + 1) + i - 1 = n + i /\ i \in 1..(L - (n + 1) + 1)
      BY <1>1
    <2> QED BY <1>2, <1>4, <2>1
  <1> HIDE DEF M
  <1>6. k \in Nat /\ k \in {m, M} /\ k <= M
    BY <1>1, LeastIs
  <1>7. Upto(r, m) = c
    BY <1>3, <1>4
  <1> HIDE DEF k
  <1>8. /\ c \in Seq(Bytes)
        /\ Len(c) = IF 1 <= k THEN k - 1 + 1 ELSE 0
        /\ \A i \in 1..(k - 1 + 1) : c[i] = r[1 + i - 1]
    <2>1. \A i \in 1..k : r[i] \in Bytes
      BY <1>1, <1>5, <1>6
    <2> QED BY <1>6, <2>1, SubSeqProperties
  <1> HIDE DEF c
  <1>9. Len(c) = k
    BY <1>6, <1>8
  <1>10. ASSUME NEW i \in 1..Len(c) PROVE c[i] = f[n + i]
    <2>1. i \in 1..(k - 1 + 1) /\ 1 + i - 1 = i /\ i \in 1..M
      BY <1>1, <1>6, <1>9
    <2> QED BY <1>5, <1>8, <2>1
  <1>11. m > 0 /\ c = <<>> => M = 0
    BY <1>6, <1>9
  <1>12. Len(c) <= L - n /\ (M = 0 => L = n)
    BY <1>1, <1>6, <1>9 DEF M
  <1> QED BY <1>7, <1>8, <1>10, <1>11, <1>12 DEF r, L

\* What is cut back ends with a whole character.
LEMMA TrimmedIsWhole ==
  ASSUME NEW f \in Seq(Bytes), WholeText(f), NEW s \in Seq(Bytes), Begins(s, f)
  PROVE  \A i \in DOMAIN Trim(s) :
           \/ \E j \in DOMAIN Trim(s) : j > i /\ Trim(s)[j] # "tail"
           \/ Width(Trim(s)[i]) <= Len(Trim(s)) - i + 1
  <1> DEFINE cuts == {i \in 1..Len(s) :
                        /\ i > Len(s) - 3
                        /\ s[i] # "tail"
                        /\ \A j \in (i + 1)..Len(s) : s[j] = "tail"
                        /\ Len(s) - i + 1 < Width(s[i])}
             t == Trim(s)
  <1>1. Len(s) \in Nat /\ DOMAIN s = 1..Len(s) /\ DOMAIN f = 1..Len(f)
        /\ Len(f) \in Nat
    BY LenProperties
  <1>2. t = IF cuts = {} THEN s ELSE Upto(s, (CHOOSE i \in cuts : TRUE) - 1)
    BY DEF Trim
  <1> HIDE DEF t
  <1>3. CASE cuts = {}
    <2>1. t = s
      BY <1>2, <1>3
    <2>2. ASSUME NEW i \in DOMAIN s,
                 \A j \in DOMAIN s : j > i => s[j] = "tail",
                 ~(Width(s[i]) <= Len(s) - i + 1)
          PROVE  FALSE
      <3>1. Width(s[i]) \in {1, 2, 3} /\ i \in 1..Len(s)
        BY <1>1, WidthIsSmall
      <3>2. i > Len(s) - 3 /\ Len(s) - i + 1 < Width(s[i])
        BY <1>1, <2>2, <3>1
      <3>3. s[i] # "tail"
        BY <1>1, <2>2, <3>1 DEF Width
      <3>4. \A j \in (i + 1)..Len(s) : s[j] = "tail"
        BY <1>1, <2>2, <3>1
      <3>5. i \in cuts
        BY <3>1, <3>2, <3>3, <3>4
      <3> QED BY <1>3, <3>5
    <2> QED BY <2>1, <2>2 DEF t
  <1>4. CASE cuts # {}
    <2> DEFINE n == CHOOSE i \in cuts : TRUE
    <2>1. n \in cuts
      BY <1>4
    <2> HIDE DEF n
    <2>2. n \in 1..Len(s) /\ s[n] # "tail"
      BY <2>1
    <2> HIDE DEF cuts
    <2>3. t = SubSeq(s, 1, n - 1)
      <3>1. t = SubSeq(s, 1, Least(n - 1, Len(s)))
        BY <1>2, <1>4 DEF Upto, n
      <3>2. n - 1 < Len(s)
        BY <1>1, <2>2
      <3>3. Least(n - 1, Len(s)) = n - 1
        BY <3>2, Zenon DEF Least
      <3> QED BY <3>1, <3>3, Zenon
    <2>4. /\ t \in Seq(Bytes) /\ Len(t) = n - 1 /\ DOMAIN t = 1..(n - 1)
          /\ \A i \in 1..(n - 1) : t[i] = s[i]
      <3>1. /\ t \in Seq(Bytes)
            /\ Len(t) = IF 1 <= n - 1 THEN n - 1 - 1 + 1 ELSE 0
            /\ \A i \in 1..(n - 1 - 1 + 1) : t[i] = s[1 + i - 1]
        <4>1. \A i \in 1..(n - 1) : s[i] \in Bytes
          BY <1>1, <2>2
        <4> QED BY <2>2, <2>3, <4>1, SubSeqProperties
      <3>2. Len(t) = n - 1
        BY <1>1, <2>2, <3>1
      <3>3. ASSUME NEW i \in 1..(n - 1) PROVE t[i] = s[i]
        <4>1. i \in 1..(n - 1 - 1 + 1) /\ 1 + i - 1 = i
          BY <1>1, <2>2
        <4> QED BY <3>1, <4>1
      <3> QED BY <3>1, <3>2, <3>3, LenProperties
    <2>5. ASSUME NEW i \in 1..(n - 1),
                 ~(Width(t[i]) <= Len(t) - i + 1)
          PROVE  FALSE
      <3>1. Width(s[i]) \in {1, 2, 3} /\ t[i] = s[i]
        BY <2>4, WidthIsSmall
      <3>2. n \in (i + 1)..(i + Width(s[i]) - 1)
        BY <1>1, <2>2, <2>4, <2>5, <3>1
      <3>3. i \in DOMAIN s /\ n \in DOMAIN s /\ i \in DOMAIN f
        BY <1>1, <2>2 DEF Begins
      <3>4. f[i] = s[i] /\ f[n] = s[n]
        BY <3>3 DEF Begins
      <3>5. f[n] = "tail"
        BY <3>2, <3>3, <3>4 DEF WholeText
      <3> QED BY <2>2, <3>4, <3>5
    <2> QED BY <2>4, <2>5 DEF t
  <1> QED BY <1>3, <1>4

\* What the read says when it ends.
LEMMA FinishIsHonest ==
  ASSUME NEW says, NEW content, NEW cut \in BOOLEAN, Finish(says, content, cut),
         ReadInv, longest' = Gone \/ longest' = Directory
                    \/ longest' \in Seq(Bytes),
         says = "ok" /\ cut = FALSE => Len(content) >= Len(longest'),
         cut = TRUE =>
           \A i \in DOMAIN content :
             \/ \E j \in DOMAIN content : j > i /\ content[j] # "tail"
             \/ Width(content[i]) <= Len(content) - i + 1
  PROVE  ReadInv'
  <1>1. /\ step' = "done" /\ UNCHANGED <<file, budget>>
        /\ result' = [says |-> says, content |-> content, cut |-> cut]
    BY DEF Finish
  <1>2. /\ result'.says = says /\ result'.content = content
        /\ result'.cut = cut
    BY <1>1
  <1>3. CutsAreHonest'
    BY <1>2 DEF CutsAreHonest, UncutIsWhole, CutBetweenCharacters
  <1> QED BY <1>1, <1>2, <1>3 DEF ReadInv

LEMMA FileGrows == ReadInv /\ (Append1 \/ Replace) => ReadInv'
  <1> SUFFICES ASSUME ReadInv, Append1 \/ Replace PROVE ReadInv'
    OBVIOUS
  <1>1. /\ UNCHANGED <<budget, step, bytes, result, longest>>
        /\ IsFile /\ step # "done"
    BY DEF Append1, Replace
  <1>2. file \in Seq(Bytes) /\ WholeText(file)
    BY <1>1 DEF ReadInv, IsFile
  <1>3. /\ file' \in Seq(Bytes) /\ WholeText(file')
        /\ step \in {"reading", "ended"} => Begins(bytes, file')
    <2>1. CASE Append1
      <3>1. PICK c \in Characters \cup {Binary} : file' = file \o c
        BY <2>1 DEF Append1
      <3>2. /\ file' \in Seq(Bytes) /\ WholeText(file')
            /\ Len(file') = Len(file) + Len(c) /\ Len(c) \in Nat
            /\ \A i \in DOMAIN file : file'[i] = file[i]
        BY <1>2, <3>1, GrownIsWhole
      <3>3. ASSUME step \in {"reading", "ended"} PROVE Begins(bytes, file')
        <4>1. Begins(bytes, file) /\ bytes \in Seq(Bytes)
          BY <3>3 DEF ReadInv
        <4>2. \A i \in DOMAIN bytes : i \in DOMAIN file
          BY <1>2, <4>1 DEF Begins
        <4>3. Len(bytes) <= Len(file')
          BY <1>2, <3>2, <4>1 DEF Begins
        <4> QED BY <3>2, <4>1, <4>2, <4>3 DEF Begins
      <3> QED BY <3>2, <3>3
    <2>2. CASE Replace
      <3>1. bytes = <<>> /\ file' \in {<<>>, <<"a", "a">>}
        BY <2>2 DEF Replace
      <3>2. <<>> \in Seq(Bytes) /\ WholeText(<<>>)
        BY DEF WholeText
      <3>3. <<"a", "a">> \in Seq(Bytes) /\ WholeText(<<"a", "a">>)
        BY DEF WholeText, Width, Bytes
      <3>4. file' \in Seq(Bytes) /\ WholeText(file')
        BY <3>1, <3>2, <3>3
      <3>5. Len(<<>>) = 0 /\ DOMAIN <<>> = {}
        OBVIOUS
      <3>6. Len(file') \in Nat
        BY <3>4, LenProperties
      <3> QED BY <3>1, <3>4, <3>5, <3>6 DEF Begins
    <2> QED BY <2>1, <2>2
  <1>4. file' # Gone /\ file' # Directory
    <2>1. Gone \notin Seq(Bytes) /\ Directory \notin Seq(Bytes)
      BY DEF Gone, Directory, Bytes
    <2> QED BY <1>3, <2>1
  <1>5. CutsAreHonest'
    BY <1>1 DEF ReadInv, CutsAreHonest, UncutIsWhole, CutBetweenCharacters
  <1> QED BY <1>1, <1>3, <1>4, <1>5 DEF ReadInv, IsFile

LEMMA StatKeeps == ReadInv /\ Stat => ReadInv'
  <1> SUFFICES ASSUME ReadInv, Stat PROVE ReadInv'
    OBVIOUS
  <1>1. /\ step = "called" /\ bytes = <<>> /\ longest = <<>>
        /\ UNCHANGED <<bytes, longest>>
    BY DEF Stat, ReadInv
  <1>2. longest' \in Seq(Bytes) /\ Len(longest') = 0
    BY <1>1
  <1>3. \/ Finish("not-found", <<>>, FALSE)
        \/ Finish("not-a-file", <<>>, FALSE)
        \/ Finish("too-large", <<>>, FALSE)
        \/ Finish("ok", <<>>, file # <<>>)
        \/ /\ IsFile /\ step' = "reading"
           /\ UNCHANGED <<file, budget, hard, result>>
    BY DEF Stat, IsFile
  <1>4. CASE \E says \in {"not-found", "not-a-file", "too-large"} :
               Finish(says, <<>>, FALSE)
    BY <1>2, <1>4, FinishIsHonest
  <1>5. CASE Finish("ok", <<>>, file # <<>>)
    <2>1. Len(<<>>) = 0 /\ DOMAIN <<>> = {} /\ (file # <<>>) \in BOOLEAN
      OBVIOUS
    <2>2. Len(<<>>) >= Len(longest')
      BY <1>2, <2>1
    <2> QED BY <1>2, <1>5, <2>1, <2>2, FinishIsHonest
  <1>6. CASE /\ IsFile /\ step' = "reading"
             /\ UNCHANGED <<file, budget, hard, result>>
    <2>1. file \in Seq(Bytes) /\ Len(file) \in Nat
      BY <1>6, LenProperties DEF ReadInv, IsFile
    <2>2. bytes' \in Seq(Bytes) /\ Begins(bytes', file')
      BY <1>1, <1>6, <2>1 DEF Begins
    <2>3. CutsAreHonest'
      BY <1>1, <1>6 DEF ReadInv, CutsAreHonest, UncutIsWhole,
                        CutBetweenCharacters
    <2> QED BY <1>1, <1>6, <2>2, <2>3 DEF ReadInv, IsFile
  <1> QED BY <1>3, <1>4, <1>5, <1>6

LEMMA ReadChunkKeeps == ReadInv /\ ReadChunk => ReadInv'
  <1> SUFFICES ASSUME ReadInv, ReadChunk PROVE ReadInv'
    OBVIOUS
  <1> DEFINE n == Len(bytes)
             m == Least(Chunk, budget - n)
             c == Upto(From(file, n), m)
  <1>1. step = "reading" /\ n < budget
    BY DEF ReadChunk
  <1>2. /\ IsFile /\ file \in Seq(Bytes) /\ WholeText(file)
        /\ Begins(bytes, file)
        /\ bytes \in Seq(Bytes) /\ budget \in Nat
    BY <1>1 DEF ReadInv, IsFile
  <1>3. Len(file) \in Nat /\ n \in 0..Len(file) /\ DOMAIN bytes = 1..n
    BY <1>2, LenProperties DEF Begins
  <1>4. m \in Nat /\ m > 0
    <2>1. budget - n \in Nat /\ budget - n > 0 /\ Chunk \in Nat /\ Chunk > 0
      BY <1>1, <1>2, <1>3, ReadAssumption
    <2> QED BY <2>1, LeastIs
  <1>5. \/ Finish("binary", <<>>, FALSE) /\ UNCHANGED <<bytes, longest>>
        \/ /\ bytes' = bytes \o c
           /\ step' = IF c = <<>> THEN "ended" ELSE step
           /\ longest' = IF c = <<>> THEN file ELSE longest
           /\ UNCHANGED <<file, budget, hard, size, result>>
    BY DEF ReadChunk
  <1> HIDE DEF m
  <1>6. /\ c \in Seq(Bytes) /\ Len(c) <= Len(file) - n
        /\ \A i \in 1..Len(c) : c[i] = file[n + i]
        /\ c = <<>> => Len(file) = n
    BY <1>2, <1>3, <1>4, ChunkFollows
  <1> HIDE DEF c
  <1>7. CASE Finish("binary", <<>>, FALSE) /\ UNCHANGED <<bytes, longest>>
    BY <1>7, FinishIsHonest DEF ReadInv
  <1>8. CASE /\ bytes' = bytes \o c
             /\ step' = IF c = <<>> THEN "ended" ELSE step
             /\ longest' = IF c = <<>> THEN file ELSE longest
             /\ UNCHANGED <<file, budget, hard, size, result>>
    <2>1. Len(c) \in Nat /\ DOMAIN c = 1..Len(c)
      BY <1>6, LenProperties
    <2>2. /\ bytes' \in Seq(Bytes) /\ Len(bytes') = n + Len(c)
          /\ \A i \in 1..(n + Len(c)) :
               bytes'[i] = IF i <= n THEN bytes[i] ELSE c[i - n]
      BY <1>2, <1>6, <1>8, ConcatProperties
    <2>3. DOMAIN bytes' = 1..(n + Len(c))
      BY <2>2, LenProperties
    <2>4. ASSUME NEW i \in DOMAIN bytes' PROVE bytes'[i] = file[i]
      <3>1. CASE i <= n
        <4>1. i \in DOMAIN bytes /\ bytes'[i] = bytes[i]
          BY <1>3, <2>1, <2>2, <2>3, <3>1
        <4> QED BY <1>2, <4>1 DEF Begins
      <3>2. CASE i > n
        <4>1. bytes'[i] = c[i - n] /\ i - n \in 1..Len(c) /\ n + (i - n) = i
          BY <1>3, <2>1, <2>2, <2>3, <3>2
        <4> QED BY <1>6, <4>1
      <3> QED BY <1>3, <2>1, <2>3, <3>1, <3>2
    <2>5. Begins(bytes', file')
      <3>1. Len(bytes') <= Len(file)
        BY <1>3, <1>6, <2>1, <2>2
      <3> QED BY <1>8, <2>4, <3>1 DEF Begins
    <2>6. step' = "ended" => Len(bytes') >= Len(longest')
      BY <1>1, <1>3, <1>6, <1>8, <2>1, <2>2
    <2>7. CutsAreHonest'
      BY <1>1, <1>8 DEF ReadInv, CutsAreHonest, UncutIsWhole,
                        CutBetweenCharacters
    <2>8. /\ longest' = Gone \/ longest' = Directory \/ longest' \in Seq(Bytes)
          /\ step' \in {"reading", "ended"}
      BY <1>1, <1>2, <1>8 DEF ReadInv
    <2> QED BY <1>1, <1>2, <1>8, <2>2, <2>5, <2>6, <2>7, <2>8
         DEF ReadInv, IsFile
  <1> QED BY <1>5, <1>7, <1>8

LEMMA ConcludeKeeps == ReadInv /\ Conclude => ReadInv'
  <1> SUFFICES ASSUME ReadInv, Conclude PROVE ReadInv'
    OBVIOUS
  <1>1. /\ step \in {"reading", "ended"}
        /\ step = "reading" => Len(bytes) >= budget
        /\ Finish("ok", Decoded(Cut), Cut)
        /\ longest' = IF step = "ended" THEN longest ELSE file
    BY DEF Conclude
  <1>2. /\ IsFile /\ file \in Seq(Bytes) /\ WholeText(file)
        /\ Begins(bytes, file)
        /\ bytes \in Seq(Bytes) /\ budget \in Nat
        /\ step = "ended" => Len(bytes) >= Len(longest)
    BY <1>1 DEF ReadInv, IsFile
  <1>3. Len(file) \in Nat /\ Len(bytes) \in Nat
    BY <1>2, LenProperties
  <1>4. CASE Cut = TRUE
    <2>1. Decoded(Cut) = Trim(bytes)
      BY <1>4 DEF Decoded
    <2>2. Finish("ok", Trim(bytes), TRUE)
      BY <1>1, <1>4, <2>1
    <2> QED BY <1>1, <1>2, <2>2, TrimmedIsWhole, FinishIsHonest DEF ReadInv
  <1>5. CASE Cut = FALSE
    <2>1. Decoded(Cut) = bytes
      BY <1>5 DEF Decoded
    <2>2. Finish("ok", bytes, FALSE)
      BY <1>1, <1>5, <2>1
    <2>3. Len(bytes) >= Len(longest')
      BY <1>1, <1>2, <1>3, <1>5 DEF Cut
    <2> QED BY <1>1, <1>2, <2>2, <2>3, FinishIsHonest DEF ReadInv
  <1> QED BY <1>4, <1>5 DEF Cut

\* For any budget and chunk, however the file grows or is replaced: a read that
\* says it is not cut returned every byte the file had when its end was looked
\* at, and a cut falls between two characters (safe-read.ts:94-119, 242-274).
THEOREM ReadsAreHonest == ReadSpec => []CutsAreHonest
  <1>1. ReadStart => ReadInv
    <2> SUFFICES ASSUME ReadStart PROVE ReadInv
      OBVIOUS
    <2>1. <<>> \in Seq(Bytes) /\ WholeText(<<>>) /\ Len(<<>>) = 0
      BY DEF WholeText
    <2>2. budget \in Nat
      BY ReadAssumption DEF ReadStart
    <2>3. CutsAreHonest
      BY DEF ReadStart, CutsAreHonest, UncutIsWhole, CutBetweenCharacters
    <2> QED BY <2>1, <2>2, <2>3 DEF ReadStart, ReadInv
  <1>2. ReadInv /\ [ReadNext]_readVars => ReadInv'
    <2>1. ReadInv /\ IoError => ReadInv'
      <3> SUFFICES ASSUME ReadInv, IoError PROVE ReadInv'
        OBVIOUS
      <3>1. Finish("io-error", <<>>, FALSE) /\ UNCHANGED <<bytes, longest>>
        BY DEF IoError
      <3> QED BY <3>1, FinishIsHonest DEF ReadInv
    <2>2. ReadInv /\ UNCHANGED readVars => ReadInv'
      BY DEF ReadInv, readVars, IsFile, CutsAreHonest, UncutIsWhole,
             CutBetweenCharacters
    <2> QED BY <2>1, <2>2, FileGrows, StatKeeps, ReadChunkKeeps, ConcludeKeeps
         DEF ReadNext
  <1>3. ReadInv => CutsAreHonest
    BY DEF ReadInv
  <1> QED BY <1>1, <1>2, <1>3, PTL DEF ReadSpec

-----------------------------------------------------------------------------
(* What hooks and ci make of the config.                                    *)

AllSections == UNION {Features(h) : h \in Hooks}
Met == {"clean", "problem", "error", "no-tool"}
\* A section came across nothing that its hook must stop for.
PassedBy(calls, on, name, s) == SectionOk(calls) \/ ~Blocking(on, name, s)

\* Where the hook is: the sections left have not run, the others that are on
\* have, and only the one it stopped at failed.
Turns(h, out) ==
  /\ h.left \subseteq Composed(h.on, h.name)
  /\ \A s \in Features(h.name) :
       \/ ~Enabled(h.on, h.name, s) /\ out[s] = <<"unseen">>
       \/ s \in h.left
       \/ /\ Enabled(h.on, h.name, s) /\ out[s] \in Seq(Met)
          /\ PassedBy(out[s], h.on, h.name, s)
  /\ h.exit = "0" => h.left = {}
  /\ h.exit = "1" =>
       \E s \in Composed(h.on, h.name) :
         out[s] \in Seq(Met) /\ ~PassedBy(out[s], h.on, h.name, s)
HookIs(on) == [name : Hooks \cup {"none", "post-merge"}, loaded : BOOLEAN,
               on : {on}, left : SUBSET AllSections,
               exit : {"none", "0", "1"}]
AllDocs == [yaml : {"mapping", "absent", "broken", "scalar"},
            version : {1, 2, 3}, unknown : BOOLEAN,
            runners : Lists, gates : Lists,
            hooks : {"absent", "scalar", "mapping"},
            set : [Feature -> {"unset", "on", "off", "warn", "strict", "bad"}]]

ConfigInv ==
  /\ doc \in AllDocs
  /\ doc.hooks = "absent" => doc.set = Unset
  /\ doc.yaml = "absent" => doc.runners = Absent /\ doc.gates = Absent
  /\ hook \in HookIs(hook.on)
  /\ DOMAIN outcome = AllSections
  /\ hook.name = "none" => outcome = NoOutcome /\ hook.exit = "none"
  /\ hook.name \in Hooks /\ hook.loaded = TRUE => Turns(hook, outcome)
  /\ hook.loaded = FALSE => hook.exit = "1"
  /\ hook.name = "post-merge" => hook.exit = "1"
  /\ AlwaysSomethingToRun

\* Every call of a section has one of four ends.
LEMMA CallsAreMet ==
  ASSUME NEW s, NEW calls \in Calls(s) PROVE calls \in Seq(Met)
  <1>1. ASSUME NEW c \in Staged PROVE c \in Seq(Met)
    <2>1. PICK n \in 0..2 : c \in [1..n -> {"clean", "problem"}]
      BY <1>1 DEF Staged
    <2>2. c \in [1..n -> Met] /\ n \in Nat
      BY <2>1 DEF Met
    <2> QED BY <2>2
  <1>2. ASSUME NEW c \in StagedCalls PROVE c \in Seq(Met)
    <2>1. CASE c \in Staged
      BY <1>1, <2>1
    <2>2. ASSUME NEW d \in Staged, c = Append(d, "error")
          PROVE  c \in Seq(Met)
      <3>1. d \in Seq(Met) /\ "error" \in Met
        BY <1>1 DEF Met
      <3> QED BY <2>2, <3>1, AppendProperties
    <2> QED BY <2>1, <2>2 DEF StagedCalls
  <1>3. /\ <<>> \in Seq(Met) /\ <<"no-tool">> \in Seq(Met)
        /\ <<"clean">> \in Seq(Met) /\ <<"problem">> \in Seq(Met)
        /\ <<"error">> \in Seq(Met)
    BY DEF Met
  <1> QED BY <1>2, <1>3 DEF Calls, AuditCalls, TestCalls, CiCalls

LEMMA MetIsSeen ==
  ASSUME NEW calls \in Seq(Met)
  PROVE  /\ calls # <<"unseen">>
         /\ SectionOk(calls) <=>
              ~\E i \in DOMAIN calls : calls[i] \in {"problem", "error"}
  <1>1. ASSUME calls = <<"unseen">> PROVE FALSE
    <2>1. Len(calls) = 1 /\ calls[1] = "unseen"
      BY <1>1
    <2>2. DOMAIN calls = 1..Len(calls)
      OBVIOUS
    <2>3. 1 \in DOMAIN calls
      BY <2>1, <2>2
    <2>4. calls[1] \in Met
      BY <2>3
    <2> QED BY <2>1, <2>4 DEF Met
  <1>2. \A i \in DOMAIN calls : calls[i] \in Met
    OBVIOUS
  <1>3. SectionOk(calls) <=>
          \A i \in DOMAIN calls : calls[i] \in {"clean", "no-tool"}
    BY DEF SectionOk, ToSet
  <1> QED BY <1>1, <1>2, <1>3 DEF Met

LEMMA SectionsOfHooks ==
  ASSUME NEW name \in Hooks PROVE Features(name) \subseteq AllSections
  BY DEF AllSections

\* The invariant holds what the hook's exit means.
LEMMA TurnsDecide == ConfigInv => ConfigDecides
  <1> SUFFICES ASSUME ConfigInv, hook.exit # "none", hook.name \in Hooks
               PROVE  ZeroIffPassed
    BY DEF ConfigInv, ConfigDecides, ZeroIffPassed
  <1> DEFINE Failed(s) == \E i \in DOMAIN outcome[s] :
                            outcome[s][i] \in {"problem", "error"}
             On(s) == hook.on[<<hook.name, s>>]
             Blocks == {s \in Features(hook.name) :
                          On(s) \notin {"off", "warn"}}
  <1>1. /\ hook.loaded \in BOOLEAN
        /\ hook.loaded = FALSE => hook.exit = "1"
        /\ hook.loaded = TRUE => Turns(hook, outcome)
    BY DEF ConfigInv, HookIs
  <1>2. \A s : outcome[s] \in Seq(Met) =>
          /\ outcome[s] # <<"unseen">>
          /\ SectionOk(outcome[s]) <=> ~Failed(s)
    BY MetIsSeen
  <1>3. \A s : /\ Enabled(hook.on, hook.name, s) <=> On(s) # "off"
               /\ Blocking(hook.on, hook.name, s) <=> On(s) # "warn"
    BY DEF Enabled, Blocking
  <1> HIDE DEF Failed, On
  <1>4. ASSUME hook.exit = "0"
        PROVE  /\ hook.loaded
               /\ \A s \in Blocks : ~Failed(s)
               /\ \A s \in Features(hook.name) :
                    On(s) = "off" <=> outcome[s] = <<"unseen">>
    <2>1. hook.loaded = TRUE /\ Turns(hook, outcome)
      BY <1>1, <1>4
    <2>2. \A s \in Features(hook.name) :
            \/ On(s) = "off" /\ outcome[s] = <<"unseen">>
            \/ /\ On(s) # "off" /\ outcome[s] \in Seq(Met)
               /\ SectionOk(outcome[s]) \/ On(s) = "warn"
      BY <1>3, <1>4, <2>1 DEF Turns, PassedBy
    <2> QED BY <1>2, <2>1, <2>2
  <1>5. ASSUME hook.exit = "1"
        PROVE  ~hook.loaded \/ \E s \in Blocks : Failed(s)
    <2> SUFFICES ASSUME hook.loaded = TRUE PROVE \E s \in Blocks : Failed(s)
      BY <1>1
    <2>1. PICK s \in Composed(hook.on, hook.name) :
            /\ outcome[s] \in Seq(Met)
            /\ ~PassedBy(outcome[s], hook.on, hook.name, s)
      BY <1>1, <1>5 DEF Turns
    <2>2. s \in Features(hook.name) /\ On(s) # "off" /\ On(s) # "warn"
      BY <1>3, <2>1 DEF Composed, PassedBy
    <2>3. Failed(s)
      BY <1>2, <2>1 DEF PassedBy
    <2> QED BY <2>2, <2>3
  <1> QED BY <1>4, <1>5 DEF ZeroIffPassed, Failed, On

\* A hook that begins has run nothing, and one that cannot load its config
\* ends.
LEMMA HookBegins ==
  ASSUME ConfigInv, NEW name \in Hooks \cup {"post-merge"}, RunHook(name)
  PROVE  ConfigInv'
  <1>1. /\ hook.name = "none" /\ UNCHANGED <<doc, outcome, resolved>>
        /\ outcome = NoOutcome
    BY DEF RunHook, ConfigInv
  <1>2. AlwaysSomethingToRun'
    BY <1>1 DEF ConfigInv, AlwaysSomethingToRun
  <1>3. CASE name \in Hooks /\ Loads(doc)
    <2> DEFINE on == HooksOf(doc)
               left == Composed(on, name)
    <2>1. hook' = [name |-> name, loaded |-> TRUE, on |-> on, left |-> left,
                   exit |-> "none"]
      BY <1>3 DEF RunHook, NoHook
    <2>2. left \subseteq Features(name) /\ left \subseteq AllSections
      BY <1>3, SectionsOfHooks DEF Composed
    <2> HIDE DEF on
    <2>3. \A s \in Features(name) : s \in left \/ ~Enabled(on, name, s)
      BY DEF Composed
    <2>4. \A s \in Features(name) : outcome[s] = <<"unseen">>
      BY <1>1, <1>3, SectionsOfHooks DEF NoOutcome, AllSections
    <2> HIDE DEF left
    <2>5. /\ hook'.name = name /\ hook'.on = on /\ hook'.left = left
          /\ hook'.exit = "none" /\ hook'.loaded = TRUE
          /\ name # "none" /\ name # "post-merge"
      BY <1>3, <2>1 DEF Hooks
    <2>6. hook' \in HookIs(hook'.on)
      BY <2>1, <2>2, <2>5 DEF HookIs
    <2>7. Turns(hook', outcome')
      BY <1>1, <2>3, <2>4, <2>5 DEF Turns, left
    <2> QED BY <1>1, <1>2, <2>5, <2>6, <2>7 DEF ConfigInv
  <1>4. CASE ~(name \in Hooks /\ Loads(doc))
    <2>1. hook' = [name |-> name, loaded |-> FALSE, on |-> DefaultHooks,
                   left |-> {}, exit |-> "1"]
      BY <1>4 DEF RunHook, NoHook
    <2>2. /\ hook'.name = name /\ hook'.on = DefaultHooks
          /\ hook'.exit = "1" /\ hook'.loaded = FALSE /\ name # "none"
      BY <2>1 DEF Hooks
    <2>3. hook' \in HookIs(hook'.on)
      BY <2>1, <2>2 DEF HookIs
    <2> QED BY <1>1, <1>2, <2>2, <2>3 DEF ConfigInv
  <1> QED BY <1>3, <1>4

\* One section runs; a hook that had stopped runs no more.
LEMMA SectionRuns == ConfigInv /\ RunSection => ConfigInv'
  <1> SUFFICES ASSUME ConfigInv, RunSection PROVE ConfigInv'
    OBVIOUS
  <1>1. PICK s \in hook.left : \E calls \in Calls(s) :
          /\ outcome' = [outcome EXCEPT ![s] = calls]
          /\ hook' = IF SectionOk(calls) \/ ~Blocking(hook.on, hook.name, s)
                     THEN [hook EXCEPT !.left = @ \ {s}]
                     ELSE [hook EXCEPT !.exit = "1"]
    BY DEF RunSection
  <1>2. PICK calls \in Calls(s) :
          /\ outcome' = [outcome EXCEPT ![s] = calls]
          /\ hook' = IF SectionOk(calls) \/ ~Blocking(hook.on, hook.name, s)
                     THEN [hook EXCEPT !.left = @ \ {s}]
                     ELSE [hook EXCEPT !.exit = "1"]
    BY <1>1
  <1>3. /\ hook.name # "none" /\ hook.exit = "none"
        /\ UNCHANGED <<doc, resolved>> /\ hook \in HookIs(hook.on)
        /\ DOMAIN outcome = AllSections
    BY DEF RunSection, ConfigInv
  <1>4. hook.name \in Hooks /\ hook.loaded = TRUE /\ Turns(hook, outcome)
    BY <1>3 DEF ConfigInv, HookIs
  <1>5. /\ s \in AllSections /\ calls \in Seq(Met)
        /\ s \in Composed(hook.on, hook.name)
        /\ hook.left \subseteq Composed(hook.on, hook.name)
    BY <1>1, <1>2, <1>3, <1>4, CallsAreMet DEF HookIs, Turns
  <1>6. s \in Features(hook.name) /\ Enabled(hook.on, hook.name, s)
    BY <1>5 DEF Composed
  <1>7. /\ DOMAIN outcome' = AllSections /\ outcome'[s] = calls
        /\ \A r : r # s /\ r \in AllSections => outcome'[r] = outcome[r]
    BY <1>2, <1>3, <1>5
  <1>8. \A r \in Features(hook.name) : r \in AllSections
    BY <1>4, SectionsOfHooks
  <1>9. \A r \in Features(hook.name) \ {s} :
          \/ ~Enabled(hook.on, hook.name, r) /\ outcome'[r] = <<"unseen">>
          \/ r \in hook.left
          \/ /\ Enabled(hook.on, hook.name, r) /\ outcome'[r] \in Seq(Met)
             /\ PassedBy(outcome'[r], hook.on, hook.name, r)
    BY <1>4, <1>7, <1>8 DEF Turns
  <1>10. AlwaysSomethingToRun'
    BY <1>3 DEF ConfigInv, AlwaysSomethingToRun
  <1>11. CASE PassedBy(calls, hook.on, hook.name, s)
    <2>1. hook' = [hook EXCEPT !.left = @ \ {s}]
      BY <1>2, <1>11 DEF PassedBy
    <2>2. /\ hook'.name = hook.name /\ hook'.on = hook.on
          /\ hook'.left = hook.left \ {s} /\ hook'.exit = "none"
          /\ hook'.loaded = TRUE /\ hook' \in HookIs(hook.on)
      BY <1>3, <1>4, <2>1 DEF HookIs
    <2>3. Turns(hook', outcome')
      BY <1>5, <1>6, <1>7, <1>9, <1>11, <2>2 DEF Turns
    <2> QED BY <1>3, <1>4, <1>7, <1>10, <2>2, <2>3 DEF ConfigInv, Hooks
  <1>12. CASE ~PassedBy(calls, hook.on, hook.name, s)
    <2>1. hook' = [hook EXCEPT !.exit = "1"]
      BY <1>2, <1>12 DEF PassedBy
    <2>2. /\ hook'.name = hook.name /\ hook'.on = hook.on
          /\ hook'.left = hook.left /\ hook'.exit = "1"
          /\ hook'.loaded = TRUE /\ hook' \in HookIs(hook.on)
      BY <1>3, <1>4, <2>1 DEF HookIs
    <2>3. Turns(hook', outcome')
      <3>1. \E r \in Composed(hook.on, hook.name) :
              /\ outcome'[r] \in Seq(Met)
              /\ ~PassedBy(outcome'[r], hook.on, hook.name, r)
        BY <1>5, <1>7, <1>12
      <3> QED BY <1>1, <1>5, <1>9, <2>2, <3>1 DEF Turns
    <2> QED BY <1>3, <1>4, <1>7, <1>10, <2>2, <2>3 DEF ConfigInv, Hooks
  <1> QED BY <1>11, <1>12

LEMMA HookPasses == ConfigInv /\ PassHook => ConfigInv'
  <1> SUFFICES ASSUME ConfigInv, PassHook PROVE ConfigInv'
    OBVIOUS
  <1>1. /\ hook.name # "none" /\ hook.exit = "none" /\ hook.left = {}
        /\ hook' = [hook EXCEPT !.exit = "0"]
        /\ UNCHANGED <<doc, outcome, resolved>> /\ hook \in HookIs(hook.on)
    BY DEF PassHook, ConfigInv
  <1>2. hook.name \in Hooks /\ hook.loaded = TRUE /\ Turns(hook, outcome)
    BY <1>1 DEF ConfigInv, HookIs
  <1>3. /\ hook'.name = hook.name /\ hook'.on = hook.on
        /\ hook'.left = {} /\ hook'.exit = "0"
        /\ hook'.loaded = TRUE /\ hook' \in HookIs(hook.on)
    BY <1>1, <1>2 DEF HookIs
  <1>4. Turns(hook', outcome')
    BY <1>1, <1>2, <1>3 DEF Turns
  <1>5. AlwaysSomethingToRun'
    BY <1>1 DEF ConfigInv, AlwaysSomethingToRun
  <1> QED BY <1>1, <1>2, <1>3, <1>4, <1>5 DEF ConfigInv, Hooks

\* The lists of a document are lists.
LEMMA ListsAreLists ==
  ASSUME NEW l \in Lists
  PROVE  l.entries # <<>> => DOMAIN l.entries # {}
  <1>1. \/ l.entries = <<>> \/ \E e : l.entries = <<e>>
        \/ \E e, f : l.entries = <<e, f>>
    BY DEF Lists, Absent, Mapping, List
  <1>2. \A e : DOMAIN <<e>> = {1}
    OBVIOUS
  <1>3. \A e, f : DOMAIN <<e, f>> = {1, 2}
    OBVIOUS
  <1> QED BY <1>1, <1>2, <1>3

LEMMA ResolvesToSomething ==
  ASSUME ConfigInv, NEW given, NEW markers, Resolve(given, markers)
  PROVE  ConfigInv'
  <1>1. UNCHANGED <<doc, changed, hook, outcome>>
    BY DEF Resolve
  <1>2. AlwaysSomethingToRun'
    <2>1. \A r : <<r>> # <<>>
      OBVIOUS
    <2>2. CASE resolved'.source \in {"none", "refused"}
      BY <2>2 DEF AlwaysSomethingToRun
    <2>3. CASE resolved'.source = "stack-override" \/ resolved'.source = "auto"
      <3>1. \E r : resolved'.runners = <<r>>
        BY <2>3 DEF Resolve
      <3> QED BY <2>1, <3>1 DEF AlwaysSomethingToRun
    <2>4. CASE resolved'.source = "config"
      <3> DEFINE entries == doc.runners.entries
                 made == [i \in DOMAIN entries |->
                            Runner("rust", entries[i].name, {})]
      <3>1. /\ resolved'.runners = made
            /\ resolved'.gates = (doc.gates.entries # <<>>)
            /\ Declares(doc)
        BY <2>4 DEF Resolve
      <3>2. entries # <<>> \/ resolved'.gates
        BY <3>1 DEF Declares
      <3>3. ASSUME entries # <<>> PROVE made # <<>>
        <4>1. doc.runners \in Lists
          BY DEF ConfigInv, AllDocs
        <4>2. DOMAIN entries # {}
          BY <3>3, <4>1, ListsAreLists
        <4>3. DOMAIN made = DOMAIN entries /\ DOMAIN <<>> = {}
          OBVIOUS
        <4> QED BY <4>2, <4>3
      <3> QED BY <3>1, <3>2, <3>3 DEF AlwaysSomethingToRun
    <2>5. resolved'.source \in {"none", "refused", "stack-override", "auto",
                                "config"}
      BY DEF Resolve
    <2> QED BY <2>2, <2>3, <2>4, <2>5
  <1> QED BY <1>1, <1>2 DEF ConfigInv

LEMMA NewDocIsADoc == NewDoc \in AllDocs
  <1>1. Unset \in [Feature -> {"unset", "on", "off", "warn", "strict", "bad"}]
    BY DEF Unset
  <1>2. Absent \in Lists
    BY DEF Lists
  <1> QED BY <1>1, <1>2 DEF NewDoc, AllDocs

LEMMA ConfigBegins == ConfigStart => ConfigInv
  <1> SUFFICES ASSUME ConfigStart PROVE ConfigInv
    OBVIOUS
  <1> DEFINE V == {"unset", "on", "off", "warn", "strict", "bad"}
  <1>1. /\ doc \in AllDocs
        /\ doc.hooks = "absent" => doc.set = Unset
        /\ doc.yaml = "absent" => doc.runners = Absent /\ doc.gates = Absent
    <2>1. ASSUME doc \in [yaml : {"mapping"}, version : {1, 2, 3},
                          unknown : BOOLEAN, runners : Lists, gates : Lists,
                          hooks : {"absent", "scalar", "mapping"},
                          set : {Unset}]
          PROVE  /\ doc \in AllDocs /\ doc.set = Unset
                 /\ doc.yaml = "mapping"
      <3>1. Unset \in [Feature -> V]
        BY DEF Unset
      <3> QED BY <2>1, <3>1 DEF AllDocs
    <2>2. ASSUME doc \in [yaml : {"mapping"}, version : {2},
                          unknown : {FALSE},
                          runners : {Absent, List(<<Entry("a")>>)},
                          gates : {Absent}, hooks : {"mapping"},
                          set : OneOfEach]
          PROVE  /\ doc \in AllDocs /\ doc.hooks = "mapping"
                 /\ doc.yaml = "mapping"
      <3>1. /\ {Absent, List(<<Entry("a")>>)} \subseteq Lists
            /\ Absent \in Lists
        BY DEF Lists
      <3>2. OneOfEach \subseteq [Feature -> V]
        BY DEF OneOfEach
      <3> QED BY <2>2, <3>1, <3>2 DEF AllDocs
    <2>3. ASSUME NEW y \in {"absent", "broken", "scalar"},
                 doc = [NewDoc EXCEPT !.yaml = y]
          PROVE  /\ doc \in AllDocs /\ doc.set = Unset
                 /\ doc.runners = Absent /\ doc.gates = Absent
      <3>1. /\ NewDoc.set = Unset /\ NewDoc.runners = Absent
            /\ NewDoc.gates = Absent
        BY DEF NewDoc
      <3> QED BY <2>3, <3>1, NewDocIsADoc DEF AllDocs
    <2> QED BY <2>1, <2>2, <2>3 DEF ConfigStart
  <1>2. hook = NoHook /\ outcome = NoOutcome /\ resolved = NotResolved
    BY DEF ConfigStart
  <1>3. /\ hook.name = "none" /\ hook.exit = "none" /\ hook.loaded = TRUE
        /\ hook \in HookIs(hook.on) /\ hook.name \notin Hooks
    BY <1>2 DEF NoHook, HookIs, Hooks
  <1>4. DOMAIN outcome = AllSections
    BY <1>2 DEF NoOutcome, AllSections
  <1>5. AlwaysSomethingToRun
    BY <1>2 DEF AlwaysSomethingToRun, NotResolved
  <1> QED BY <1>1, <1>2, <1>3, <1>4, <1>5 DEF ConfigInv

LEMMA FeatureIsSet ==
  ASSUME ConfigInv, NEW f \in Feature, SetHookFeature(f)
  PROVE  ConfigInv'
  <1>1. UNCHANGED <<hook, outcome, resolved>>
    BY DEF SetHookFeature
  <1> DEFINE V == {"unset", "on", "off", "warn", "strict", "bad"}
             d == IF doc.yaml = "absent" THEN NewDoc ELSE doc
  <1>2. d \in AllDocs
    BY NewDocIsADoc DEF ConfigInv
  <1>3. PICK v \in Settings(f) :
          doc' = [d EXCEPT !.version = 2, !.hooks = "mapping", !.set[f] = v]
    BY DEF SetHookFeature
  <1>4. v \in V
    BY DEF Settings
  <1> HIDE DEF d
  <1>5. /\ d.set \in [Feature -> V]
        /\ [d.set EXCEPT ![f] = v] \in [Feature -> V]
    BY <1>2, <1>4 DEF AllDocs
  <1>6. doc' = [yaml |-> d.yaml, version |-> 2, unknown |-> d.unknown,
                runners |-> d.runners, gates |-> d.gates,
                hooks |-> "mapping", set |-> [d.set EXCEPT ![f] = v]]
    BY <1>2, <1>3 DEF AllDocs
  <1>7. /\ doc' \in AllDocs /\ doc'.hooks = "mapping"
        /\ doc'.yaml = d.yaml /\ d.yaml # "absent"
    <2>1. d.yaml # "absent"
      BY DEF d, NewDoc
    <2> QED BY <1>2, <1>5, <1>6, <2>1 DEF AllDocs
  <1>8. AlwaysSomethingToRun'
    BY <1>1 DEF ConfigInv, AlwaysSomethingToRun
  <1> QED BY <1>1, <1>7, <1>8 DEF ConfigInv

LEMMA ConfigKeeps == ConfigInv /\ [ConfigNext]_configVars => ConfigInv'
  <1>1. ConfigInv /\ SetRefused => ConfigInv'
    BY DEF SetRefused, configVars, ConfigInv, AlwaysSomethingToRun
  <1>2. ConfigInv /\ UNCHANGED configVars => ConfigInv'
    BY DEF configVars, ConfigInv, AlwaysSomethingToRun
  <1> QED BY <1>1, <1>2, HookBegins, SectionRuns, HookPasses,
             ResolvesToSomething, FeatureIsSet DEF ConfigNext

\* For any text of the config, whichever hook runs and whatever its sections
\* come across: it exits 0 exactly if no blocking section it loaded met a
\* problem and none was left out, and never without a config that loads; and ci
\* resolves to something to run (hooks.ts:311-355, ci.ts:457-462).
THEOREM ConfigIsObeyed == ConfigSpec => []ConfigDecides
  BY ConfigBegins, ConfigKeeps, TurnsDecide, PTL DEF ConfigSpec

\* Turning one hook feature on leaves a valid config valid and every other
\* feature as it was in effect: the defaults of a file without hooks are those
\* of a hook that is not mentioned (ci-config.ts:926-970).
THEOREM OtherFeaturesStay == ConfigSpec => OneFeatureOnly
  <1> DEFINE Spared ==
               /\ ValidDoc(doc')
               /\ doc'.runners = doc.runners /\ doc'.gates = doc.gates
               /\ \A f \in Feature \ {changed'} :
                    HooksOf(doc')[f] = HooksOf(doc)[f]
  <1>1. ASSUME ConfigInv, ConfigNext, doc' # doc, Loads(doc) PROVE Spared
    <2>1. PICK f \in Feature : SetHookFeature(f)
      BY <1>1 DEF ConfigNext, SetRefused, configVars, RunHook, RunSection,
                  PassHook, Resolve
    <2> DEFINE d == IF doc.yaml = "absent" THEN NewDoc ELSE doc
    <2>2. /\ d \in AllDocs /\ d.yaml = "mapping" /\ d.unknown = FALSE
          /\ d.hooks \in {"absent", "mapping"}
          /\ d.hooks = "absent" => d.set = Unset
          /\ d.hooks = "mapping" => FeaturesValid(d)
          /\ RunnersValid(d) /\ GatesValid(d)
      <3>1. CASE doc.yaml = "absent"
        <4>1. /\ NewDoc.yaml = "mapping" /\ NewDoc.unknown = FALSE
              /\ NewDoc.hooks = "absent" /\ NewDoc.set = Unset
              /\ NewDoc.runners = Absent /\ NewDoc.gates = Absent
              /\ DOMAIN Absent.entries = {}
          BY DEF NewDoc, Absent
        <4>2. RunnersValid(NewDoc) /\ GatesValid(NewDoc)
          BY <4>1 DEF RunnersValid, GatesValid, Distinct
        <4> QED BY <3>1, <4>1, <4>2, NewDocIsADoc
      <3>2. CASE doc.yaml # "absent"
        <4>1. ValidDoc(doc) /\ doc \in AllDocs
          BY <1>1, <3>2 DEF Loads, ConfigInv
        <4> QED BY <1>1, <3>2, <4>1 DEF ValidDoc, AllDocs, ConfigInv
      <3> QED BY <3>1, <3>2
    <2>3. PICK v \in Settings(f) :
            doc' = [d EXCEPT !.version = 2, !.hooks = "mapping", !.set[f] = v]
      BY <2>1 DEF SetHookFeature
    <2>4. d.runners = doc.runners /\ d.gates = doc.gates
      BY <1>1 DEF ConfigInv, NewDoc
    <2>5. \A g \in Feature :
            HooksOf(doc)[g] = Defaulted(d)[g]
      <3>1. CASE doc.yaml = "absent" \/ doc.hooks = "absent"
        <4>1. d.set = Unset
          BY <1>1, <3>1 DEF ConfigInv, NewDoc
        <4> QED BY <3>1, <4>1 DEF HooksOf, Defaulted, DefaultHooks, Unset
      <3>2. CASE doc.yaml # "absent" /\ doc.hooks # "absent"
        BY <3>2 DEF HooksOf
      <3> QED BY <3>1, <3>2
    <2> HIDE DEF d
    <2>6. /\ doc'.yaml = "mapping" /\ doc'.version = 2
          /\ doc'.unknown = FALSE /\ doc'.runners = d.runners
          /\ doc'.gates = d.gates /\ doc'.hooks = "mapping"
          /\ doc'.set = [d.set EXCEPT ![f] = v]
      BY <2>2, <2>3 DEF AllDocs
    <2>7. /\ doc'.set[f] = v
          /\ \A g \in Feature \ {f} : doc'.set[g] = d.set[g]
      BY <2>2, <2>6 DEF AllDocs
    <2>8. FeaturesValid(doc')
      <3>1. \A g \in Feature : d.set[g] \in {"unset"} \cup Settings(g)
        BY <2>2 DEF FeaturesValid, Unset
      <3> QED BY <2>3, <2>7, <3>1 DEF FeaturesValid
    <2>9. RunnersValid(doc') /\ GatesValid(doc')
      BY <2>2, <2>6 DEF RunnersValid, GatesValid
    <2>10. ValidDoc(doc')
      BY <2>6, <2>8, <2>9 DEF ValidDoc
    <2>11. \A g \in Feature \ {changed'} : HooksOf(doc')[g] = HooksOf(doc)[g]
      <3>1. changed' = f /\ HooksOf(doc') = Defaulted(doc')
        BY <2>1, <2>6 DEF SetHookFeature, HooksOf
      <3> QED BY <2>5, <2>7, <3>1 DEF Defaulted
    <2> QED BY <2>4, <2>6, <2>10, <2>11
  <1>2. ConfigInv /\ [ConfigNext]_configVars
          => [doc' # doc /\ Loads(doc) => Spared]_configVars
    BY <1>1 DEF configVars
  <1> QED BY <1>2, ConfigBegins, ConfigKeeps, PTL DEF ConfigSpec, OneFeatureOnly

\* Both of them, for any text of the config and any order of hooks, commands and
\* changes (hooks.ts:311-355, ci.ts:457-462, ci-config.ts:926-970).
THEOREM ConfigIsSound == ConfigSpec => ConfigHolds
  BY ConfigIsObeyed, OtherFeaturesStay DEF ConfigHolds

-----------------------------------------------------------------------------
(* The guard of the agents' tools.                                          *)

AnyLeaf == [kind : {"harmless", "denied", "python", "unlexable", "chmod"},
            words : Seq(Words)]
AnyCommand == [layers : Seq({"wrap", "shell"}), leaf : AnyLeaf,
               depth : Nat, hops : Nat]
\* An event is a file, a patch or commands, never two of them.
AnyEvent == [shape : {"malformed", "truncated", "other-tool", "file", "patch",
                      "shell"},
             tool : {"none", "Read", "Write"}, chunks : Nat,
             paths : Seq(Paths), ended : BOOLEAN, commands : Seq(AnyCommand)]
EventIs(e) ==
  /\ e \in AnyEvent
  /\ e.shape = "patch" => e.tool = "none"
  /\ e.shape = "file" => \E p \in Paths : e.paths = <<p>>
  /\ e.shape \notin {"file", "patch"} => e.paths = <<>>
  /\ e.shape # "shell" => e.commands = <<>>

\* The commands done with hide nothing, or a document that will be denied; the
\* others are still to come, the first of them perhaps without some layers.
Seen(cs, left, python) ==
  /\ left \in Seq(AnyCommand) /\ Len(left) <= Len(cs)
  /\ \A i \in DOMAIN cs :
       \/ /\ i <= Len(cs) - Len(left)
          /\ ~Harmful(cs[i].leaf) \/ (cs[i].leaf.kind = "python" /\ python)
       \/ /\ i > Len(cs) - Len(left)
          /\ left[i - (Len(cs) - Len(left))].leaf = cs[i].leaf

GuardInv ==
  /\ EventIs(event) /\ taken \in Nat
  /\ at \in {"start", "reading", "read", "shell", "exited"}
  /\ unsupported \in BOOLEAN
  /\ at # "exited" => answer = NoAnswer /\ taken <= InputLimit
  /\ at \in {"reading", "read", "shell"} => agent \in Agents
  /\ at = "shell" => /\ Whole /\ event.shape = "shell"
                     /\ Seen(event.commands, todo, unsupported = TRUE)
  /\ DecisionIsSafe

\* An answer is safe if it denies, or if everything was looked at.
LEMMA AnswerIsSafe ==
  ASSUME NEW allowed \in BOOLEAN, Answered(allowed), GuardInv,
         UNCHANGED <<agent, event>>, taken' \in Nat,
         unsupported' \in BOOLEAN,
         allowed = TRUE =>
           /\ taken' = taken /\ taken <= InputLimit
           /\ agent \in Agents /\ Whole
           /\ event.shape = "patch" => event.ended
           /\ \A i \in DOMAIN event.paths : ~Protected(event.paths[i])
           /\ \A i \in DOMAIN event.commands : ~Harmful(event.commands[i].leaf)
  PROVE  GuardInv'
  <1>1. PICK body \in {"none", IF allowed THEN "allow" ELSE "deny"} :
          answer' = [exit |-> IF allowed THEN "0" ELSE "2",
                     body |-> IF agent = "cursor" THEN body ELSE "none"]
    BY DEF Answered, Reply
  <1>2. at' = "exited"
    BY DEF Answered
  <1>3. CASE allowed = TRUE
    <2>1. answer'.exit = "0" /\ answer'.body \in {"none", "allow"}
      BY <1>1, <1>3
    <2>2. /\ agent # "opencode" => taken' = event.chunks
          /\ taken' <= InputLimit
      BY <1>3 DEF Whole
    <2>3. AllowedIsClean'
      BY <1>3, <2>2 DEF AllowedIsClean, Protected
    <2>4. NothingHidden' /\ CodeAndBodyAgree'
      BY <1>3, <2>1 DEF NothingHidden, CodeAndBodyAgree
    <2> QED BY <1>2, <2>3, <2>4 DEF GuardInv, DecisionIsSafe
  <1>4. CASE allowed = FALSE
    <2>1. answer'.exit = "2" /\ answer'.body \in {"none", "deny"}
      BY <1>1, <1>4
    <2>2. DecisionIsSafe'
      BY <2>1 DEF DecisionIsSafe, AllowedIsClean, NothingHidden,
                  CodeAndBodyAgree
    <2> QED BY <1>2, <2>2 DEF GuardInv
  <1> QED BY <1>3, <1>4

\* A leaf that is let through is harmless, or a document still to be denied.
LEMMA LeafIsHarmless ==
  ASSUME NEW l \in AnyLeaf, LeafAllowed(l)
  PROVE  ~Harmful(l) \/ l.kind = "python"
  <1>1. CASE l.kind \in {"harmless", "python"}
    BY <1>1 DEF Harmful
  <1>2. CASE /\ l.kind = "chmod"
             /\ SinkAllowed({Chmod(p, l.words) : p \in Profiles},
                            Critical(l.words))
    <2>1. "dangerous" \notin {Chmod(p, l.words) : p \in Profiles}
      BY <1>2 DEF SinkAllowed, Union
    <2>2. Chmod("gnu", l.words) # "dangerous"
      BY <2>1 DEF Profiles
    <2> QED BY <1>2, <2>2 DEF Harmful
  <1> QED BY <1>1, <1>2 DEF LeafAllowed

\* Peeling the first command, and going on to the next one.
LEMMA PeeledIsSeen ==
  ASSUME NEW cs \in Seq(AnyCommand), NEW left, left # <<>>,
         NEW python \in BOOLEAN, Seen(cs, left, python)
  PROVE  /\ Head(left) \in AnyCommand
         /\ \A c \in AnyCommand : c.leaf = Head(left).leaf =>
              Seen(cs, <<c>> \o Tail(left), python)
         /\ \A more \in BOOLEAN :
              /\ python => more
              /\ \/ ~Harmful(Head(left).leaf)
                 \/ Head(left).leaf.kind = "python" /\ more
              => Seen(cs, Tail(left), more)
  <1> DEFINE L == Len(cs)
             k == Len(left)
             t == Tail(left)
  <1>1. /\ left \in Seq(AnyCommand) /\ k <= L
        /\ \A i \in DOMAIN cs :
             \/ /\ i <= L - k
                /\ \/ ~Harmful(cs[i].leaf)
                   \/ cs[i].leaf.kind = "python" /\ python
             \/ /\ i > L - k
                /\ left[i - (L - k)].leaf = cs[i].leaf
    BY DEF Seen
  <1>2. L \in Nat /\ DOMAIN cs = 1..L
    BY LenProperties
  <1>3. /\ k \in Nat /\ k > 0 /\ Head(left) = left[1]
        /\ Head(left) \in AnyCommand
        /\ t \in Seq(AnyCommand) /\ Len(t) = k - 1
        /\ \A i \in 1..(k - 1) : t[i] = left[i + 1]
    BY <1>1, HeadTailProperties, EmptySeq, LenProperties
  <1> HIDE DEF L, k, t
  <1>4. ASSUME NEW c \in AnyCommand, c.leaf = Head(left).leaf
        PROVE  Seen(cs, <<c>> \o t, python)
    <2> DEFINE o == <<c>>
               u == o \o t
    <2>1. o \in Seq(AnyCommand) /\ Len(o) = 1 /\ o[1] = c
      BY DEF AnyCommand
    <2> HIDE DEF o
    <2>2. /\ u \in Seq(AnyCommand) /\ Len(u) = Len(o) + Len(t)
          /\ \A i \in 1..(Len(o) + Len(t)) :
               u[i] = IF i <= Len(o) THEN o[i] ELSE t[i - Len(o)]
      <3>1. o \in Seq(AnyCommand) /\ t \in Seq(AnyCommand)
        BY <1>3, <2>1
      <3> QED BY <3>1, ConcatProperties
    <2> HIDE DEF u
    <2>3. Len(u) = k
      BY <1>3, <2>1, <2>2
    <2>4. ASSUME NEW i \in 1..k PROVE u[i].leaf = left[i].leaf
      <3>1. CASE i = 1
        BY <1>3, <1>4, <2>1, <2>2, <3>1
      <3>2. CASE i # 1
        <4>1. ~(i <= 1) /\ i - 1 \in 1..(k - 1) /\ (i - 1) + 1 = i
          BY <1>3, <3>2
        <4>2. u[i] = t[i - 1]
          BY <1>3, <2>1, <2>2, <4>1
        <4> QED BY <1>3, <4>1, <4>2
      <3> QED BY <3>1, <3>2
    <2>5. ASSUME NEW i \in DOMAIN cs, i > L - k
          PROVE  u[i - (L - k)].leaf = cs[i].leaf
      <3>1. i - (L - k) \in 1..k
        BY <1>1, <1>2, <1>3, <2>5
      <3>2. ~(i <= L - k)
        BY <1>2, <1>3, <2>5
      <3>3. left[i - (L - k)].leaf = cs[i].leaf
        BY <1>1, <3>2
      <3>4. u[i - (L - k)].leaf = left[i - (L - k)].leaf
        BY <2>4, <3>1
      <3> QED BY <3>3, <3>4
    <2> QED BY <1>1, <2>2, <2>3, <2>5 DEF Seen, L, u, o
  <1>5. ASSUME NEW more \in BOOLEAN, python => more,
               \/ ~Harmful(Head(left).leaf)
               \/ Head(left).leaf.kind = "python" /\ more
        PROVE  Seen(cs, t, more)
    <2>1. L - Len(t) = L - k + 1 /\ Len(t) <= L
      BY <1>1, <1>2, <1>3
    <2>2. ASSUME NEW i \in DOMAIN cs
          PROVE  \/ /\ i <= L - k + 1
                    /\ \/ ~Harmful(cs[i].leaf)
                       \/ cs[i].leaf.kind = "python" /\ more
                 \/ /\ i > L - k + 1
                    /\ t[i - (L - k + 1)].leaf = cs[i].leaf
      <3>1. CASE i <= L - k
        BY <1>1, <1>2, <1>3, <1>5, <3>1
      <3>2. CASE i = L - k + 1
        <4>1. i - (L - k) = 1 /\ i > L - k /\ ~(i <= L - k)
          BY <1>2, <1>3, <3>2
        <4>2. left[1].leaf = cs[i].leaf
          BY <1>1, <4>1
        <4> QED BY <1>2, <1>3, <1>5, <3>2, <4>2
      <3>3. CASE i > L - k + 1
        <4>1. /\ i > L - k /\ ~(i <= L - k)
              /\ i - (L - k + 1) \in 1..(k - 1)
              /\ (i - (L - k + 1)) + 1 = i - (L - k)
          BY <1>2, <1>3, <3>3
        <4>2. left[i - (L - k)].leaf = cs[i].leaf
          BY <1>1, <4>1
        <4>3. t[i - (L - k + 1)] = left[i - (L - k)]
          BY <1>3, <4>1
        <4> QED BY <3>3, <4>2, <4>3
      <3> QED BY <1>2, <1>3, <3>1, <3>2, <3>3
    <2> QED BY <1>3, <2>1, <2>2 DEF Seen, L
  <1> QED BY <1>3, <1>4, <1>5 DEF t

\* What is read comes within the limit, or is denied.
LEMMA ReadingIsSafe == GuardInv /\ (Begin \/ Receive) => GuardInv'
  <1> SUFFICES ASSUME GuardInv, Begin \/ Receive PROVE GuardInv'
    OBVIOUS
  <1>1. /\ at \in {"start", "reading"} /\ answer = NoAnswer
        /\ taken \in Nat /\ taken <= InputLimit /\ InputLimit \in Nat
        /\ UNCHANGED <<agent, event, unsupported>>
        /\ unsupported \in BOOLEAN
    BY GuardAssumption DEF Begin, Receive, GuardInv
  <1>2. DecisionIsSafe /\ NoAnswer.exit = "none"
    BY DEF GuardInv, NoAnswer
  <1>3. CASE Answered(FALSE) /\ taken' \in Nat
    BY <1>1, <1>3, AnswerIsSafe
  <1>4. ASSUME answer' = NoAnswer, taken' \in Nat, taken' <= InputLimit,
               at' \in {"reading", "read"}, agent \in Agents
        PROVE  GuardInv'
    <2>1. DecisionIsSafe'
      BY <1>2, <1>4 DEF DecisionIsSafe, AllowedIsClean, NothingHidden,
                        CodeAndBodyAgree
    <2> QED BY <1>1, <1>4, <2>1 DEF GuardInv
  <1>5. CASE Begin
    <2>1. taken' = taken
      BY <1>5 DEF Begin
    <2>2. \/ Answered(FALSE)
          \/ /\ agent \in Agents /\ at' \in {"reading", "read"}
             /\ UNCHANGED answer
      BY <1>5 DEF Begin
    <2> QED BY <1>1, <1>3, <1>4, <2>1, <2>2
  <1>6. CASE Receive
    <2>1. agent \in Agents /\ at = "reading"
      BY <1>6 DEF Receive, GuardInv
    <2>2. \/ /\ taken' = taken + 1 /\ ~OverLimit(taken + 1)
             /\ UNCHANGED <<at, answer>>
          \/ at' = "read" /\ UNCHANGED <<taken, answer>>
          \/ Answered(FALSE) /\ taken' \in {taken, taken + 1}
      BY <1>6 DEF Receive
    <2>3. ~OverLimit(taken + 1) => taken + 1 <= InputLimit
      BY <1>1 DEF OverLimit
    <2>4. CASE Answered(FALSE) /\ taken' \in {taken, taken + 1}
      <3>1. taken' \in Nat
        BY <1>1, <2>4
      <3> QED BY <1>3, <2>4, <3>1
    <2>5. CASE at' = "read" /\ UNCHANGED <<taken, answer>>
      BY <1>1, <1>4, <2>1, <2>5
    <2>6. CASE /\ taken' = taken + 1 /\ ~OverLimit(taken + 1)
               /\ UNCHANGED <<at, answer>>
      BY <1>1, <1>4, <2>1, <2>3, <2>6
    <2> QED BY <2>2, <2>4, <2>5, <2>6
  <1> QED BY <1>5, <1>6

\* A file or a patch is allowed if none of its paths is protected.
LEMMA EvaluatingIsSafe == GuardInv /\ Evaluate => GuardInv'
  <1> SUFFICES ASSUME GuardInv, Evaluate PROVE GuardInv'
    OBVIOUS
  <1>1. /\ at = "read" /\ UNCHANGED <<agent, event, taken, unsupported>>
        /\ EventIs(event) /\ event \in AnyEvent
        /\ taken \in Nat /\ unsupported \in BOOLEAN
        /\ agent \in Agents /\ taken <= InputLimit
        /\ answer = NoAnswer /\ DecisionIsSafe
    BY DEF Evaluate, GuardInv, EventIs
  <1>2. CASE Answered(FALSE)
    BY <1>1, <1>2, AnswerIsSafe
  <1>3. CASE Whole /\ event.shape = "other-tool" /\ Answered(agent = "opencode")
    <2>1. event.paths = <<>> /\ event.commands = <<>>
      BY <1>1, <1>3 DEF EventIs
    <2>2. (agent = "opencode") \in BOOLEAN
      OBVIOUS
    <2>3. DOMAIN event.paths = {} /\ DOMAIN event.commands = {}
      BY <2>1
    <2> QED BY <1>1, <1>3, <2>2, <2>3, AnswerIsSafe
  <1>4. CASE /\ Whole /\ event.shape = "file"
             /\ Answered(FileAllowed(event.tool, event.paths[1]))
    <2> DEFINE allowed == FileAllowed(event.tool, event.paths[1])
    <2>1. PICK p \in Paths : event.paths = <<p>>
      BY <1>1, <1>4 DEF EventIs
    <2>2. /\ DOMAIN event.paths = {1} /\ event.paths[1] = p
          /\ DOMAIN event.commands = {}
      BY <1>1, <1>4, <2>1 DEF EventIs
    <2>3. allowed \in BOOLEAN
      BY DEF FileAllowed
    <2>4. allowed => \A i \in DOMAIN event.paths : ~Protected(event.paths[i])
      BY <2>2 DEF FileAllowed, Protected, Keys
    <2> HIDE DEF allowed
    <2>5. Answered(allowed)
      BY <1>4 DEF allowed
    <2> QED BY <1>1, <1>4, <2>2, <2>3, <2>4, <2>5, AnswerIsSafe
  <1>5. CASE /\ Whole /\ event.shape = "patch"
             /\ Answered(PatchAllowed(event.paths, event.ended))
    <2> DEFINE allowed == PatchAllowed(event.paths, event.ended)
    <2>1. event.commands = <<>> /\ event.ended \in BOOLEAN
      BY <1>1, <1>5 DEF EventIs, AnyEvent
    <2>2. allowed \in BOOLEAN /\ DOMAIN event.commands = {}
      BY <2>1 DEF PatchAllowed
    <2>3. allowed => \A i \in DOMAIN event.paths : ~Protected(event.paths[i])
      BY DEF PatchAllowed, FileAllowed, Protected, Keys
    <2>4. allowed => event.ended
      BY DEF PatchAllowed
    <2> HIDE DEF allowed
    <2>5. Answered(allowed)
      BY <1>5 DEF allowed
    <2> QED BY <1>1, <1>5, <2>2, <2>3, <2>4, <2>5, AnswerIsSafe
  <1>6. CASE /\ Whole /\ event.shape = "shell"
             /\ at' = "shell" /\ todo' = event.commands /\ UNCHANGED answer
    <2>1. Whole'
      BY <1>1, <1>6 DEF Whole
    <2>2. Seen(event.commands, event.commands, unsupported = TRUE)
      <3> DEFINE cs == event.commands
      <3>1. cs \in Seq(AnyCommand)
        BY <1>1 DEF AnyEvent
      <3> HIDE DEF cs
      <3>2. Len(cs) \in Nat /\ DOMAIN cs = 1..Len(cs)
        BY <3>1, LenProperties
      <3>3. \A i \in DOMAIN cs : i > Len(cs) - Len(cs)
                                 /\ i - (Len(cs) - Len(cs)) = i
        BY <3>2
      <3>4. Len(cs) <= Len(cs)
        BY <3>2
      <3>5. Seen(cs, cs, unsupported = TRUE)
        BY <3>1, <3>3, <3>4 DEF Seen
      <3> QED BY <3>5 DEF cs
    <2>3. DecisionIsSafe'
      BY <1>1, <1>6 DEF DecisionIsSafe, AllowedIsClean, NothingHidden,
                        CodeAndBodyAgree, Protected
    <2> QED BY <1>1, <1>6, <2>1, <2>2, <2>3 DEF GuardInv
  <1> QED BY <1>2, <1>3, <1>4, <1>5, <1>6 DEF Evaluate

LEMMA DeeperIsACommand ==
  ASSUME NEW c \in AnyCommand
  PROVE  /\ [c EXCEPT !.depth = @ + 1, !.hops = 0] \in AnyCommand
         /\ [c EXCEPT !.depth = @ + 1, !.hops = 0].leaf = c.leaf
  <1>1. c.depth + 1 \in Nat
    BY DEF AnyCommand
  <1> DEFINE d == [c EXCEPT !.depth = c.depth + 1]
  <1>2. d \in AnyCommand /\ d.leaf = c.leaf
    BY <1>1 DEF AnyCommand
  <1>3. [c EXCEPT !.depth = c.depth + 1, !.hops = 0] = [d EXCEPT !.hops = 0]
    OBVIOUS
  <1> HIDE DEF d
  <1>4. /\ [d EXCEPT !.hops = 0] \in AnyCommand
        /\ [d EXCEPT !.hops = 0].leaf = d.leaf
    BY <1>2 DEF AnyCommand
  <1> QED BY <1>2, <1>3, <1>4

\* A command is looked into layer by layer; a bound that is reached denies.
LEMMA PeelingIsSafe == GuardInv /\ (Peel \/ Peeled) => GuardInv'
  <1> SUFFICES ASSUME GuardInv, Peel \/ Peeled PROVE GuardInv'
    OBVIOUS
  <1> DEFINE cs == event.commands
  <1>1. /\ at = "shell" /\ UNCHANGED <<agent, event, taken>>
        /\ EventIs(event) /\ cs \in Seq(AnyCommand)
        /\ taken \in Nat /\ unsupported \in BOOLEAN
        /\ agent \in Agents /\ taken <= InputLimit
        /\ Whole /\ event.shape = "shell"
        /\ Seen(cs, todo, unsupported = TRUE)
        /\ answer = NoAnswer /\ DecisionIsSafe
    BY DEF Peel, Peeled, GuardInv, EventIs, AnyEvent
  <1> HIDE DEF cs
  <1>2. CASE Answered(FALSE) /\ unsupported' \in BOOLEAN
    BY <1>1, <1>2, AnswerIsSafe
  <1>3. ASSUME UNCHANGED <<at, answer>>, unsupported' \in BOOLEAN,
               Seen(cs, todo', unsupported' = TRUE)
        PROVE  GuardInv'
    <2>1. Whole' /\ cs' = cs
      BY <1>1 DEF Whole, cs
    <2>2. DecisionIsSafe'
      BY <1>1, <1>3 DEF DecisionIsSafe, AllowedIsClean, NothingHidden,
                        CodeAndBodyAgree, Protected
    <2> QED BY <1>1, <1>3, <2>1, <2>2 DEF GuardInv, cs
  <1>4. CASE Peel
    <2> DEFINE top == Head(todo)
               inner == [top EXCEPT !.layers = Tail(@)]
    <2>1. todo # <<>> /\ top \in AnyCommand
      BY <1>1, <1>4, PeeledIsSeen DEF Peel
    <2>2. CASE top.layers # <<>>
      <3>1. unsupported' = unsupported
        BY <1>4, <2>2 DEF Peel
      <3>2. \/ Answered(FALSE)
            \/ /\ todo' = <<[inner EXCEPT !.hops = @ + 1]>> \o Tail(todo)
               /\ UNCHANGED <<at, answer>>
            \/ /\ todo' = <<[inner EXCEPT !.depth = @ + 1, !.hops = 0]>>
                            \o Tail(todo)
               /\ UNCHANGED <<at, answer>>
        BY <1>4, <2>2 DEF Peel, TooDeep
      <3>3. inner \in AnyCommand /\ inner.leaf = top.leaf
        <4>1. Tail(top.layers) \in Seq({"wrap", "shell"})
          BY <2>1, <2>2, HeadTailProperties DEF AnyCommand
        <4> QED BY <2>1, <4>1 DEF AnyCommand
      <3> HIDE DEF inner, top
      <3>4. /\ [inner EXCEPT !.hops = @ + 1] \in AnyCommand
            /\ [inner EXCEPT !.hops = @ + 1].leaf = top.leaf
        BY <3>3 DEF AnyCommand
      <3>5. /\ [inner EXCEPT !.depth = @ + 1, !.hops = 0] \in AnyCommand
            /\ [inner EXCEPT !.depth = @ + 1, !.hops = 0].leaf = top.leaf
        BY <3>3, DeeperIsACommand
      <3>6. \A c \in AnyCommand : c.leaf = top.leaf =>
              Seen(cs, <<c>> \o Tail(todo), unsupported = TRUE)
        BY <1>1, <2>1, PeeledIsSeen DEF top
      <3>7. CASE todo' = <<[inner EXCEPT !.hops = @ + 1]>> \o Tail(todo)
                 /\ UNCHANGED <<at, answer>>
        <4>1. Seen(cs, todo', unsupported = TRUE)
          BY <3>4, <3>6, <3>7
        <4> QED BY <1>1, <1>3, <3>1, <3>7, <4>1
      <3>8. CASE /\ todo' = <<[inner EXCEPT !.depth = @ + 1, !.hops = 0]>>
                              \o Tail(todo)
                 /\ UNCHANGED <<at, answer>>
        <4>1. Seen(cs, todo', unsupported = TRUE)
          BY <3>5, <3>6, <3>8
        <4> QED BY <1>1, <1>3, <3>1, <3>8, <4>1
      <3> QED BY <1>1, <1>2, <3>1, <3>2, <3>7, <3>8
    <2>3. CASE top.layers = <<>>
      <3>1. /\ unsupported' = (unsupported \/ top.leaf.kind = "python")
            /\ IF LeafAllowed(top.leaf)
               THEN todo' = Tail(todo) /\ UNCHANGED <<at, answer>>
               ELSE Answered(FALSE)
        BY <1>4, <2>3 DEF Peel
      <3>2. top.leaf \in AnyLeaf
        BY <2>1 DEF AnyCommand
      <3> HIDE DEF top
      <3>3. unsupported' \in BOOLEAN
        BY <1>1, <3>1
      <3>4. CASE LeafAllowed(top.leaf)
        <4> DEFINE more == unsupported' = TRUE
        <4>1. /\ more \in BOOLEAN /\ ((unsupported = TRUE) => more)
              /\ \/ ~Harmful(top.leaf)
                 \/ top.leaf.kind = "python" /\ more
          BY <1>1, <3>1, <3>2, <3>4, LeafIsHarmless
        <4> HIDE DEF more
        <4>2. Seen(cs, Tail(todo), more)
          BY <1>1, <2>1, <4>1, PeeledIsSeen DEF top
        <4>3. Seen(cs, todo', unsupported' = TRUE)
          BY <3>1, <3>4, <4>2 DEF more
        <4> QED BY <1>3, <3>1, <3>3, <3>4, <4>3
      <3>5. CASE ~LeafAllowed(top.leaf)
        BY <1>2, <3>1, <3>3, <3>5
      <3> QED BY <3>4, <3>5
    <2> QED BY <2>2, <2>3
  <1>5. CASE Peeled
    <2>1. todo = <<>> /\ Answered(~unsupported) /\ unsupported' = unsupported
      BY <1>5 DEF Peeled
    <2>2. ~unsupported => \A i \in DOMAIN cs : ~Harmful(cs[i].leaf)
      <3>1. Len(cs) \in Nat /\ DOMAIN cs = 1..Len(cs) /\ Len(todo) = 0
        BY <1>1, <2>1, LenProperties
      <3>2. \A i \in DOMAIN cs : i <= Len(cs) - Len(todo)
                                 /\ ~(i > Len(cs) - Len(todo))
        BY <3>1
      <3> QED BY <1>1, <3>2 DEF Seen
    <2>3. DOMAIN event.paths = {}
      BY <1>1 DEF EventIs
    <2> DEFINE allowed == ~unsupported
    <2>4. allowed \in BOOLEAN
      BY <1>1
    <2>5. allowed => \A i \in DOMAIN event.commands :
                       ~Harmful(event.commands[i].leaf)
      BY <2>2 DEF cs
    <2> HIDE DEF allowed
    <2>6. Answered(allowed)
      BY <2>1 DEF allowed
    <2> QED BY <1>1, <2>1, <2>3, <2>4, <2>5, <2>6, AnswerIsSafe
  <1> QED BY <1>4, <1>5

LEMMA CommandsAreCommands ==
  ASSUME NEW cs \in Commands1 PROVE cs \in Seq(AnyCommand)
  <1>1. ASSUME NEW k \in {"harmless", "denied", "python", "unlexable"}
        PROVE  Leaf(k) \in AnyLeaf
    BY DEF Leaf, AnyLeaf
  <1>2. Leaves \subseteq AnyLeaf
    <2>1. ASSUME NEW n \in 1..3, NEW w \in [1..n -> Words]
          PROVE  [kind |-> "chmod", words |-> w] \in AnyLeaf
      <3>1. w \in Seq(Words)
        OBVIOUS
      <3> QED BY <3>1 DEF AnyLeaf
    <2> QED BY <1>1, <2>1 DEF Leaves
  <1>3. Layers \subseteq Seq({"wrap", "shell"})
    <2>1. ASSUME NEW n \in 0..(MaxHops + 1),
                 NEW l \in [1..n -> {"wrap", "shell"}]
          PROVE  l \in Seq({"wrap", "shell"})
      <3>1. n \in Nat
        BY GuardAssumption
      <3> QED BY <3>1
    <2> QED BY <2>1 DEF Layers
  <1>4. ASSUME NEW l \in Seq({"wrap", "shell"}), NEW f \in AnyLeaf
        PROVE  Command(l, f) \in AnyCommand
    BY DEF Command, AnyCommand
  <1>5. /\ <<>> \in Seq({"wrap", "shell"})
        /\ <<"shell">> \in Seq({"wrap", "shell"})
    OBVIOUS
  <1>6. \A c \in AnyCommand : <<c>> \in Seq(AnyCommand)
    OBVIOUS
  <1>7. \A c, d \in AnyCommand : <<c, d>> \in Seq(AnyCommand)
    OBVIOUS
  <1>8. CASE \E l \in Layers,
                leaf \in {Leaf("harmless"), Leaf("denied"), Leaf("python")} :
               cs = <<Command(l, leaf)>>
    BY <1>1, <1>3, <1>4, <1>6, <1>8
  <1>9. CASE \E leaf \in Leaves : cs = <<Command(<<>>, leaf)>>
    BY <1>2, <1>4, <1>5, <1>6, <1>9
  <1>10. CASE \E leaf \in {Leaf("harmless"), Leaf("denied")} :
                cs = <<Command(<<>>, Leaf("python")),
                       Command(<<"shell">>, leaf)>>
    BY <1>1, <1>4, <1>5, <1>7, <1>10
  <1> QED BY <1>8, <1>9, <1>10 DEF Commands1

\* The events the guard begins with are events.
LEMMA GuardBegins == GuardStart => GuardInv
  <1> SUFFICES ASSUME GuardStart PROVE GuardInv
    OBVIOUS
  <1>1. /\ <<>> \in Seq(Paths) /\ <<>> \in Seq(AnyCommand)
        /\ <<>> \in Seq({"wrap", "shell"}) /\ <<>> \in Seq(Words)
        /\ \A p \in Paths : <<p>> \in Seq(Paths)
    OBVIOUS
  <1>2. Blank \in AnyEvent
    BY <1>1 DEF Blank, AnyEvent
  <1>3. /\ Blank.shape = "malformed" /\ Blank.tool = "none"
        /\ Blank.paths = <<>> /\ Blank.commands = <<>>
    BY DEF Blank
  <1>4. PlainPath \in Paths
    BY DEF PlainPath, Paths, PathKinds
  <1>5. ASSUME NEW n \in Nat, NEW t \in {"Read", "Write"}, NEW p \in Paths
        PROVE  EventIs(FileEvent(t, p, n))
    <2> DEFINE e == FileEvent(t, p, n)
    <2>1. e \in AnyEvent
      BY <1>1, <1>2 DEF AnyEvent, FileEvent
    <2>2. e.shape = "file" /\ e.paths = <<p>> /\ e.commands = <<>>
      BY <1>2, <1>3 DEF AnyEvent, FileEvent
    <2> HIDE DEF e
    <2>3. EventIs(e)
      BY <2>1, <2>2 DEF EventIs
    <2> QED BY <2>3 DEF e
  <1>6. EventIs(event)
    <2>1. ASSUME NEW n \in 1..(InputLimit + 1),
                 event = FileEvent("Read", PlainPath, n)
          PROVE  EventIs(event)
      <3>1. n \in Nat
        BY GuardAssumption
      <3> QED BY <1>4, <1>5, <2>1, <3>1
    <2>2. ASSUME NEW s \in {"malformed", "truncated", "other-tool"},
                 event = [Blank EXCEPT !.shape = s]
          PROVE  EventIs(event)
      BY <1>2, <1>3, <2>2 DEF EventIs, AnyEvent
    <2>3. ASSUME NEW t \in {"Read", "Write"}, NEW p \in Paths,
                 event = FileEvent(t, p, 1)
          PROVE  EventIs(event)
      BY <1>5, <2>3
    <2>4. ASSUME NEW ps \in UNION {[1..n -> Paths] : n \in 0..2},
                 NEW e \in BOOLEAN,
                 event = [Blank EXCEPT !.shape = "patch", !.paths = ps,
                                       !.ended = e]
          PROVE  EventIs(event)
      <3>1. PICK n \in 0..2 : ps \in [1..n -> Paths]
        OBVIOUS
      <3>2. ps \in Seq(Paths)
        BY <3>1
      <3>3. event \in AnyEvent
        BY <1>2, <2>4, <3>2 DEF AnyEvent
      <3>4. /\ event.shape = "patch" /\ event.tool = "none"
            /\ event.commands = <<>>
        BY <1>2, <1>3, <2>4 DEF AnyEvent
      <3> QED BY <3>3, <3>4 DEF EventIs
    <2>5. ASSUME NEW c \in Commands1,
                 event = [Blank EXCEPT !.shape = "shell", !.commands = c]
          PROVE  EventIs(event)
      <3>1. c \in Seq(AnyCommand)
        BY CommandsAreCommands
      <3>2. event \in AnyEvent
        BY <1>2, <2>5, <3>1 DEF AnyEvent
      <3>3. event.shape = "shell" /\ event.paths = <<>>
        BY <1>2, <1>3, <2>5 DEF AnyEvent
      <3> QED BY <3>2, <3>3 DEF EventIs
    <2> QED BY <2>1, <2>2, <2>3, <2>4, <2>5, Zenon DEF GuardStart, EventTried
  <1>7. /\ taken = 0 /\ at = "start" /\ unsupported = FALSE
        /\ answer = NoAnswer
    BY Zenon DEF GuardStart
  <1>8. DecisionIsSafe
    BY <1>7 DEF NoAnswer, DecisionIsSafe, AllowedIsClean, NothingHidden,
                CodeAndBodyAgree
  <1>9. 0 <= InputLimit
    BY GuardAssumption
  <1> QED BY <1>6, <1>7, <1>8, <1>9 DEF GuardInv

\* For any input limit and bounds of the peeling, however the event arrives: a
\* tool is allowed only for an event that came whole within the limit, names no
\* protected path and hides no command that is denied, cannot be read or is a
\* dangerous chmod; and the code and the body of an answer agree
\* (skill guard mjs:116-122, 731-912, 941-993, 1032-1115).
THEOREM GuardDecidesSafely == GuardSpec => []DecisionIsSafe
  <1>1. GuardInv /\ [GuardNext]_guardVars => GuardInv'
    <2>1. GuardInv /\ UNCHANGED guardVars => GuardInv'
      BY DEF guardVars, GuardInv, DecisionIsSafe, AllowedIsClean,
             NothingHidden, CodeAndBodyAgree, Protected, Whole
    <2> QED BY <2>1, ReadingIsSafe, EvaluatingIsSafe, PeelingIsSafe
         DEF GuardNext
  <1>2. GuardInv => DecisionIsSafe
    BY DEF GuardInv
  <1> QED BY <1>1, <1>2, GuardBegins, PTL DEF GuardSpec
=============================================================================
