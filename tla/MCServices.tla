----------------------------- MODULE MCServices -----------------------------
(***************************************************************************)
(* The small components of the program side by side, one of them at work   *)
(* and the others at rest.                                                 *)
(***************************************************************************)
EXTENDS AiBundles, HelperSession, PosixAcl, BoundedRead, CiConfig,
        Containers, SkillGuard, SkillGate, RegistrySearch, SecurityBaseline

VARIABLES which

vars == <<which, bundleVars, sessionVars, aclVars, readVars, configVars,
          boxVars, guardVars, gateVars, searchVars, baseVars>>

MCLimits == {0, 1, 3}
MCBudgets == {0, 2, 3}
\* Two of the directories differ in case only.
MCDirs == {"alpha", "Alpha", "beta"}
MCFold == [d \in MCDirs |-> IF d = "Alpha" THEN "alpha" ELSE d]
Dir(place, first, second, third) ==
  [at |-> place, files |-> [f \in 1..3 |-> CASE f = 1 -> first
                                             [] f = 2 -> second
                                             [] OTHER -> third]]
NoDir == Dir("absent", "none", "none", "none")
Single(kind) == Dir("plain", kind, "none", "none")
\* One skill file of each kind, two or three spellings of it, and directories
\* that cannot be read.
MCTrees ==
  {[d \in MCDirs |-> CASE d = "alpha" -> a [] d = "Alpha" -> b [] OTHER -> c] :
     a \in {NoDir, Single("none"), Single("clean"), Single("bad"),
            Single("odd"), Single("link"),
            Dir("plain", "clean", "bad", "none"),
            Dir("plain", "bad", "clean", "none"),
            Dir("plain", "none", "odd", "clean"),
            Dir("plain", "none", "none", "clean"),
            Dir("plain", "clean", "none", "link"),
            Dir("hidden", "clean", "none", "none"),
            Dir("away", "none", "none", "none")},
     b \in {NoDir, Single("none"), Dir("plain", "none", "clean", "none"),
            Single("bad"), Dir("plain", "none", "odd", "none"),
            Dir("hidden", "none", "none", "none"),
            Dir("away", "none", "none", "none")},
     c \in {NoDir, Single("clean"), Dir("plain", "none", "bad", "none"),
            Single("link")}}
Advisory(package, ids, severity) ==
  [package |-> package, ids |-> ids, severity |-> severity, fixed |-> FALSE]
MCAdvisories == {{Advisory("p", {"x"}, "high")},
                 {Advisory("p", {}, "low"), Advisory("q", {"x"}, "odd")}}

Which == {"bundles", "session", "acl", "read", "config", "box", "guard",
          "gate", "search", "security"}
AtRest(component, Start, Still) ==
  IF which = component THEN Start ELSE Still
Init == /\ which \in Which
        /\ AtRest("bundles", BundleInit, BundleStill)
        /\ SessionStart
        /\ AtRest("acl", AclStart, AclStill)
        /\ AtRest("read", ReadStart, ReadStill)
        /\ AtRest("config", ConfigStart, ConfigStill)
        /\ AtRest("box", BoxStart, BoxStill)
        /\ AtRest("guard", GuardStart, GuardStill)
        /\ AtRest("gate", GateStart, GateStill)
        /\ AtRest("search", SearchStart, SearchStill)
        /\ AtRest("security", BaseStart, BaseStill)

Next ==
  /\ UNCHANGED which
  /\ \/ /\ which = "bundles" /\ BundleNext
        /\ UNCHANGED <<sessionVars, aclVars, readVars, configVars, boxVars,
                       guardVars, gateVars, searchVars, baseVars>>
     \/ /\ which = "session" /\ SessionNext
        /\ UNCHANGED <<bundleVars, aclVars, readVars, configVars, boxVars,
                       guardVars, gateVars, searchVars, baseVars>>
     \/ /\ which = "acl" /\ AclNext
        /\ UNCHANGED <<bundleVars, sessionVars, readVars, configVars, boxVars,
                       guardVars, gateVars, searchVars, baseVars>>
     \/ /\ which = "read" /\ ReadNext
        /\ UNCHANGED <<bundleVars, sessionVars, aclVars, configVars, boxVars,
                       guardVars, gateVars, searchVars, baseVars>>
     \/ /\ which = "config" /\ ConfigNext
        /\ UNCHANGED <<bundleVars, sessionVars, aclVars, readVars, boxVars,
                       guardVars, gateVars, searchVars, baseVars>>
     \/ /\ which = "box" /\ BoxNext
        /\ UNCHANGED <<bundleVars, sessionVars, aclVars, readVars, configVars,
                       guardVars, gateVars, searchVars, baseVars>>
     \/ /\ which = "guard" /\ GuardNext
        /\ UNCHANGED <<bundleVars, sessionVars, aclVars, readVars, configVars,
                       boxVars, gateVars, searchVars, baseVars>>
     \/ /\ which = "gate" /\ GateNext
        /\ UNCHANGED <<bundleVars, sessionVars, aclVars, readVars, configVars,
                       boxVars, guardVars, searchVars, baseVars>>
     \/ /\ which = "search" /\ SearchNext
        /\ UNCHANGED <<bundleVars, sessionVars, aclVars, readVars, configVars,
                       boxVars, guardVars, gateVars, baseVars>>
     \/ /\ which = "security" /\ BaseNext
        /\ UNCHANGED <<bundleVars, sessionVars, aclVars, readVars, configVars,
                       boxVars, guardVars, gateVars, searchVars>>

\* Node's timers fire, and what the host owes happens.
Fairness == /\ WF_vars(/\ which = "session" /\ OpTimeout
                       /\ UNCHANGED <<which, bundleVars, aclVars, readVars,
                                      configVars, boxVars, guardVars,
                                      gateVars, searchVars, baseVars>>)
            /\ WF_vars(/\ which = "box" /\ BoxHost
                       /\ UNCHANGED <<which, bundleVars, sessionVars, aclVars,
                                      readVars, configVars, guardVars,
                                      gateVars, searchVars, baseVars>>)
            /\ WF_vars(/\ which = "search" /\ SearchHost
                       /\ UNCHANGED <<which, bundleVars, sessionVars, aclVars,
                                      readVars, configVars, boxVars,
                                      guardVars, gateVars, baseVars>>)
Spec == Init /\ [][Next]_vars /\ Fairness

\* Requests to the helper, commands with a limit and searches end.
WorkEnds == Settles /\ LimitedRunEnds /\ SearchEnds
=============================================================================
