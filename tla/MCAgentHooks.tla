---------------------------- MODULE MCAgentHooks ----------------------------
(* The registrations, second files and surroundings AgentHooks starts from. *)
EXTENDS AgentHooks

CONSTANTS user, blob, edit

MCItems == {user, blob}
MCHidden == {blob}

Grp(own, guests, matcher) ==
  [own |-> own, guests |-> guests, matcher |-> matcher]
Current == Grp("current", {}, "exact")
Old == Grp("old", {}, "exact")
Edited == Grp("edited", {}, "exact")
Guest == Grp("none", {user}, "other")
Empty == Grp("none", {}, "other")

File(gs) == [Blank EXCEPT !.kind = "file", !.groups = gs]
Headed(gs) == [File(gs) EXCEPT !.head = TRUE]
Odd(kind) == [Blank EXCEPT !.kind = kind, !.mine = {blob}]
Text(t) == [Blank EXCEPT !.kind = "file", !.text = t,
                         !.mine = IF t \in {"current", "old"} THEN {}
                                  ELSE {user}]

Oddities == {Odd("special"), Odd("opaque"), Odd("garbage")}
Assets == {Blank, Odd("symlink"), Odd("opaque")}
            \cup {Text(t) : t \in {"current", "old", "edited", "foreign"}}

ClaudeDocs ==
  Oddities \cup {Blank, Odd("symlink"), [Blank EXCEPT !.kind = "legacy"]}
  \cup {File(gs) : gs \in {
    <<Empty>>, <<Current>>, <<Old>>, <<Edited>>, <<Guest>>,
    <<Grp("old", {user}, "exact")>>, <<Grp("edited", {user}, "exact")>>,
    <<Grp("edited", {}, "other")>>, <<Grp("edited", {user}, "other")>>,
    <<Grp("edited", {}, "none")>>, <<Current, Edited>>,
    <<Grp("cohort", {}, "other")>>, <<Guest, Grp("cohort", {}, "other")>>,
    <<Grp("cohort", {}, "other"), Grp("cohort", {}, "other")>>,
    <<Grp("part", {}, "other")>>}}

CodexDocs == Oddities \cup {Blank}
  \cup {File(gs) : gs \in {
    <<>>, <<Empty>>, <<Current>>, <<Old>>, <<Edited>>, <<Guest>>,
    <<Guest, Current>>, <<Guest, Old>>, <<Grp("old", {user}, "exact")>>}}
  \cup {[File(<<Guest>>) EXCEPT !.kind = "symlink"]}
Configs == {Blank, Odd("opaque")}
  \cup {[Blank EXCEPT !.kind = k, !.features = f, !.mine = {user},
                      !.trust = {[at |-> 1, of |-> Old]}] :
          k \in {"file", "symlink"}, f \in {"true", "false"}}
  \cup {[Blank EXCEPT !.kind = "file", !.features = "true",
                      !.mine = {user}, !.trust = t] :
          t \in {{}, {[at |-> 1, of |-> Current]}}}

CursorDocs == Oddities \cup {Blank, Odd("symlink")}
  \cup {Headed(gs) : gs \in {<<Current>>, <<Old>>, <<Edited>>,
                             <<Guest, Old>>, <<Guest>>}}
  \cup {[File(<<>>) EXCEPT !.mine = {user}], File(<<Current>>)}

GrokDocs == Oddities \cup {Blank, Odd("symlink")}
  \cup {Headed(gs) : gs \in {<<Current>>, <<Edited>>, <<Current, Guest>>}}
  \cup {File(<<Guest>>)}

MCDocs == [claude |-> ClaudeDocs, codex |-> CodexDocs, cursor |-> CursorDocs,
           grok |-> GrokDocs, opencode |-> Assets]
MCSeconds == [claude |-> Assets, codex |-> Configs, cursor |-> Assets,
              grok |-> Assets, opencode |-> Assets]

Source(place, kind, disable, managedOnly) ==
  {[place |-> place, kind |-> kind, disable |-> disable,
    managedOnly |-> managedOnly]}
Usual == [supported |-> TRUE, package |-> TRUE, exec |-> TRUE,
          spawn |-> "v22", safeMode |-> FALSE, policy |-> {}]
MCSurroundings == {
  Usual,
  [Usual EXCEPT !.package = FALSE],
  [Usual EXCEPT !.supported = FALSE],
  [Usual EXCEPT !.spawn = "v18",
                !.policy = Source("user", "file", "none", "true")],
  [Usual EXCEPT !.exec = FALSE, !.safeMode = TRUE,
                !.policy = Source("local", "symlink", "true", "none")],
  [Usual EXCEPT !.policy = Source("user", "file", "none", "true")
                             \cup Source("project", "absent", "none", "none")],
  [Usual EXCEPT !.spawn = "timeout",
                !.policy = Source("drop-in", "opaque", "odd", "none")]}

\* A hooks.json that already has a hook of the user's own.
TrustDocs == [MCDocs EXCEPT !.codex = {File(<<Guest>>)}]
\* A Cursor hooks.json whose hooks are all for other events.
CursorOnly == [a \in Agents |-> IF a = "cursor"
                 THEN {[File(<<>>) EXCEPT !.mine = {user}]} ELSE {}]
=============================================================================
