----------------------------- MODULE SkillGuard -----------------------------
(***************************************************************************)
(* The guard that an agent's host asks before each use of a tool           *)
(* (javi-forge-skillguard-pre-tool-use.mjs, and the OpenCode plugin that   *)
(* runs it in process): it reads one event from stdin, evaluates it, and   *)
(* answers with its exit code. A command is a list of simple commands,     *)
(* each behind wrappers and nested shells.                                 *)
(***************************************************************************)
EXTENDS Integers, Sequences, SequencesExt

CONSTANTS
  InputLimit,  \* INPUT_LIMIT_BYTES, in chunks
  MaxHops,     \* the wrappers reduceWrappers looks behind
  MaxDepth     \* the nested shells evaluateBash looks into

ASSUME GuardAssumption == {InputLimit, MaxHops, MaxDepth} \subseteq Nat

VARIABLES
  agent,        \* the --agent selector
  event,        \* what the host sends
  stdin,        \* the events of stdin that are still to come
  taken,        \* the chunks read
  at,           \* where main is
  todo,         \* the simple commands left, innermost first
  unsupported,  \* a quoted Python document was met
  answer        \* the exit, and the body a Cursor host reads

guardVars == <<agent, event, stdin, taken, at, todo, unsupported, answer>>

Agents == {"claude", "codex", "grok", "cursor", "opencode"}
NoAnswer == [exit |-> "none", body |-> "none"]

-----------------------------------------------------------------------------

\* A path is protected as it is spelled, or as its links lead: policyPathKeys
\* looks at both.
PathKinds == {"plain", "managed", "sensitive"}
Paths == [spelled : PathKinds, leads : PathKinds]
Keys(path) == {path.spelled, path.leads}
\* evaluateFile.
FileAllowed(tool, path) ==
  /\ "sensitive" \notin Keys(path)
  /\ tool = "Read" \/ "managed" \notin Keys(path)
\* parseApplyPatchPaths: an unfinished patch, or one without a file, throws;
\* evaluateEvent then asks for each path, targets of renames too.
PatchAllowed(paths, ended) ==
  /\ ended /\ paths # <<>>
  /\ \A i \in DOMAIN paths : FileAllowed("apply_patch", paths[i])

-----------------------------------------------------------------------------

\* chmod, one machine per profile of the utility. GNU takes options anywhere
\* before "--", with POSIXLY_CORRECT before the first operand only, and Apple
\* the same without any "--".
Profiles == {"gnu", "posix", "apple"}
Words == {"-R", "--", "777", "644", "/", "x"}
IsOption(word) == word = "-R"
First(words, Test(_)) ==
  LET is == {i \in DOMAIN words : Test(words[i])}
  IN IF is = {} THEN Len(words) + 1 ELSE CHOOSE i \in is : \A j \in is : i <= j
\* Where options are no longer recognized.
OptionsEnd(profile, words) ==
  LET ends == First(words, LAMBDA w : w = "--")
      operand == First(words, LAMBDA w : ~IsOption(w) /\ w # "--")
  IN IF profile = "gnu" \/ ends < operand THEN ends ELSE operand
Operands(profile, words) ==
  LET stop == OptionsEnd(profile, words)
      is == {i \in DOMAIN words :
               IF i < stop THEN ~IsOption(words[i])
               ELSE ~(i = stop /\ words[i] = "--")}
  IN [n \in 1..Cardinality(is) |->
        words[CHOOSE i \in is : Cardinality({j \in is : j <= i}) = n]]
Critical(words) == "/" \in ToSet(words)
\* assessChmodProfile.
Chmod(profile, words) ==
  LET operands == Operands(profile, words)
      stop == OptionsEnd(profile, words)
      recursive == \E i \in DOMAIN words : i < stop /\ IsOption(words[i])
  IN IF profile = "apple" /\ "--" \in ToSet(words) THEN "rejected"
     ELSE IF /\ operands # <<>> /\ Critical(Tail(operands))
             /\ recursive \/ Head(operands) = "777" THEN "dangerous"
     ELSE "safe"
\* Slip: one profile that finds it safe is enough.
SlipUnion(results) ==
  IF "safe" \in results THEN "safe"
  ELSE IF "dangerous" \in results THEN "dangerous" ELSE "unsupported"
\* reduceProfileUnion: the host may be any of them, so danger dominates.
Union(results) ==
  IF "dangerous" \in results THEN "dangerous"
  ELSE IF "safe" \in results THEN "safe" ELSE "unsupported"
\* adaptProtectedSink: a call no profile understands is refused if it could
\* reach a critical target.
SinkAllowed(results, applicable) ==
  /\ Union(results) # "dangerous"
  /\ Union(results) = "unsupported" => ~applicable

\* What is at the end of the wrappers: a command that is harmless or that a
\* rule denies, a Python document, text that cannot be split, or chmod.
Leaf(kind) == [kind |-> kind, words |-> <<>>]
LeafAllowed(leaf) ==
  \/ leaf.kind \in {"harmless", "python"}
  \/ /\ leaf.kind = "chmod"
     /\ SinkAllowed({Chmod(p, leaf.words) : p \in Profiles},
                    Critical(leaf.words))

\* Behind(command): the layers around it, "wrap" (sudo, env, nohup and
\* assignments) or "shell" (sh -c, and substitutions).
Command(layers, leaf) == [layers |-> layers, leaf |-> leaf, depth |-> 0,
                          hops |-> 0]

-----------------------------------------------------------------------------

\* failClosed, denyAndExit, cursorDecisionAndExit: the exit code is set in a
\* finally, so a host that no longer reads gets it without the body. The
\* OpenCode plugin throws instead, or returns.
Reply(allowed) ==
  \E body \in {"none", IF allowed THEN "allow" ELSE "deny"} :
    answer' = [exit |-> IF allowed THEN "0" ELSE "2",
               body |-> IF agent = "cursor" THEN body ELSE "none"]
Answered(allowed) == Reply(allowed) /\ at' = "exited" /\ todo' = <<>>

\* main: the platform, the selector and the registry, before anything is read.
\* In OpenCode the event comes as a value.
Begin ==
  /\ at = "start"
  /\ \/ agent # "opencode" /\ Answered(FALSE)
     \/ /\ agent \in Agents
        /\ at' = IF agent = "opencode" THEN "read" ELSE "reading"
        /\ UNCHANGED <<todo, answer>>
  /\ UNCHANGED <<agent, event, stdin, taken, unsupported>>

OverLimit(chunks) == chunks > InputLimit
\* readBoundedStdin: the first of end, error, abort and excess settles it.
Receive ==
  /\ at = "reading" /\ stdin # <<>>
  /\ stdin' = Tail(stdin)
  /\ \/ /\ Head(stdin) = "data"
        /\ taken' = taken + 1
        /\ IF OverLimit(taken + 1) THEN Answered(FALSE)
           ELSE UNCHANGED <<at, todo, answer>>
     \/ /\ Head(stdin) = "end"
        /\ at' = "read"
        /\ UNCHANGED <<taken, todo, answer>>
     \/ /\ Head(stdin) \in {"error", "aborted"}
        /\ Answered(FALSE) /\ UNCHANGED taken
  /\ UNCHANGED <<agent, event, unsupported>>

\* An event cut short is no JSON, and neither is nothing.
Whole == agent = "opencode" \/ taken = event.chunks
\* evaluateEvent: the schema first; only OpenCode lets a tool it does not map
\* through.
Evaluate ==
  /\ at = "read"
  /\ \/ /\ ~Whole \/ event.shape \in {"malformed", "truncated"}
        /\ Answered(FALSE)
     \/ /\ Whole /\ event.shape = "other-tool"
        /\ Answered(agent = "opencode")
     \/ /\ Whole /\ event.shape = "file"
        /\ Answered(FileAllowed(event.tool, event.paths[1]))
     \/ /\ Whole /\ event.shape = "patch"
        /\ Answered(PatchAllowed(event.paths, event.ended))
     \/ /\ Whole /\ event.shape = "shell"
        /\ at' = "shell" /\ todo' = event.commands /\ UNCHANGED answer
  /\ UNCHANGED <<agent, event, stdin, taken, unsupported>>

TooDeep == Answered(FALSE)
\* evaluateBash, one layer or one command at a time.
Peel ==
  /\ at = "shell" /\ todo # <<>>
  /\ LET command == Head(todo)
         inner == [command EXCEPT !.layers = Tail(@)]
         Next1(c) == todo' = <<c>> \o Tail(todo) /\ UNCHANGED <<at, answer>>
     IN IF command.layers # <<>>
        THEN /\ UNCHANGED unsupported
             /\ IF Head(command.layers) = "wrap"
                THEN IF command.hops + 1 > MaxHops THEN Answered(FALSE)
                     ELSE Next1([inner EXCEPT !.hops = @ + 1])
                ELSE IF command.depth + 1 > MaxDepth THEN TooDeep
                     ELSE Next1([inner EXCEPT !.depth = @ + 1, !.hops = 0])
        ELSE /\ unsupported' = (unsupported \/ command.leaf.kind = "python")
             /\ IF LeafAllowed(command.leaf)
                THEN todo' = Tail(todo) /\ UNCHANGED <<at, answer>>
                ELSE Answered(FALSE)
  /\ UNCHANGED <<agent, event, stdin, taken>>
\* A Python document is denied only after everything else was looked at.
Peeled ==
  /\ at = "shell" /\ todo = <<>>
  /\ Answered(~unsupported)
  /\ UNCHANGED <<agent, event, stdin, taken, unsupported>>

-----------------------------------------------------------------------------

Blank == [shape |-> "malformed", tool |-> "none", chunks |-> 1,
          paths |-> <<>>, ended |-> TRUE, commands |-> <<>>]
GuardStill == /\ agent = "claude" /\ event = Blank /\ stdin = <<>>
              /\ taken = 0 /\ at = "start" /\ todo = <<>>
              /\ unsupported = FALSE /\ answer = NoAnswer

\* The events tried: every way of reading one of them, and one way of reading
\* each of the others.
Layers == UNION {[1..n -> {"wrap", "shell"}] : n \in 0..(MaxHops + 1)}
Leaves == {Leaf(k) : k \in {"harmless", "denied", "python", "unlexable"}}
          \cup {[kind |-> "chmod", words |-> w] :
                  w \in UNION {[1..n -> Words] : n \in 1..3}}
Commands1 == {<<Command(l, leaf)>> : l \in Layers,
                leaf \in {Leaf("harmless"), Leaf("denied"), Leaf("python")}}
             \cup {<<Command(<<>>, leaf)>> : leaf \in Leaves}
             \cup {<<Command(<<>>, Leaf("python")),
                      Command(<<"shell">>, leaf)>> :
                     leaf \in {Leaf("harmless"), Leaf("denied")}}
FileEvent(tool, path, chunks) ==
  [Blank EXCEPT !.shape = "file", !.tool = tool, !.paths = <<path>>,
                !.chunks = chunks]
PlainPath == [spelled |-> "plain", leads |-> "plain"]
EventTried ==
  \/ \E s \in {"malformed", "truncated", "other-tool"} :
       event = [Blank EXCEPT !.shape = s]
  \/ \E t \in {"Read", "Write"}, p \in Paths : event = FileEvent(t, p, 1)
  \/ \E ps \in UNION {[1..n -> Paths] : n \in 0..2}, e \in BOOLEAN :
       event = [Blank EXCEPT !.shape = "patch", !.paths = ps, !.ended = e]
  \/ \E c \in Commands1 :
       event = [Blank EXCEPT !.shape = "shell", !.commands = c]
Pipes(n) == {[i \in 1..k |-> IF i < k THEN "data" ELSE last] :
               k \in 1..(n + 1), last \in {"end", "error", "aborted"}}
GuardStart ==
  /\ \/ /\ \E n \in 1..(InputLimit + 1) :
             event = FileEvent("Read", PlainPath, n)
        /\ agent \in Agents \cup {"unknown"}
        /\ stdin \in Pipes(event.chunks)
     \/ /\ EventTried
        /\ agent \in {"claude", "cursor", "opencode"}
        /\ stdin = <<"data", "end">>
  /\ taken = 0 /\ at = "start" /\ todo = <<>>
  /\ unsupported = FALSE /\ answer = NoAnswer

GuardNext == Begin \/ Receive \/ Evaluate \/ Peel \/ Peeled
GuardSpec == GuardStart /\ [][GuardNext]_guardVars

-----------------------------------------------------------------------------

\* What the user would not want to happen: a path protected either way, and a
\* command that is denied, cannot be read, or is a chmod as GNU runs it that
\* takes a critical root, however deep it is.
Harmful(leaf) ==
  \/ leaf.kind \in {"denied", "python", "unlexable"}
  \/ leaf.kind = "chmod" /\ Chmod("gnu", leaf.words) = "dangerous"
Protected(path) == \/ "sensitive" \in {path.spelled, path.leads}
                   \/ /\ event.tool # "Read"
                      /\ "managed" \in {path.spelled, path.leads}

\* The tool is allowed only for an event that came whole within the limit and
\* that names none of the protected paths, neither as spelled nor through
\* links, in any header of a patch (mjs:941-993 and 116-122).
AllowedIsClean ==
  answer.exit = "0" =>
    /\ agent # "opencode" => taken = event.chunks /\ taken <= InputLimit
    /\ event.shape = "patch" => event.ended
    /\ \A i \in DOMAIN event.paths : ~Protected(event.paths[i])

\* An allowed command hides nothing behind wrappers, nested shells or a later
\* command: a bound that is reached denies (mjs:735, 853), and a call
\* that one profile finds harmless but another dangerous is denied.
NothingHidden ==
  answer.exit = "0" => \A i \in DOMAIN event.commands :
                         ~Harmful(event.commands[i].leaf)

\* The exit code and the body of a Cursor answer never disagree, and a guard
\* that was not asked properly never allows (mjs:1032-1054, 1089-1115).
CodeAndBodyAgree ==
  answer # NoAnswer =>
    /\ answer.body = "allow" => answer.exit = "0"
    /\ answer.body = "deny" => answer.exit = "2"
    /\ agent \notin Agents => answer.exit = "2"

\* Nothing dangerous is let through, and the host can tell.
DecisionIsSafe == AllowedIsClean /\ NothingHidden /\ CodeAndBodyAgree
=============================================================================
