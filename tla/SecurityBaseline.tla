-------------------------- MODULE SecurityBaseline --------------------------
(***************************************************************************)
(* javi-forge security: baseline, check, update and allowlist over one     *)
(* project (commands/security.ts).  Commands of several shells meet in the *)
(* one file that says which findings are known.                            *)
(***************************************************************************)
EXTENDS Integers

CONSTANTS
  Shells,      \* who runs the command
  Advisories,  \* what a whole audit may report, from one day to the next
  MaxAudits    \* bound on commands

AuditedStacks == {"node", "python", "go", "rust", "other"}
Modes == {"baseline", "check", "update", "allowlist"}
SeverityOrder == [critical |-> 5, high |-> 4, moderate |-> 3, low |-> 2,
                  info |-> 1]
Thresholds == {"high", "info"}

VARIABLES
  stack,     \* of the project
  baseline,  \* .javi-forge/security-baseline.json
  shell,     \* per shell: the command under way, or its outcome
  audits,
  accepted,  \* history: findings a saving command was given
  promised,  \* history: allowlisted, and nothing took them back since
  uneasy     \* history: commands met, or the file was damaged

baseVars ==
  <<stack, baseline, shell, audits, accepted, promised, uneasy>>

NoFile == [kind |-> "absent", keys |-> {}, allowlist |-> {}]
CleanFile == [NoFile EXCEPT !.kind = "file"]
Quiet == [step |-> "idle", mode |-> "check", min |-> "info", seen |-> {},
          findings |-> {}, existing |-> NoFile, exit |-> "none"]

-----------------------------------------------------------------------------
(* Findings.                                                               *)

\* normalizeSeverity: what is not said or not known is moderate.
NormalSeverity(raw) ==
  IF raw \in DOMAIN SeverityOrder THEN raw ELSE "moderate"

\* parse*Audit, entry by entry: npm has one severity for a package and an id
\* for each direct cause that has one; pip-audit has fixes for severities.
FindingsOf(entry) ==
  [id : CASE stack = "node" /\ entry.ids = {} -> {"npm"}
          [] OTHER -> entry.ids,
   package : {entry.package},
   severity : {IF stack # "python" THEN NormalSeverity(entry.severity)
               ELSE IF entry.fixed THEN "high" ELSE "moderate"}]
Parsed(entries) == UNION {FindingsOf(e) : e \in entries}

\* JSON that is cut short gives nothing; govulncheck's lines are taken singly.
Legible(cut) == IF stack = "go" THEN SUBSET cut ELSE {{}}

\* Slip: the package is left out of the key.
SlipFindingKey(f) == <<f.id, "any">>
FindingKey(f) == <<f.id, f.package>>
FindingKeys(findings) == {FindingKey(f) : f \in findings}

Actionable(findings, min) ==
  {f \in findings : SeverityOrder[f.severity] >= SeverityOrder[min]}

\* detectRegressions: neither in the baseline nor on the allowlist.
Regressions(base, findings) ==
  {f \in findings : FindingKey(f) \notin base.keys \cup base.allowlist}

-----------------------------------------------------------------------------
(* Commands.                                                               *)

Busy(s) == shell[s].step # "idle"
Become(s, fields) == shell' = [shell EXCEPT ![s] = fields]
\* Of a command that is over, the outcome of a check is of interest.
Leave(s, code) ==
  IF shell[s].mode = "check"
  THEN [shell[s] EXCEPT !.step = "idle", !.findings = {}, !.exit = code]
  ELSE [Quiet EXCEPT !.exit = code]

BaseInit ==
  /\ stack \in AuditedStacks
  /\ baseline \in {NoFile, CleanFile}
  /\ shell = [s \in Shells |-> Quiet]
  /\ audits = 0 /\ accepted = {} /\ promised = {} /\ uneasy = FALSE
BaseStart == BaseInit
BaseStill == stack = "other" /\ baseline = NoFile /\ BaseInit

\* A stack without an audit tool ends the command before anything is run.
StartAudit(s, mode, min) ==
  /\ ~Busy(s) /\ audits < MaxAudits
  /\ Become(s, IF stack = "other" THEN [Quiet EXCEPT !.exit = "1"]
               ELSE [Quiet EXCEPT !.step = "audit", !.mode = mode,
                                  !.min = IF mode = "check" THEN min
                                          ELSE "info"])
  /\ audits' = audits + 1
  /\ uneasy' = (uneasy \/ \E t \in Shells : Busy(t))
  /\ UNCHANGED <<stack, baseline, accepted, promised>>

\* runAuditTool: output counts whatever the exit code, also when the time
\* limit cut it off; none is a failure.
AuditEnds(s) ==
  /\ shell[s].step = "audit"
  /\ LET reads(entries, whole) ==
           /\ Become(s, [shell[s] EXCEPT
                !.step = IF shell[s].mode = "baseline" THEN "save" ELSE "read",
                !.findings = Parsed(entries),
                !.seen = IF whole THEN Parsed(entries) ELSE {}])
           /\ accepted' = IF shell[s].mode = "check" THEN accepted
                          ELSE accepted \cup Parsed(entries)
     IN \/ \E advisories \in Advisories :
             \/ reads(advisories, TRUE)
             \/ \E some \in Legible(advisories) : reads(some, FALSE)
        \/ Become(s, Leave(s, "1")) /\ UNCHANGED accepted
  /\ UNCHANGED <<stack, baseline, audits, promised, uneasy>>

Readable == baseline.kind \in {"file", "link"}
ExitOf(s) ==
  IF Actionable(Regressions(baseline, shell[s].findings), shell[s].min) = {}
  THEN "0" ELSE "1"

\* readBaseline after the audit: a file that does not parse is none.
ReadExisting(s) ==
  /\ shell[s].step = "read"
  /\ Become(s,
       CASE shell[s].mode = "check" -> Leave(s, IF Readable THEN ExitOf(s)
                                               ELSE "1")
         [] shell[s].mode = "allowlist" /\ ~Readable -> Leave(s, "1")
         [] OTHER -> [shell[s] EXCEPT
                        !.step = "save",
                        !.existing = IF Readable THEN baseline ELSE NoFile])
  /\ UNCHANGED <<stack, baseline, audits, accepted, promised,
                 uneasy>>

\* What is written: allowlist adds to what was read, update keeps its
\* allowlist, baseline starts anew.
Saved(c) ==
  CASE c.mode = "allowlist" ->
         [kind |-> "file", keys |-> c.existing.keys,
          allowlist |-> c.existing.allowlist \cup FindingKeys(c.findings)]
    [] OTHER ->
         [kind |-> "file", keys |-> FindingKeys(c.findings),
          allowlist |-> c.existing.allowlist]

\* writeBaseline looks for a link; writeFile then empties the file.
OpenBaseline(s) ==
  /\ shell[s].step = "save"
  /\ IF baseline.kind = "link"
     THEN Become(s, Leave(s, "1")) /\ UNCHANGED baseline
     ELSE /\ baseline' = [NoFile EXCEPT !.kind = "torn"]
          /\ Become(s, [shell[s] EXCEPT !.step = "fill"])
  /\ UNCHANGED <<stack, audits, accepted, promised, uneasy>>

FillBaseline(s) ==
  /\ shell[s].step = "fill"
  /\ baseline' = Saved(shell[s])
  /\ promised' =
       CASE shell[s].mode = "baseline" -> {}
         [] shell[s].mode = "allowlist" -> promised \cup shell[s].findings
         [] OTHER -> promised
  /\ Become(s, Leave(s, "0"))
  /\ UNCHANGED <<stack, audits, accepted, uneasy>>

ShellDies(s) ==
  /\ Busy(s)
  /\ Become(s, Quiet)
  /\ uneasy' = (uneasy \/ shell[s].step = "fill")
  /\ UNCHANGED <<stack, baseline, audits, accepted, promised>>

\* Somebody puts a link to the file in its place, or takes it away.
BaselineMoved ==
  /\ baseline.kind = "file" /\ \A s \in Shells : ~Busy(s)
  /\ \/ baseline' = [baseline EXCEPT !.kind = "link"] /\ UNCHANGED uneasy
     \/ baseline' = NoFile /\ uneasy' = TRUE
  /\ UNCHANGED <<stack, shell, audits, accepted, promised>>

BaseNext ==
  \/ \E s \in Shells :
       \/ \E mode \in Modes, min \in Thresholds : StartAudit(s, mode, min)
       \/ AuditEnds(s) \/ ReadExisting(s) \/ OpenBaseline(s)
       \/ FillBaseline(s) \/ ShellDies(s)
  \/ BaselineMoved
BaseSpec == BaseStart /\ [][BaseNext]_baseVars

-----------------------------------------------------------------------------

\* A check that exits 0 saw in a whole audit nothing at its threshold that
\* no command before was given to accept: not the same advisory in another
\* package, nor a finding of a command that died or whose file was lost
\* (security.ts:321-345, cli/dispatch/security.ts:24 "exits non-zero if
\* found").
PassIsAccepted ==
  \A s \in Shells :
    LET c == shell[s] IN
      c.mode = "check" /\ c.exit = "0" =>
        \A f \in Actionable(c.seen, c.min) :
          \E g \in accepted : <<g.id, g.package>> = <<f.id, f.package>>

\* What was allowlisted stays so through updates and further allowlisting,
\* until a new baseline is made; commands that meet, a write cut short and a
\* file taken away aside (security.ts:527 "Preserve createdAt and
\* allowlist on update").
AllowedStay ==
  ~uneasy /\ Readable =>
    \A f \in promised : <<f.id, f.package>> \in baseline.allowlist

\* The file of known findings neither forgets nor invents.
BaselineHolds == PassIsAccepted /\ AllowedStay
=============================================================================
