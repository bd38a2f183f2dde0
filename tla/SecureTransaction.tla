-------------------------- MODULE SecureTransaction --------------------------
(***************************************************************************)
(* The staged multi-file transaction every hook installer commits through: *)
(* runTransaction in src/src/lib/secure-fs-transaction.ts, over the        *)
(* PlatformSecureFs adapter whose outcomes (src/src/lib/secure-fs-posix.ts)*)
(* are nondeterministic here: any call may refuse, and a refused call may  *)
(* have left its mutation behind.  Beside it run an editor who changes     *)
(* target files, an event that voids the proof of a directory, and a crash.*)
(*                                                                         *)
(* Data are abstracted to what the properties tell apart: a file holds     *)
(* "prior" (what was there), "new" (the desired bytes), "edit" (what the   *)
(* editor wrote), "partial" (a write cut short) or is "none".  Directories *)
(* form one chain: the gated ancestors, then the managed containers,       *)
(* parent first, as in every layout the hook managers pass.                *)
(*                                                                         *)
(* A definition named Slip... is a plausible bug in the definition after   *)
(* it; PROJECT.json pairs it with the property that catches it.            *)
(***************************************************************************)
EXTENDS Integers, FiniteSets

CONSTANTS
  NumComps,      \* components of the layout, committed in the order 1..NumComps
  NumAncestors,  \* existing directories from the root through projectDir
  NumDirs,       \* ancestors and managed containers together
  Home,          \* the managed container each component is written into
  Candidates,    \* BACKUP_NONCE_CANDIDATES
  Plans          \* the write plans the callers may pass

Comps == 1..NumComps
Dirs == 1..NumDirs
Managed == (NumAncestors + 1)..NumDirs

Contents == {"none", "prior", "new", "edit"}
Component == [write : BOOLEAN, capturePrior : BOOLEAN,
              forceBackup : BOOLEAN, wasAbsent : BOOLEAN]

ASSUME LayoutAssumption ==
  /\ NumComps \in Nat
  /\ NumAncestors \in Nat \ {0}
  /\ NumDirs \in Nat /\ NumDirs > NumAncestors
  /\ Home \in [Comps -> Managed]
  /\ Candidates \in Nat
  /\ Plans \subseteq [Comps -> Component]

VARIABLES
  plan,       \* what the caller asked for each component
  dir,        \* each directory: "absent", "safe" or "unsafe"
  target,     \* the bytes at each component's path
  temp,       \* the staged temporary beside it
  rtemp,      \* the temporary a rollback stages the prior bytes in
  backup,     \* the persistent backup of a forced replacement
  pc,         \* where the transaction is
  cur,        \* the directory or component it is working on
  tries,      \* backup names already refused
  held,       \* directories whose handle is open
  created,    \* directories this transaction made
  captured,   \* the prior bytes read before staging, "none" if not captured
  staged,     \* components registered for commit or for cleanup
  identified, \* staged components whose temporary's identity was captured
  committed,  \* components renamed into place, as the result reports them
  undo,       \* committed components the rollback has still to undo
  sameNode,   \* the file re-read by the rollback is still the one at the path
  errors,     \* kinds of line in the result's errors
  touched,    \* history: targets the editor changed
  late        \* history: targets changed between the re-read and its use

files == <<temp, rtemp, backup>>
fsVars == <<dir, target, files>>
handles == <<held, created>>
ledger == <<captured, staged, identified, committed>>
txVars == <<cur, tries, handles, ledger, undo, sameNode, errors>>
history == <<touched, late>>
vars == <<plan, fsVars, pc, txVars, history>>

needsWrite(c) == plan[c].write
Writes == {c \in Comps : needsWrite(c)}
anyWrite == Writes # {}

\* A container lies on the path of some write: in a chain, a write at or below.
writesInto(d) == \E c \in Writes : d <= Home[c]

Least(c, S) == c \in S /\ \A s \in S : c <= s
Greatest(c, S) == c \in S /\ \A s \in S : s <= c

\* What each path held when the caller classified it.
Before(c) == IF plan[c].wasAbsent THEN "none" ELSE "prior"

Init ==
  /\ plan \in Plans
  /\ dir \in {[d \in Dirs |-> IF d <= n THEN "safe" ELSE "absent"] :
                n \in NumAncestors..NumDirs}
  /\ target = [c \in Comps |-> Before(c)]
  /\ \A c \in Comps : dir[Home[c]] = "absent" => plan[c].wasAbsent
  /\ temp = [c \in Comps |-> "none"]
  /\ rtemp = [c \in Comps |-> "none"]
  /\ backup = [c \in Comps |-> "none"]
  /\ pc = "preflight" /\ cur = 1 /\ tries = 0
  /\ held = {} /\ created = {}
  /\ captured = [c \in Comps |-> "none"]
  /\ staged = {} /\ identified = {} /\ committed = {} /\ undo = {}
  /\ sameNode = FALSE
  /\ errors = {}
  /\ touched = {} /\ late = {}

-----------------------------------------------------------------------------
(* The catch clause: a TxAbort enters the rollback, an unknown rename STOPs. *)

\* Slip: the commit whose rename is just being judged is not undone.
SlipAbortAfter(done) ==
  /\ pc' = "rollback"
  /\ undo' = committed
  /\ errors' = errors \cup {"abort"}

AbortAfter(done) ==
  /\ pc' = "rollback"
  /\ undo' = done
  /\ errors' = errors \cup {"abort"}

Abort == AbortAfter(committed)

\* Slip: an unknown outcome is reported as a plain abort.
SlipAbortUnknown ==
  /\ pc' = "close"
  /\ undo' = {}
  /\ errors' = errors \cup {"abort"}

AbortUnknown ==
  /\ pc' = "close"
  /\ undo' = {}
  /\ errors' = errors \cup {"abort", "stop"}

Stop ==
  /\ pc' = "close"
  /\ errors' = errors \cup {"stop"}

\* A step that goes on without a new error.
Proceed(next) == pc' = next /\ UNCHANGED <<undo, errors>>

-----------------------------------------------------------------------------
(* Preflight: gate the existing chain, then ensure the managed containers.  *)

\* gate() holds the handle before the proofs that may refuse it.
OpenAncestor ==
  /\ pc = "preflight" /\ cur <= NumAncestors
  /\ \/ Abort /\ UNCHANGED <<held, cur>>
     \/ held' = held \cup {cur} /\ Abort /\ UNCHANGED cur
     \/ /\ dir[cur] = "safe"
        /\ held' = held \cup {cur}
        /\ cur' = cur + 1
        /\ Proceed("preflight")
  /\ UNCHANGED <<plan, fsVars, tries, created, ledger, sameNode, history>>

PreflightDone ==
  /\ pc = "preflight" /\ cur > NumAncestors
  /\ Proceed(IF anyWrite THEN "containers" ELSE "stage")
  /\ cur' = IF anyWrite THEN cur ELSE 1
  /\ UNCHANGED <<plan, fsVars, tries, handles, ledger, sameNode, history>>

\* ensureManagedContainer on a directory that can be opened, or that refuses
\* for any reason but not-found; or whose parent is not held.
OpenContainer ==
  /\ pc = "containers" /\ cur <= NumDirs
  /\ \/ Abort /\ UNCHANGED <<held, cur>>
     \/ /\ dir[cur] # "absent" /\ cur - 1 \in held
        /\ held' = held \cup {cur}
        /\ \/ Abort /\ UNCHANGED cur
           \/ dir[cur] = "safe" /\ Proceed("containers") /\ cur' = cur + 1
  /\ UNCHANGED <<plan, fsVars, tries, created, ledger, sameNode, history>>

\* A genuinely absent container no write needs is left alone.
SkipContainer ==
  /\ pc = "containers" /\ cur <= NumDirs
  /\ dir[cur] = "absent" /\ cur - 1 \in held /\ ~writesInto(cur)
  /\ cur' = cur + 1
  /\ Proceed("containers")
  /\ UNCHANGED <<plan, fsVars, tries, handles, ledger, sameNode, history>>

\* createDirExclusive may refuse after its mkdir: that segment is not owned.
\* A created segment is registered and held before its own proofs.
CreateContainer ==
  /\ pc = "containers" /\ cur <= NumDirs
  /\ dir[cur] = "absent" /\ cur - 1 \in held /\ writesInto(cur)
  /\ dir' = [dir EXCEPT ![cur] = "safe"]
  /\ \/ Abort /\ UNCHANGED <<cur, held, created>>
     \/ /\ created' = created \cup {cur}
        /\ held' = held \cup {cur}
        /\ \/ Abort /\ UNCHANGED cur
           \/ Proceed("containers") /\ cur' = cur + 1
  /\ UNCHANGED <<plan, target, files, tries, ledger, sameNode, history>>

ContainersDone ==
  /\ pc = "containers" /\ cur > NumDirs
  /\ Proceed("stage") /\ cur' = 1
  /\ UNCHANGED <<plan, fsVars, tries, handles, ledger, sameNode, history>>

-----------------------------------------------------------------------------
(* Capture, forced backup and staging, component by component.              *)

SkipComponent ==
  /\ pc = "stage" /\ cur <= NumComps /\ ~needsWrite(cur)
  /\ cur' = cur + 1
  /\ Proceed("stage")
  /\ UNCHANGED <<plan, fsVars, tries, handles, ledger, sameNode, history>>

\* Revalidate the parent, then read the prior bytes where the plan asks.
Capture ==
  /\ pc = "stage" /\ cur <= NumComps /\ needsWrite(cur)
  /\ \/ Abort /\ UNCHANGED captured
     \/ /\ dir[Home[cur]] = "safe"
        /\ IF plan[cur].capturePrior \/ plan[cur].forceBackup
             THEN /\ target[cur] # "none"
                  /\ captured' = [captured EXCEPT ![cur] = target[cur]]
             ELSE UNCHANGED captured
        /\ Proceed(IF plan[cur].forceBackup THEN "backup" ELSE "write")
  /\ tries' = 0
  /\ UNCHANGED <<plan, fsVars, cur, handles, staged, identified, committed,
                 sameNode, history>>

CandidatesLeft == tries < Candidates

\* Slip: a refused name is not counted.
SlipBackupRefused ==
  /\ pc = "backup" /\ CandidatesLeft
  /\ backup' \in {backup, [backup EXCEPT ![cur] = "partial"]}
  /\ Proceed("backup")
  /\ UNCHANGED <<plan, dir, target, temp, rtemp, cur, tries, handles, ledger,
                 sameNode, history>>

\* A refused exclusive create may leave a partial file under its name.
BackupRefused ==
  /\ pc = "backup" /\ CandidatesLeft
  /\ backup' \in {backup, [backup EXCEPT ![cur] = "partial"]}
  /\ tries' = tries + 1
  /\ Proceed("backup")
  /\ UNCHANGED <<plan, dir, target, temp, rtemp, cur, handles, ledger,
                 sameNode, history>>

\* Once written, the mode and the parent are proved; a refusal aborts.
BackupWritten ==
  /\ pc = "backup" /\ CandidatesLeft
  /\ backup' = [backup EXCEPT ![cur] = captured[cur]]
  /\ \/ Abort
     \/ dir[Home[cur]] = "safe" /\ Proceed("write")
  /\ UNCHANGED <<plan, dir, target, temp, rtemp, cur, tries, handles, ledger,
                 sameNode, history>>

\* Slip: without a backup the replacement goes ahead.
SlipBackupExhausted ==
  /\ pc = "backup" /\ ~CandidatesLeft
  /\ Proceed("write")
  /\ UNCHANGED <<plan, fsVars, cur, tries, handles, ledger, sameNode, history>>

BackupExhausted ==
  /\ pc = "backup" /\ ~CandidatesLeft
  /\ Abort
  /\ UNCHANGED <<plan, fsVars, cur, tries, handles, ledger, sameNode,
                 history>>

\* writeExclusive: a fault after the create leaves a partial temporary.
StageWrite ==
  /\ pc = "write"
  /\ \/ temp' = [temp EXCEPT ![cur] = "new"] /\ Proceed("settle")
     \/ temp' \in {temp, [temp EXCEPT ![cur] = "partial"]} /\ Abort
  /\ UNCHANGED <<plan, dir, target, rtemp, backup, cur, tries, handles,
                 ledger, sameNode, history>>

\* Mode and parent are proved before the temporary is registered, so a refusal
\* here leaves one that nothing owns.
StageSettle ==
  /\ pc = "settle"
  /\ \/ Abort /\ UNCHANGED staged
     \/ /\ dir[Home[cur]] = "safe"
        /\ staged' = staged \cup {cur}
        /\ Proceed("identify")
  /\ UNCHANGED <<plan, fsVars, cur, tries, handles, captured, identified,
                 committed, sameNode, history>>

StageIdentify ==
  /\ pc = "identify"
  /\ \/ Abort /\ UNCHANGED <<identified, cur>>
     \/ /\ identified' = identified \cup {cur}
        /\ cur' = cur + 1
        /\ Proceed("stage")
  /\ UNCHANGED <<plan, fsVars, tries, handles, captured, staged, committed,
                 sameNode, history>>

-----------------------------------------------------------------------------
(* The full re-proof before the first rename, and the commit loop.          *)

ProofHolds == \A d \in held : dir[d] = "safe"

Recheck ==
  /\ pc = "stage" /\ cur > NumComps
  /\ \/ Abort
     \/ ProofHolds /\ Proceed("commit")
  /\ UNCHANGED <<plan, fsVars, cur, tries, handles, ledger, sameNode,
                 history>>

PreRename ==
  /\ pc = "commit"
  /\ \E c \in staged :
       /\ Least(c, staged)
       /\ \/ Abort /\ UNCHANGED cur
          \/ dir[Home[c]] = "safe" /\ cur' = c /\ Proceed("rename")
  /\ UNCHANGED <<plan, fsVars, tries, handles, ledger, sameNode, history>>

\* The rename took effect: recorded before its completion is judged.
RenameApplied ==
  /\ pc = "rename"
  /\ target' = [target EXCEPT ![cur] = "new"]
  /\ temp' = [temp EXCEPT ![cur] = "none"]
  /\ committed' = committed \cup {cur}
  /\ staged' = staged \ {cur}
  /\ AbortAfter(committed \cup {cur}) \/ Proceed("confirm")
  /\ UNCHANGED <<plan, dir, rtemp, backup, cur, tries, handles, captured,
                 identified, sameNode, history>>

RenameNotApplied ==
  /\ pc = "rename"
  /\ Abort
  /\ UNCHANGED <<plan, fsVars, cur, tries, handles, ledger, sameNode,
                 history>>

\* Rejected, malformed or "unknown": the mutation may or may not have happened.
RenameUnknown ==
  /\ pc = "rename"
  /\ \/ UNCHANGED <<target, temp>>
     \/ /\ target' = [target EXCEPT ![cur] = "new"]
        /\ temp' = [temp EXCEPT ![cur] = "none"]
  /\ AbortUnknown
  /\ UNCHANGED <<plan, dir, rtemp, backup, cur, tries, handles, ledger,
                 sameNode, history>>

PostRename ==
  /\ pc = "confirm"
  /\ \/ Abort
     \/ dir[Home[cur]] = "safe" /\ Proceed("commit")
  /\ UNCHANGED <<plan, fsVars, cur, tries, handles, ledger, sameNode,
                 history>>

\* Slip: the loop ends one entry early.
SlipAllRenamed == \A c, d \in staged : c = d
AllRenamed == staged = {}

CommitDone ==
  /\ pc = "commit" /\ AllRenamed
  /\ Proceed("close")
  /\ UNCHANGED <<plan, fsVars, cur, tries, handles, ledger, sameNode,
                 history>>

-----------------------------------------------------------------------------
(* rollback(): undo the commits, newest first, while the proof holds.       *)

\* gateStillValid over every held directory.
RollbackGate ==
  /\ pc = "rollback"
  /\ \E c \in undo :
       /\ Greatest(c, undo)
       /\ \/ Stop /\ UNCHANGED cur
          \/ ProofHolds /\ cur' = c /\ pc' = "reread" /\ UNCHANGED errors
  /\ UNCHANGED <<plan, fsVars, tries, handles, ledger, undo, sameNode,
                 history>>

SlipStillCommitted == target[cur] # "none"
StillCommitted == target[cur] = "new"

\* Unreadable, gone, or no longer the committed hash: STOP.
RollbackReread ==
  /\ pc = "reread"
  /\ \/ Stop /\ UNCHANGED <<sameNode, undo>>
     \/ /\ StillCommitted
        /\ UNCHANGED errors
        /\ IF plan[cur].wasAbsent
             THEN pc' = "unlink" /\ sameNode' = TRUE /\ UNCHANGED undo
             ELSE IF captured[cur] # "none"
             THEN pc' = "restage" /\ sameNode' = TRUE /\ UNCHANGED undo
             ELSE pc' = "rollback" /\ undo' = undo \ {cur} /\ UNCHANGED sameNode
  /\ UNCHANGED <<plan, fsVars, cur, tries, handles, ledger, history>>

\* unlinkIfIdentity: it may refuse, and may fail after the unlink.
RollbackUnlink ==
  /\ pc = "unlink"
  /\ \/ Stop /\ UNCHANGED <<target, undo>>
     \/ /\ sameNode
        /\ target' = [target EXCEPT ![cur] = "none"]
        /\ \/ Stop /\ UNCHANGED undo
           \/ pc' = "rollback" /\ undo' = undo \ {cur} /\ UNCHANGED errors
  /\ UNCHANGED <<plan, dir, files, cur, tries, handles, ledger, sameNode,
                 history>>

RollbackRestage ==
  /\ pc = "restage"
  /\ \/ /\ rtemp' = [rtemp EXCEPT ![cur] = captured[cur]]
        /\ pc' = "restore" /\ UNCHANGED errors
     \/ rtemp' \in {rtemp, [rtemp EXCEPT ![cur] = "partial"]} /\ Stop
  /\ UNCHANGED <<plan, dir, target, temp, backup, cur, tries, handles, ledger,
                 undo, sameNode, history>>

\* A chmod miss is a note; a rename that is not a clean success STOPs, whether
\* it took effect or not.
RollbackRestore ==
  /\ pc = "restore"
  /\ \/ Stop /\ UNCHANGED <<target, rtemp, undo>>
     \/ /\ target' = [target EXCEPT ![cur] = captured[cur]]
        /\ rtemp' = [rtemp EXCEPT ![cur] = "none"]
        /\ \/ Stop /\ UNCHANGED undo
           \/ /\ pc' = "rollback"
              /\ undo' = undo \ {cur}
              /\ errors' \in {errors, errors \cup {"note"}}
  /\ UNCHANGED <<plan, dir, temp, backup, cur, tries, handles, ledger,
                 sameNode, history>>

\* With nothing left to undo the staged temporaries are unlinked by identity;
\* one without identity is re-captured first, and a refusal there throws.
CleanupTemp ==
  /\ pc = "rollback" /\ undo = {}
  /\ \E c \in staged :
       /\ Least(c, staged)
       /\ \/ /\ c \notin identified
             /\ pc' = "close" /\ errors' = errors \cup {"rollback"}
             /\ UNCHANGED <<staged, temp>>
          \/ /\ staged' = staged \ {c}
             /\ UNCHANGED pc
             /\ \/ UNCHANGED errors /\ temp' = [temp EXCEPT ![c] = "none"]
                \/ /\ errors' = errors \cup {"cleanup"}
                   /\ temp' \in {temp, [temp EXCEPT ![c] = "none"]}
  /\ UNCHANGED <<plan, dir, target, rtemp, backup, cur, tries, handles,
                 captured, identified, committed, undo, sameNode, history>>

\* Nothing lives in a directory: no file of a component and no child.
Empty(d) ==
  /\ \A c \in Comps : Home[c] = d =>
       target[c] = "none" /\ temp[c] = "none" /\ rtemp[c] = "none"
         /\ backup[c] = "none"
  /\ \A e \in Dirs : e > d => dir[e] = "absent"

\* Best effort: a refused rmdir is not reported.
RemoveCreated ==
  /\ pc = "rollback" /\ undo = {} /\ staged = {}
  /\ \E d \in created :
       /\ Greatest(d, created)
       /\ created' = created \ {d}
       /\ \/ UNCHANGED dir
          \/ Empty(d) /\ dir' = [dir EXCEPT ![d] = "absent"]
  /\ UNCHANGED <<plan, target, files, pc, cur, tries, held, ledger, undo,
                 sameNode, errors, history>>

RollbackDone ==
  /\ pc = "rollback" /\ undo = {} /\ staged = {} /\ created = {}
  /\ pc' = "close"
  /\ UNCHANGED <<plan, fsVars, txVars, history>>

\* Slip: a closed handle stays in the list the loop runs over.
SlipClose ==
  /\ pc = "close" /\ held # {}
  /\ errors' \in {errors, errors \cup {"close"}}
  /\ UNCHANGED <<plan, fsVars, pc, cur, tries, handles, ledger, undo,
                 sameNode, history>>

\* The finally clause; a failed close is an error of the whole operation.
Close ==
  /\ pc = "close"
  /\ \E d \in held :
       /\ Least(d, held)
       /\ held' = held \ {d}
       /\ errors' \in {errors, errors \cup {"close"}}
  /\ UNCHANGED <<plan, fsVars, pc, cur, tries, created, ledger, undo,
                 sameNode, history>>

Return ==
  /\ pc = "close" /\ held = {}
  /\ pc' = "done"
  /\ UNCHANGED <<plan, fsVars, txVars, history>>

Step ==
  \/ OpenAncestor \/ PreflightDone \/ OpenContainer \/ SkipContainer
  \/ CreateContainer \/ ContainersDone
  \/ SkipComponent \/ Capture \/ BackupRefused \/ BackupWritten
  \/ BackupExhausted \/ StageWrite \/ StageSettle \/ StageIdentify
  \/ Recheck \/ PreRename \/ RenameApplied \/ RenameNotApplied
  \/ RenameUnknown \/ PostRename \/ CommitDone
  \/ RollbackGate \/ RollbackReread \/ RollbackUnlink \/ RollbackRestage
  \/ RollbackRestore \/ CleanupTemp \/ RemoveCreated \/ RollbackDone
  \/ Close \/ Return

-----------------------------------------------------------------------------
(* The world around the transaction.                                        *)

Running == pc \notin {"done", "crashed"}

\* The target the rollback has read and not yet undone.
InUndoWindow(c) == cur = c /\ pc \in {"unlink", "restage", "restore"}

\* An editor changes, creates or deletes a target, once each: in place (the
\* node stays) or by replacing the file.
Edit(c) ==
  /\ Running /\ c \notin touched /\ dir[Home[c]] # "absent"
  /\ \/ /\ target' = [target EXCEPT ![c] = "edit"]
        /\ sameNode' \in IF cur = c THEN {sameNode, FALSE} ELSE {sameNode}
     \/ /\ target[c] # "none"
        /\ target' = [target EXCEPT ![c] = "none"]
        /\ sameNode' = (sameNode /\ cur # c)
  /\ touched' = touched \cup {c}
  /\ late' = IF InUndoWindow(c) THEN late \cup {c} ELSE late
  /\ UNCHANGED <<plan, dir, files, pc, cur, tries, handles, ledger, undo,
                 errors>>

\* A directory is swapped, or its owner, mode or ACL stops being acceptable.
LoseProof(d) ==
  /\ Running /\ dir[d] = "safe"
  /\ dir' = [dir EXCEPT ![d] = "unsafe"]
  /\ UNCHANGED <<plan, target, files, pc, txVars, history>>

\* The process dies; the system closes its handles.
Crash ==
  /\ Running
  /\ pc' = "crashed" /\ held' = {}
  /\ UNCHANGED <<plan, fsVars, cur, tries, created, ledger, undo, sameNode,
                 errors, history>>

World == (\E c \in Comps : Edit(c)) \/ (\E d \in Dirs : LoseProof(d)) \/ Crash

Next == Step \/ World

\* Every await of the engine settles: its own steps are weakly fair, the
\* world's are not.
Spec == Init /\ [][Next]_vars /\ WF_vars(Step)
-----------------------------------------------------------------------------
(* Properties.                                                              *)

Kinds == {"abort", "stop", "note", "cleanup", "rollback", "close"}
Points == {"preflight", "containers", "stage", "backup", "write", "settle",
           "identify", "commit", "rename", "confirm", "rollback", "reread",
           "unlink", "restage", "restore", "close", "done", "crashed"}

\* The state keeps its types, and what the engine holds, registers or reports
\* stays inside the layout it was given.
TypeOK ==
  /\ plan \in [Comps -> Component]
  /\ dir \in [Dirs -> {"absent", "safe", "unsafe"}]
  /\ target \in [Comps -> Contents]
  /\ temp \in [Comps -> {"none", "partial", "new"}]
  /\ rtemp \in [Comps -> Contents \cup {"partial"}]
  /\ backup \in [Comps -> Contents \cup {"partial"}]
  /\ pc \in Points
  /\ cur \in Nat \ {0}
  /\ tries \in 0..Candidates
  /\ held \subseteq Dirs /\ created \subseteq Dirs
  /\ captured \in [Comps -> Contents]
  /\ staged \subseteq Comps /\ identified \subseteq Comps
  /\ committed \subseteq Comps /\ undo \subseteq Comps
  /\ sameNode \in BOOLEAN
  /\ errors \subseteq Kinds
  /\ touched \subseteq Comps /\ late \subseteq Comps

\* The rollback can bring the component back: it was absent, or it was read.
Recoverable(c) ==
  plan[c].wasAbsent \/ plan[c].capturePrior \/ plan[c].forceBackup

\* ok (errors empty, line 658) means the whole plan is in place: every write
\* was renamed, and its target holds the new bytes unless the editor changed
\* it.
SuccessIsComplete ==
  pc = "done" /\ errors = {} =>
    /\ committed = Writes
    /\ \A c \in Writes : temp[c] = "none" /\ (c \notin touched => target[c] = "new")

\* A failure that reports no STOP left nothing behind: every target the editor
\* did not change holds exactly what it held before (lines 635-647, 719-799).
FailureRestores ==
  pc = "done" /\ "abort" \in errors /\ "stop" \notin errors =>
    \A c \in Comps : c \notin touched /\ Recoverable(c) => target[c] = Before(c)

\* At every instant, so after a crash too: where force replaced a file, the
\* bytes it replaced are complete in the persistent backup (lines 526-537).
BackupCoversReplacement ==
  \A c \in Comps : plan[c].forceBackup /\ target[c] = "new" =>
    captured[c] # "none" /\ backup[c] = captured[c]

\* While anything is being renamed, every write of the plan is already fully
\* staged and identified, or already renamed (lines 514-605).
AllStagedBeforeRename ==
  pc \in {"commit", "rename", "confirm"} =>
    /\ staged \cup committed = Writes /\ identified = Writes
    /\ \A c \in staged : temp[c] = "new"

\* No target carries the new bytes unless the result names it as committed or
\* tells the user to STOP and look (lines 614-626).
NothingUnreported ==
  \A c \in Comps : target[c] = "new" => c \in committed \/ "stop" \in errors

\* At every instant, a crash and a halted rollback included: no settings are in
\* place that name an asset which is not (line 604 "asset first, settings
\* second", 725), unless the editor wrote one of the two or the plan gave the
\* rollback no way to withdraw the settings.
PublishedInOrder ==
  \A c, d \in Writes \ touched :
    c < d /\ target[d] = "new" /\ Recoverable(d) => target[c] = "new"

\* A failure whose only report is the abort removed every temporary the engine
\* had registered (lines 800-814).
RegisteredTempsRemoved ==
  pc = "done" /\ errors = {"abort"} =>
    \A c \in staged \cup identified : temp[c] = "none" /\ rtemp[c] = "none"

\* After a STOP the engine changes nothing any more: only the editor may still
\* touch a target, and only lost proof changes a directory (lines 636-640,
\* 725-797).
StopFreezes ==
  [][ "stop" \in errors =>
        /\ UNCHANGED <<temp, rtemp, backup>>
        /\ \A c \in Comps : target'[c] # target[c] => c \in touched' \ touched
        /\ \A d \in Dirs : dir'[d] # dir[d] => dir'[d] = "unsafe" ]_vars

Undoing == pc \in {"rollback", "reread", "unlink", "restage", "restore"}

\* A rollback overwrites or removes an edit only if the edit came after the
\* re-read that compares the hash (lines 732-742).
EarlyEditsSurvive ==
  [][ \A c \in Comps :
        Undoing /\ target[c] = "edit" /\ target'[c] # "edit" => c \in late ]_vars

\* What a run has still to do: the part of runTransaction it is in, the entries
\* that part has left, and the calls left for the entry it is at.
Chapter ==
  CASE pc = "preflight" -> 6
    [] pc = "containers" -> 5
    [] pc \in {"stage", "backup", "write", "settle", "identify"} -> 4
    [] pc \in {"commit", "rename", "confirm"} -> 3
    [] Undoing -> 2
    [] pc = "close" -> 1
    [] OTHER -> 0

Ahead(n) == IF cur <= n THEN n + 1 - cur ELSE 0
Left ==
  CASE Chapter = 6 -> Ahead(NumAncestors)
    [] Chapter = 5 -> Ahead(NumDirs)
    [] Chapter = 4 -> Ahead(NumComps)
    [] Chapter = 3 -> Cardinality(staged)
    [] Chapter = 2 ->
         Cardinality(undo) + Cardinality(staged) + Cardinality(created)
    [] OTHER -> Cardinality(held)

Due ==
  CASE pc = "stage" -> Candidates + 5
    [] pc = "backup" -> Candidates - tries + 4
    [] pc \in {"write", "confirm", "rollback"} -> 3
    [] pc \in {"settle", "commit", "reread"} -> 2
    [] pc \in {"identify", "rename", "unlink", "restage"} -> 1
    [] OTHER -> 0

Spends ==
  \/ Chapter' < Chapter
  \/ /\ Chapter' = Chapter
     /\ Left' < Left \/ (Left' = Left /\ Due' < Due)

\* No retry, undo or clean-up runs for ever: every call of the engine leaves
\* less to do, and nothing the world does ever adds to it (lines 604-656,
\* 682-799).
EveryStepSpends ==
  [][ /\ Step => Spends
      /\ World => Spends \/ UNCHANGED <<Chapter, Left, Due>> ]_vars

\* The engine always returns, whatever the adapter refuses.
Terminates == <>(pc \in {"done", "crashed"})

-----------------------------------------------------------------------------
(* The abstract promise this engine implements.                             *)

jobOf == [c \in Comps |-> IF ~needsWrite(c) THEN "skip"
                          ELSE IF Recoverable(c) THEN "write" ELSE "final"]

\* A target the editor changed is theirs from then on, renamed over or not.
slotOf == [c \in Comps |-> IF c \in touched THEN "theirs"
                           ELSE IF target[c] = "new" THEN "after" ELSE "before"]

phaseOf ==
  IF "stop" \in errors \/ pc = "crashed" THEN "manual"
  ELSE IF "abort" \in errors
         THEN IF pc = "done" THEN "restored" ELSE "backward"
         ELSE IF pc = "done" THEN "installed" ELSE "forward"

Promise == INSTANCE AllOrNothing
             WITH Slots <- Comps, job <- jobOf, slot <- slotOf, phase <- phaseOf

\* runTransaction publishes in order and ends installed, restored or with a
\* STOP, and it does end.
ImplementsAllOrNothing == Promise!Spec /\ Terminates
=============================================================================
