----------------------------- MODULE Preparation -----------------------------
(***************************************************************************)
(* Six-file preparation: executions and revocations that compete for the   *)
(* single use of an approval, the pinned worker each execution runs behind *)
(* a pipe, and the clean-up of what a failed worker left behind.           *)
(*   src/src/lib/preparation-execute.ts        the command's entry         *)
(*   src/src/lib/preparation-executor.ts       spawn, protocol, clean-up   *)
(*   src/src/lib/preparation-authorization.ts  the terminal ledger         *)
(*   src/src/lib/preparation-production.ts     revocation                  *)
(*   src/assets/preparation-worker.c           the worker                  *)
(*                                                                         *)
(* An inode is named by who made it: a run, or "other" for the operator.   *)
(* Executions and revocations are separate processes sharing a disk.       *)
(* Slip... definitions are plausible bugs in the definition after them.    *)
(***************************************************************************)
EXTENDS Integers, FiniteSets, Sequences

CONSTANTS
  Runs,         \* executions of the command
  Revokers,     \* runs of approval-revoke
  Nonces,       \* approvals
  NumFiles,     \* files of the prepared set (OUTPUTS, six in the code)
  Assignments   \* which approval each execution and revocation presents

Files == 1..NumFiles
Makers == Runs \cup {"other"}

ASSUME PreparationAssumption ==
  /\ NumFiles \in Nat \ {0}
  /\ Assignments \subseteq [Runs \cup Revokers -> Nonces]
  /\ Makers \cap {"none", "absent", "link"} = {} /\ "other" \notin Runs
  /\ Runs \cap Revokers = {}

VARIABLES
  nonce,      \* the approval each process presents
  terminal,   \* <nonce>.terminal: "none", "burnt", "consumed" or "revoked"
  destDir,    \* what is at the destination: "absent", "link" or a maker
  file,       \* the maker of each file in it, or "none"
  full,       \* the files whose bytes are complete
  worker,     \* where each worker is; "none" before the spawn, then "dead"
  step,       \* the file each worker is at
  workerDir,  \* the directory each worker opened
  exitOk,     \* workers that exited with code 0
  pipe,       \* the lines each worker printed and its executor has not read
  pc,         \* where each process is
  aborted,    \* executions that killed their worker, or died
  ready, validated, done,  \* protocol flags of each execution
  recordedDir, records,    \* the identities it was told
  todo,       \* files still to inspect, or to remove
  result,     \* "none", "prepared", "denied"; "revoked" for a revocation
  cleanup,    \* "complete" or "preserved"
  meddled,    \* history: the operator has touched the destination
  window      \* history: runs caught between a check and its use

ledger == <<nonce, terminal>>
destination == <<destDir, file, full>>
workers == <<worker, step, workerDir, exitOk>>
protocol == <<ready, validated, done, recordedDir, records>>
outcome == <<result, cleanup>>
history == <<meddled, window>>
vars == <<ledger, destination, workers, pipe, pc, aborted, protocol, todo,
          outcome, history>>

Least(S) == CHOOSE s \in S : \A t \in S : s <= t

Init ==
  /\ nonce \in Assignments
  /\ terminal = [n \in Nonces |-> "none"]
  /\ destDir \in {"absent", "link", "other"}
  /\ file = [f \in Files |-> "none"] /\ full = {}
  /\ worker = [r \in Runs |-> "none"]
  /\ step = [r \in Runs |-> 1]
  /\ workerDir = [r \in Runs |-> "none"]
  /\ exitOk = {}
  /\ pipe = [r \in Runs |-> <<>>]
  /\ pc = [p \in Runs \cup Revokers |-> "idle"]
  /\ aborted = {} /\ ready = {} /\ validated = {} /\ done = {}
  /\ recordedDir = [r \in Runs |-> "none"]
  /\ records = [r \in Runs |-> {}]
  /\ todo = [r \in Runs |-> {}]
  /\ result = [p \in Runs \cup Revokers |-> "none"]
  /\ cleanup = [r \in Runs |-> "complete"]
  /\ meddled = FALSE /\ window = {}

Goto(p, point) == pc' = [pc EXCEPT ![p] = point]

Finish(p, how) ==
  /\ Goto(p, "returned")
  /\ result' = [result EXCEPT ![p] = how]

-----------------------------------------------------------------------------
(* The ledger: consume and revoke compete for one exclusive file.           *)

Usable(p) == terminal[nonce[p]] = "none"

\* Slip: the file is opened without O_EXCL.
SlipMark(p, event) ==
  /\ terminal' = [terminal EXCEPT ![nonce[p]] = event]

\* #terminal() when it succeeds; the file exists from its creation on.
Mark(p, event) ==
  /\ Usable(p)
  /\ terminal' = [terminal EXCEPT ![nonce[p]] = event]

\* #terminal() when it denies: expired, refused, or failed after the creation,
\* which burns the approval.
MarkRefused(p) ==
  \/ UNCHANGED terminal
  \/ Usable(p) /\ terminal' = [terminal EXCEPT ![nonce[p]] = "burnt"]

\* inspectPreparationApprovalRevocation: verify, then revoke.
RevokerVerify(v) ==
  /\ pc[v] = "idle"
  /\ \/ Usable(v) /\ Goto(v, "verified") /\ UNCHANGED result
     \/ Finish(v, "denied")
  /\ UNCHANGED <<ledger, destination, workers, pipe, aborted, protocol, todo,
                 cleanup, history>>

Revoke(v) ==
  /\ pc[v] = "verified"
  /\ \/ Mark(v, "revoked") /\ Finish(v, "revoked")
     \/ MarkRefused(v) /\ Finish(v, "denied")
  /\ UNCHANGED <<nonce, destination, workers, pipe, aborted, protocol, todo,
                 cleanup, history>>

-----------------------------------------------------------------------------
(* The execution up to the spawn.                                           *)

\* destinationPresent() takes a symbolic link for an absent destination.
CheckDestination(r) ==
  /\ pc[r] = "idle"
  /\ IF destDir \notin {"absent", "link"}
       THEN Finish(r, "denied")
       ELSE Goto(r, "checked") /\ UNCHANGED result
  /\ UNCHANGED <<ledger, destination, workers, pipe, aborted, protocol, todo,
                 cleanup, history>>

\* verify(): anything but a valid, unexpired approval without a terminal denies.
Verify(r) ==
  /\ pc[r] = "checked"
  /\ Goto(r, "cleanup") \/ (Usable(r) /\ Goto(r, "verified"))
  /\ UNCHANGED <<ledger, destination, workers, pipe, aborted, protocol, todo,
                 outcome, history>>

\* The launcher is measured again and the inputs are frozen before the spawn.
Spawn(r) ==
  /\ pc[r] = "verified"
  /\ \/ Goto(r, "cleanup") /\ UNCHANGED worker
     \/ Goto(r, "running") /\ worker' = [worker EXCEPT ![r] = "boot"]
  /\ UNCHANGED <<ledger, destination, step, workerDir, exitOk, pipe, aborted,
                 protocol, todo, outcome, history>>

-----------------------------------------------------------------------------
(* The executor's side of the pipe.                                         *)

Kill(r) == aborted' = aborted \cup {r}

\* The line at the head of the pipe; once aborted, lines are dropped.
Reads(r, kind) ==
  /\ pc[r] = "running" /\ pipe[r] # <<>>
  /\ r \notin aborted /\ Head(pipe[r]).kind = kind
  /\ pipe' = [pipe EXCEPT ![r] = Tail(@)]

DropLine(r) ==
  /\ pc[r] = "running" /\ pipe[r] # <<>> /\ r \in aborted
  /\ pipe' = [pipe EXCEPT ![r] = Tail(@)]
  /\ UNCHANGED <<ledger, destination, workers, pc, aborted, protocol, todo,
                 outcome, history>>

\* Slip: the worker is let go although the approval was refused.
SlipConsume(r) == Mark(r, "consumed") \/ MarkRefused(r)
Consume(r) == Mark(r, "consumed")

\* READY: the directory is proved again, the approval consumed, and only then
\* the worker gets its "G".
ReadReady(r) ==
  /\ Reads(r, "READY")
  /\ \/ /\ r \notin ready /\ Consume(r)
        /\ ready' = ready \cup {r} /\ UNCHANGED aborted
     \/ /\ r \notin ready /\ MarkRefused(r)
        /\ Kill(r) /\ UNCHANGED ready
     \/ /\ Kill(r) /\ UNCHANGED <<terminal, ready>>
  /\ UNCHANGED <<nonce, destination, workers, pc, validated, done,
                 recordedDir, records, todo, outcome, history>>

ReadValid(r) ==
  /\ Reads(r, "VALID")
  /\ IF r \in ready /\ r \notin validated
       THEN validated' = validated \cup {r} /\ UNCHANGED aborted
       ELSE Kill(r) /\ UNCHANGED validated
  /\ UNCHANGED <<ledger, destination, workers, pc, ready, done, recordedDir,
                 records, todo, outcome, history>>

ReadDir(r) ==
  /\ Reads(r, "DIR")
  /\ IF r \in validated /\ recordedDir[r] = "none"
       THEN /\ recordedDir' = [recordedDir EXCEPT ![r] = Head(pipe[r]).dir]
            /\ UNCHANGED aborted
       ELSE Kill(r) /\ UNCHANGED recordedDir
  /\ UNCHANGED <<ledger, destination, workers, pc, ready, validated, done,
                 records, todo, outcome, history>>

ReadFile(r) ==
  /\ Reads(r, "FILE")
  /\ IF recordedDir[r] # "none" /\ Head(pipe[r]).index \notin records[r]
       THEN /\ records' = [records EXCEPT ![r] = @ \cup {Head(pipe[r]).index}]
            /\ UNCHANGED aborted
       ELSE Kill(r) /\ UNCHANGED records
  /\ UNCHANGED <<ledger, destination, workers, pc, ready, validated, done,
                 recordedDir, todo, outcome, history>>

ReadDone(r) ==
  /\ Reads(r, "DONE")
  /\ IF records[r] = Files /\ r \notin done
       THEN done' = done \cup {r} /\ UNCHANGED aborted
       ELSE Kill(r) /\ UNCHANGED done
  /\ UNCHANGED <<ledger, destination, workers, pc, ready, validated,
                 recordedDir, records, todo, outcome, history>>

\* Slip: the overall timer is dropped when the tests timer should take over.
SlipAbort(r) ==
  /\ pc[r] = "running" /\ r \notin aborted /\ r \notin ready
  /\ Kill(r)
  /\ UNCHANGED <<ledger, destination, workers, pipe, pc, protocol, todo,
                 outcome, history>>

\* The overall or the tests timer, too much output, or a broken stdin.
Abort(r) ==
  /\ pc[r] = "running" /\ r \notin aborted
  /\ Kill(r)
  /\ UNCHANGED <<ledger, destination, workers, pipe, pc, protocol, todo,
                 outcome, history>>

\* Slip: the outcome is settled when the kill is sent, not when the child is
\* gone and its pipe is drained.
SlipGone(r) == r \in aborted \/ (worker[r] = "dead" /\ pipe[r] = <<>>)
Gone(r) == worker[r] = "dead" /\ pipe[r] = <<>>

Succeeded(r) ==
  /\ r \notin aborted /\ r \in exitOk
  /\ r \in ready /\ r \in validated /\ r \in done
  /\ records[r] = Files

\* The close event; an outcome that comes too late is a failure as well.
Close(r) ==
  /\ pc[r] = "running" /\ Gone(r)
  /\ \/ Succeeded(r) /\ Goto(r, "inspect")
     \/ Goto(r, "cleanup")
  /\ UNCHANGED <<ledger, destination, workers, pipe, aborted, protocol, todo,
                 outcome, history>>

-----------------------------------------------------------------------------
(* The inspection of the prepared set.                                      *)

InspectDir(r) ==
  /\ pc[r] = "inspect"
  /\ \/ Goto(r, "cleanup") /\ UNCHANGED todo
     \/ /\ destDir = recordedDir[r] /\ \A f \in Files : file[f] # "none"
        /\ Goto(r, "files") /\ todo' = [todo EXCEPT ![r] = Files]
  /\ UNCHANGED <<ledger, destination, workers, pipe, aborted, protocol,
                 outcome, history>>

\* Files are opened through the directory held since InspectDir.
InspectFile(r) ==
  /\ pc[r] = "files" /\ todo[r] # {}
  /\ LET f == Least(todo[r]) IN
       \/ Goto(r, "cleanup") /\ UNCHANGED todo
       \/ /\ destDir = recordedDir[r] => file[f] = r /\ f \in full
          /\ todo' = [todo EXCEPT ![r] = @ \ {f}] /\ UNCHANGED pc
  /\ UNCHANGED <<ledger, destination, workers, pipe, aborted, protocol,
                 outcome, history>>

Prepared(r) ==
  /\ pc[r] = "files" /\ todo[r] = {}
  /\ Finish(r, "prepared")
  /\ UNCHANGED <<ledger, destination, workers, pipe, aborted, protocol, todo,
                 cleanup, history>>

-----------------------------------------------------------------------------
(* Clean-up by identity; whatever it does not recognise stays.              *)

Preserve(r) ==
  /\ Finish(r, "denied")
  /\ cleanup' = [cleanup EXCEPT ![r] = "preserved"]

\* No directory was recorded: report whether something is there.
CleanupUnrecorded(r) ==
  /\ pc[r] = "cleanup" /\ recordedDir[r] = "none"
  /\ \/ Preserve(r)
     \/ destDir = "absent" /\ Finish(r, "denied") /\ UNCHANGED cleanup
  /\ UNCHANGED <<ledger, destination, workers, pipe, aborted, protocol, todo,
                 history>>

StillRecorded(r) == destDir = recordedDir[r]

CleanupOpen(r) ==
  /\ pc[r] = "cleanup" /\ recordedDir[r] # "none"
  /\ \/ Preserve(r) /\ UNCHANGED todo
     \/ /\ StillRecorded(r)
        /\ Goto(r, "remove") /\ todo' = [todo EXCEPT ![r] = records[r]]
        /\ UNCHANGED outcome
  /\ UNCHANGED <<ledger, destination, workers, pipe, aborted, protocol,
                 history>>

\* Slip: the identity of a file is not compared before it is unlinked.
SlipStillMine(r, f) == TRUE
StillMine(r, f) == destDir = recordedDir[r] => file[f] = r

\* The identity is compared through the held directory, wherever that is now.
CleanupCheck(r) ==
  /\ pc[r] = "remove" /\ todo[r] # {}
  /\ \/ Preserve(r)
     \/ /\ StillMine(r, Least(todo[r]))
        /\ Goto(r, "unlink") /\ UNCHANGED outcome
  /\ UNCHANGED <<ledger, destination, workers, pipe, aborted, protocol, todo,
                 history>>

\* The unlink takes whatever has the name by then.
CleanupUnlink(r) ==
  /\ pc[r] = "unlink"
  /\ LET f == Least(todo[r]) IN
       \/ Preserve(r) /\ UNCHANGED <<destination, todo>>
       \/ /\ IF destDir = recordedDir[r]
               THEN /\ file[f] # "none"
                    /\ file' = [file EXCEPT ![f] = "none"]
                    /\ full' = full \ {f} /\ UNCHANGED destDir
               ELSE UNCHANGED destination
          /\ Goto(r, "remove") /\ todo' = [todo EXCEPT ![r] = @ \ {f}]
          /\ UNCHANGED outcome
  /\ UNCHANGED <<ledger, workers, pipe, aborted, protocol, history>>

\* Nothing else may be in it, and it is still the one at the destination.
CleanupEmpty(r) ==
  /\ pc[r] = "remove" /\ todo[r] = {}
  /\ \/ Preserve(r)
     \/ /\ StillRecorded(r) /\ \A f \in Files : file[f] = "none"
        /\ Goto(r, "rmdir") /\ UNCHANGED outcome
  /\ UNCHANGED <<ledger, destination, workers, pipe, aborted, protocol, todo,
                 history>>

\* Runs for which a change of the destination comes between a check and its use.
Caught == {r \in Runs : pc[r] \in {"unlink", "rmdir"} \/ worker[r] = "open"}

\* rmdir follows the name, and succeeds on an empty directory only.
CleanupRemoveDir(r) ==
  /\ pc[r] = "rmdir"
  /\ \/ Preserve(r) /\ UNCHANGED <<destDir, window>>
     \/ /\ destDir \notin {"absent", "link"}
        /\ \A f \in Files : file[f] = "none"
        /\ destDir' = "absent"
        /\ window' = window \cup (Caught \ {r})
        /\ Finish(r, "denied") /\ UNCHANGED cleanup
  /\ UNCHANGED <<ledger, file, full, workers, pipe, aborted, protocol, todo,
                 meddled>>

-----------------------------------------------------------------------------
(* The worker.                                                              *)

Says(r, kind, dir, index) ==
  pipe' = [pipe EXCEPT ![r] =
             Append(@, [kind |-> kind, dir |-> dir, index |-> index])]

Turn(r, point) == worker' = [worker EXCEPT ![r] = point]
Alive(r) == worker[r] \notin {"none", "dead"}

\* It looks for the destination, reads its inputs and locks itself in.
WorkerReady(r) ==
  /\ worker[r] = "boot" /\ destDir = "absent"
  /\ Turn(r, "wait") /\ Says(r, "READY", "none", 0)
  /\ UNCHANGED <<ledger, destination, step, workerDir, exitOk, pc, aborted,
                 protocol, todo, outcome, history>>

\* Slip: it does not wait for the "G".
SlipLetGo(r) == TRUE
LetGo(r) == r \in ready

WorkerValid(r) ==
  /\ worker[r] = "wait" /\ LetGo(r)
  /\ Turn(r, "make") /\ Says(r, "VALID", "none", 0)
  /\ UNCHANGED <<ledger, destination, step, workerDir, exitOk, pc, aborted,
                 protocol, todo, outcome, history>>

\* Slip: a directory that is already there will do.
SlipMakeDir(r) ==
  IF destDir \in Makers
    THEN UNCHANGED destination
    ELSE destDir' = r /\ file' = [f \in Files |-> "none"] /\ full' = {}

MakeDir(r) ==
  /\ destDir = "absent"
  /\ destDir' = r /\ file' = [f \in Files |-> "none"] /\ full' = {}

WorkerMkdir(r) ==
  /\ worker[r] = "make" /\ MakeDir(r)
  /\ Turn(r, "open")
  /\ UNCHANGED <<ledger, step, workerDir, exitOk, pipe, pc, aborted, protocol,
                 todo, outcome, history>>

\* It reports the directory it opened, by name, after the mkdir.
WorkerDir(r) ==
  /\ worker[r] = "open" /\ destDir \in Makers
  /\ workerDir' = [workerDir EXCEPT ![r] = destDir]
  /\ Turn(r, "create") /\ Says(r, "DIR", destDir, 0)
  /\ UNCHANGED <<ledger, destination, step, exitOk, pc, aborted, protocol,
                 todo, outcome, history>>

WorkerCreate(r) ==
  /\ worker[r] = "create" /\ step[r] <= NumFiles
  /\ IF destDir = workerDir[r]
       THEN /\ file[step[r]] = "none"
            /\ file' = [file EXCEPT ![step[r]] = r]
            /\ UNCHANGED <<destDir, full>>
       ELSE UNCHANGED destination
  /\ Turn(r, "announce")
  /\ UNCHANGED <<ledger, step, workerDir, exitOk, pipe, pc, aborted, protocol,
                 todo, outcome, history>>

WorkerAnnounce(r) ==
  /\ worker[r] = "announce"
  /\ Turn(r, "fill") /\ Says(r, "FILE", "none", step[r])
  /\ UNCHANGED <<ledger, destination, step, workerDir, exitOk, pc, aborted,
                 protocol, todo, outcome, history>>

\* Slip: the index of the file is not advanced.
SlipWorkerFill(r) ==
  /\ worker[r] = "fill"
  /\ full' = IF destDir = workerDir[r] /\ file[step[r]] = r
               THEN full \cup {step[r]} ELSE full
  /\ Turn(r, "create")
  /\ UNCHANGED <<ledger, destDir, file, step, workerDir, exitOk, pipe, pc,
                 aborted, protocol, todo, outcome, history>>

WorkerFill(r) ==
  /\ worker[r] = "fill"
  /\ full' = IF destDir = workerDir[r] /\ file[step[r]] = r
               THEN full \cup {step[r]} ELSE full
  /\ step' = [step EXCEPT ![r] = @ + 1]
  /\ Turn(r, "create")
  /\ UNCHANGED <<ledger, destDir, file, workerDir, exitOk, pipe, pc, aborted,
                 protocol, todo, outcome, history>>

WorkerDone(r) ==
  /\ worker[r] = "create" /\ step[r] > NumFiles
  /\ Turn(r, "dead") /\ exitOk' = exitOk \cup {r}
  /\ Says(r, "DONE", "none", 0)
  /\ UNCHANGED <<ledger, destination, step, workerDir, pc, aborted, protocol,
                 todo, outcome, history>>

\* Any failing call, failed check or alarm ends it with a non-zero code.
WorkerFails(r) ==
  /\ Alive(r)
  /\ Turn(r, "dead")
  /\ UNCHANGED <<ledger, destination, step, workerDir, exitOk, pipe, pc,
                 aborted, protocol, todo, outcome, history>>

\* SIGKILL to its process group, or --die-with-parent.
WorkerKilled(r) ==
  /\ Alive(r) /\ r \in aborted
  /\ Turn(r, "dead")
  /\ UNCHANGED <<ledger, destination, step, workerDir, exitOk, pipe, pc,
                 aborted, protocol, todo, outcome, history>>

-----------------------------------------------------------------------------
(* The world.                                                               *)

Crash(r) ==
  /\ pc[r] \notin {"idle", "returned", "crashed"}
  /\ Goto(r, "crashed") /\ Kill(r)
  /\ UNCHANGED <<ledger, destination, workers, pipe, protocol, todo, outcome,
                 history>>

\* The operator moves the destination away, puts a directory of their own in its
\* place, or replaces one file; once.
Meddle ==
  /\ ~meddled /\ meddled' = TRUE
  /\ \/ /\ destDir' \in {"absent", "other"} /\ destDir' # destDir
        /\ file' = [f \in Files |-> "none"] /\ full' = {}
     \/ /\ destDir \in Makers
        /\ \E f \in Files : /\ file' = [file EXCEPT ![f] = "other"]
                            /\ full' = full \ {f}
        /\ UNCHANGED destDir
  /\ window' = window \cup Caught
  /\ UNCHANGED <<ledger, workers, pipe, pc, aborted, protocol, todo, outcome>>

Execute(r) ==
  \/ CheckDestination(r) \/ Verify(r) \/ Spawn(r)
  \/ DropLine(r) \/ ReadReady(r) \/ ReadValid(r) \/ ReadDir(r) \/ ReadFile(r)
  \/ ReadDone(r) \/ Abort(r) \/ Close(r)
  \/ InspectDir(r) \/ InspectFile(r) \/ Prepared(r)
  \/ CleanupUnrecorded(r) \/ CleanupOpen(r) \/ CleanupCheck(r)
  \/ CleanupUnlink(r) \/ CleanupEmpty(r) \/ CleanupRemoveDir(r)

Work(r) ==
  \/ WorkerReady(r) \/ WorkerValid(r) \/ WorkerMkdir(r) \/ WorkerDir(r)
  \/ WorkerCreate(r) \/ WorkerAnnounce(r) \/ WorkerFill(r) \/ WorkerDone(r)
  \/ WorkerFails(r)

Next ==
  \/ \E r \in Runs : Execute(r) \/ Work(r) \/ WorkerKilled(r) \/ Crash(r)
  \/ \E v \in Revokers : RevokerVerify(v) \/ Revoke(v)
  \/ Meddle

\* The executor's own steps and its timers happen, and a SIGKILL lands; a worker
\* may stall for ever.
Fairness ==
  \A r \in Runs : WF_vars(pc[r] # "idle" /\ Execute(r)) /\ WF_vars(WorkerKilled(r))

Spec == Init /\ [][Next]_vars /\ Fairness
-----------------------------------------------------------------------------
(* Properties.                                                              *)

Points == {"idle", "checked", "verified", "running", "inspect", "files",
           "cleanup", "remove", "unlink", "rmdir", "returned", "crashed"}
WorkerPoints == {"none", "boot", "wait", "make", "open", "create", "announce",
                 "fill", "dead"}
Lines == [kind : {"READY", "VALID", "DIR", "FILE", "DONE"},
          dir : Makers \cup {"none"}, index : 0..NumFiles]

\* Types, and a worker prints at most its own protocol: three lines, one per
\* file and DONE.
TypeOK ==
  /\ nonce \in Assignments
  /\ terminal \in [Nonces -> {"none", "burnt", "consumed", "revoked"}]
  /\ destDir \in Makers \cup {"absent", "link"}
  /\ file \in [Files -> Makers \cup {"none"}]
  /\ full \subseteq Files
  /\ worker \in [Runs -> WorkerPoints]
  /\ step \in [Runs -> 1..(NumFiles + 1)]
  /\ workerDir \in [Runs -> Makers \cup {"none"}]
  /\ \A r \in Runs : /\ Len(pipe[r]) <= NumFiles + 4
                     /\ \A i \in 1..Len(pipe[r]) : pipe[r][i] \in Lines
  /\ pc \in [Runs \cup Revokers -> Points]
  /\ exitOk \subseteq Runs /\ aborted \subseteq Runs /\ ready \subseteq Runs
  /\ validated \subseteq Runs /\ done \subseteq Runs
  /\ recordedDir \in [Runs -> Makers \cup {"none"}]
  /\ records \in [Runs -> SUBSET Files] /\ todo \in [Runs -> SUBSET Files]
  /\ result \in [Runs \cup Revokers -> {"none", "prepared", "denied", "revoked"}]
  /\ cleanup \in [Runs -> {"complete", "preserved"}]
  /\ meddled \in BOOLEAN /\ window \subseteq Runs

\* An approval lets at most one worker go, ever, in any process, and its
\* terminal says so (authorization.ts: consume and revoke compete for the same
\* exclusive inode; executor.ts:380-384).
SingleUse ==
  \A r \in ready :
    /\ terminal[nonce[r]] = "consumed"
    /\ \A q \in ready : nonce[q] = nonce[r] => q = r

\* A revocation reported to the operator stands: no execution of that approval
\* has let or will let a worker go (docs/preparation-capability.md:19).
RevocationWins ==
  \A v \in Revokers : result[v] = "revoked" =>
    terminal[nonce[v]] = "revoked" /\ \A r \in ready : nonce[r] # nonce[v]

\* Nothing of a run is at the destination before its approval was consumed
\* (executor.ts:372-384, worker.c:152-164).
EffectsNeedApproval ==
  \A r \in Runs : destDir = r \/ (\E f \in Files : file[f] = r) =>
    terminal[nonce[r]] = "consumed"

\* "prepared" means the whole set is there, complete, and it stays whatever the
\* other runs do; the operator's own changes aside (executor.ts:426-466).
PreparedIsWhole ==
  \A r \in Runs : result[r] = "prepared" /\ ~meddled =>
    destDir = r /\ \A f \in Files : file[f] = r /\ f \in full

\* A run denied with its clean-up "complete" has nothing at the destination, and
\* no worker of it is left to put something there (executor.ts:470-508).
DeniedLeavesNothing ==
  \A r \in Runs : result[r] = "denied" /\ cleanup[r] = "complete" =>
    /\ destDir # r /\ \A f \in Files : file[f] # r
    /\ ~Alive(r)

\* A clean-up removes a file or directory somebody else made only if the
\* destination was changed, by the operator or by another run's rmdir, between a
\* comparison of identities and the removal (executor.ts:494-502) or between the
\* worker's mkdir and its open (worker.c:164-167).
RemovesOnlyItsOwn ==
  [][ \A r \in Runs : pc[r] \in {"unlink", "rmdir"} /\ pc'[r] # pc[r]
          /\ r \notin window =>
          /\ \A f \in Files : file'[f] # file[f] => file[f] = r
          /\ destDir' # destDir => destDir = r ]_vars

\* Every execution that starts returns: a stalled worker is killed by a timer,
\* and its close event then settles the outcome (executor.ts:325-343, 412-424).
Returns ==
  \A r \in Runs :
    pc[r] = "checked" ~> (pc[r] \in {"returned", "crashed"})

-----------------------------------------------------------------------------
(* What an execution has left, outermost part first: the chapters of the    *)
(* executor, the worker's points, and in a chapter the lines to read or the *)
(* files to go through.                                                     *)

Chapter(r) ==
  CASE pc[r] = "idle" -> 9
    [] pc[r] = "checked" -> 8
    [] pc[r] = "verified" -> 7
    [] pc[r] = "running" -> 6
    [] pc[r] = "inspect" -> 5
    [] pc[r] = "files" -> 4
    [] pc[r] = "cleanup" -> 3
    [] pc[r] \in {"remove", "unlink"} -> 2
    [] pc[r] = "rmdir" -> 1
    [] OTHER -> 0

FilesLeft(r) == NumFiles + 1 - step[r]
WorkLeft(r) ==
  CASE worker[r] = "boot" -> 3 * NumFiles + 6
    [] worker[r] = "wait" -> 3 * NumFiles + 5
    [] worker[r] = "make" -> 3 * NumFiles + 4
    [] worker[r] = "open" -> 3 * NumFiles + 3
    [] worker[r] = "create" -> 3 * FilesLeft(r) + 2
    [] worker[r] = "announce" -> 3 * FilesLeft(r) + 1
    [] worker[r] = "fill" -> 3 * FilesLeft(r)
    [] OTHER -> 0

Rest(r) ==
  IF pc[r] = "running"
    THEN Len(pipe[r]) + (IF r \in aborted THEN 0 ELSE 1)
    ELSE 2 * Cardinality(todo[r]) + (IF pc[r] = "remove" THEN 1 ELSE 0)

Spends(r) ==
  \/ Chapter(r)' < Chapter(r)
  \/ /\ Chapter(r)' = Chapter(r)
     /\ \/ WorkLeft(r)' < WorkLeft(r)
        \/ WorkLeft(r)' = WorkLeft(r) /\ Rest(r)' < Rest(r)

\* No execution goes round in circles: each of its steps, its worker's too,
\* leaves it less to do, and neither another run, a revocation nor the operator
\* ever adds to it (executor.ts:318-424, 488-507, worker.c:125-200).
EachStepSpends ==
  [][ \A r \in Runs :
        /\ Execute(r) \/ Work(r) \/ WorkerKilled(r) \/ Crash(r) => Spends(r)
        /\ Spends(r) \/ UNCHANGED <<Chapter(r), WorkLeft(r), Rest(r)>> ]_vars

\* An execution never goes round in circles, and it returns.
ExecutionsEnd == EachStepSpends /\ Returns
=============================================================================
