---------------------------- MODULE HookInstall ----------------------------
(***************************************************************************)
(* Installation of the managed git hooks and the migration away from the   *)
(* old core.hooksPath, by `ci init` and `init`, which may run at once.     *)
(*   src/src/commands/ci.ts   installCIHooks, guardHooksPath, backupHook,  *)
(*                            writeHookFile, repairHookMode                *)
(*                                                                         *)
(* A slot of .git/hooks is named by what classifyHookPath makes of it, and *)
(* a regular file the engine cut short is "empty".  Beside the installers  *)
(* a user may change each hook once, in place or by replacing the file.    *)
(* Every call on the disk or to git may fail.                              *)
(* Slip... definitions are plausible bugs in the definition after them.    *)
(***************************************************************************)
EXTENDS Integers, FiniteSets

CONSTANTS
  NumSlots,     \* HOOK_NAMES, in order
  Installers,   \* concurrent calls of installCIHooks
  Candidates,   \* names backupCandidates yields
  Scenes        \* repositories and calls to start from

Slots == 1..NumSlots
Names == 1..Candidates

\* Bytes that are the user's, and everything a slot may be.
Users == {"edited", "foreign", "late"}
Regular == Users \cup {"current", "outdated", "empty"}
Kinds == Regular \cup {"absent", "symlink", "not-a-file"}

Scene == [force : [Installers -> BOOLEAN], active : SUBSET Installers,
          hook : [Slots -> Kinds \ {"late", "empty"}],
          exec : [Slots -> BOOLEAN], linked : SUBSET Slots,
          local : {"unset", "legacy", "other"}, shadow : BOOLEAN,
          unlisted : SUBSET Slots,  \* without an entry in the manifest
          restless : SUBSET Slots,  \* slots a user may change meanwhile
          backup : [Slots -> [Names -> {"free", "old", "link"}]]]

ASSUME HookAssumption ==
  /\ NumSlots \in Nat \ {0} /\ Candidates \in Nat \ {0}
  /\ Scenes \subseteq Scene

VARIABLES
  start,     \* the scene
  hook,      \* what is in each slot
  exec,      \* slots with mode 0755
  inode,     \* which file a slot holds: changes when it is replaced
  linked,    \* slots whose file has another name
  backup,    \* what is under each backup name
  local,     \* core.hooksPath in the local scope
  pc,        \* where each installer is
  slot,      \* the slot it is at
  name,      \* the backup name it is at
  bytes,     \* what it read for the backup
  fd,        \* the file it opened for writing
  foreigners,\* slots its guard found foreign
  done,      \* slots it reports as installed, upgraded or current
  errors,    \* slots it reports an error for
  declined,  \* those it declined for what they held
  mine,      \* history: the bytes the user last left in a slot, or "none"
  touched,   \* history: slots the user changed
  window,    \* history: changed between a classification and the write
  broken     \* history: slots where a write was cut short

disk == <<hook, exec, inode, linked, backup>>
work == <<slot, name, bytes, fd, foreigners>>
report == <<done, errors, declined>>
history == <<mine, touched, window>>
vars == <<start, disk, local, pc, work, report, history, broken>>

Init ==
  /\ start \in Scenes
  /\ hook = start.hook /\ exec = start.exec /\ linked = start.linked
  /\ backup = start.backup /\ local = start.local
  /\ inode = [s \in Slots |-> 0]
  /\ pc = [i \in Installers |->
             IF i \in start.active THEN "guard" ELSE "off"]
  /\ slot = [i \in Installers |-> 1] /\ name = [i \in Installers |-> 1]
  /\ bytes = [i \in Installers |-> "none"] /\ fd = [i \in Installers |-> 0]
  /\ foreigners = [i \in Installers |-> {}]
  /\ done = [i \in Installers |-> {}] /\ errors = [i \in Installers |-> {}]
  /\ declined = [i \in Installers |-> {}]
  /\ mine = [s \in Slots |-> IF hook[s] \in Users THEN hook[s] ELSE "none"]
  /\ touched = {} /\ window = {} /\ broken = {}

Goto(i, point) == pc' = [pc EXCEPT ![i] = point]
WithForce(i) == start.force[i]

\* What classifyHookPath makes of a slot: an emptied file has no marker.
Class(s) == IF hook[s] \in {"late", "empty"} THEN "foreign" ELSE hook[s]

-----------------------------------------------------------------------------
(* guardHooksPath: reads first, one write at the end.                       *)

\* No repository, no directory for the hooks, no manifest.
Unready(i) ==
  /\ pc[i] = "guard" /\ slot[i] = 1
  /\ Goto(i, "refused")
  /\ UNCHANGED <<start, disk, local, work, report, history, broken>>

\* A slot that cannot be read makes the whole call throw; one the manifest
\* does not list is not looked at.
GuardSlot(i) ==
  /\ pc[i] = "guard"
  /\ \/ /\ foreigners' =
              IF Class(slot[i]) = "foreign" /\ slot[i] \notin start.unlisted
              THEN [foreigners EXCEPT ![i] = @ \cup {slot[i]}]
              ELSE foreigners
        /\ IF slot[i] < NumSlots
           THEN slot' = [slot EXCEPT ![i] = @ + 1] /\ UNCHANGED pc
           ELSE slot' = [slot EXCEPT ![i] = 1] /\ Goto(i, "scopes")
     \/ /\ slot[i] \notin start.unlisted
        /\ Goto(i, "threw") /\ UNCHANGED <<slot, foreigners>>
  /\ UNCHANGED <<start, disk, local, name, bytes, fd, report, history, broken>>

Shadowed == start.shadow

\* System, global and worktree scope: a value there, or no answer, refuses.
ReadScopes(i) ==
  /\ pc[i] = "scopes"
  /\ \/ ~Shadowed /\ Goto(i, "local")
     \/ Goto(i, "refused")
  /\ UNCHANGED <<start, disk, local, work, report, history, broken>>

\* Slip: the dormant hooks are not looked at before the migration.
SlipMigrates(i) == TRUE
Migrates(i) == WithForce(i) \/ foreigners[i] = {}

ReadLocal(i) ==
  /\ pc[i] = "local"
  /\ \/ local = "unset" /\ Goto(i, "classify")
     \/ local = "legacy" /\ Migrates(i) /\ Goto(i, "unset")
     \/ Goto(i, "refused")
  /\ UNCHANGED <<start, disk, local, work, report, history, broken>>

\* git fails when the value is gone already, and the call throws.
Unset(i) ==
  /\ pc[i] = "unset"
  /\ \/ local = "legacy" /\ local' = "unset" /\ Goto(i, "classify")
     \/ Goto(i, "threw") /\ UNCHANGED local
  /\ UNCHANGED <<start, disk, work, report, history, broken>>

-----------------------------------------------------------------------------
(* The install loop: one slot after the other, each with its own error.     *)

NextSlot(i) ==
  /\ slot' = [slot EXCEPT ![i] = @ + 1]
  /\ Goto(i, "classify")

\* Slip: a slot that failed is tried again.
SlipFail(i) ==
  /\ errors' = [errors EXCEPT ![i] = @ \cup {slot[i]}]
  /\ Goto(i, "classify") /\ UNCHANGED <<slot, done>>

Fail(i) ==
  /\ errors' = [errors EXCEPT ![i] = @ \cup {slot[i]}]
  /\ NextSlot(i) /\ UNCHANGED done

Succeed(i) ==
  /\ done' = [done EXCEPT ![i] = @ \cup {slot[i]}]
  /\ NextSlot(i) /\ UNCHANGED errors

Kept(i) == Class(slot[i]) \in {"edited", "foreign"} /\ ~WithForce(i)

\* Links and directories are declined even with force.
Decline(i) ==
  /\ pc[i] = "classify" /\ slot[i] \in Slots \ start.unlisted
  /\ Kept(i) \/ Class(slot[i]) \in {"symlink", "not-a-file"}
  /\ declined' = [declined EXCEPT ![i] = @ \cup {slot[i]}]
  /\ Fail(i)
  /\ UNCHANGED <<start, disk, local, name, bytes, fd, foreigners, history,
                 broken>>

Classify(i) ==
  /\ pc[i] = "classify" /\ slot[i] <= NumSlots
  /\ \/ slot[i] \in start.unlisted
     \/ ~Kept(i) /\ Class(slot[i]) \notin {"symlink", "not-a-file"}
  /\ \/ /\ slot[i] \notin start.unlisted
        /\ Goto(i, CASE Class(slot[i]) = "current" -> "repair"
                     [] Class(slot[i]) \in {"edited", "foreign"} -> "read"
                     [] OTHER -> "open")
        /\ UNCHANGED <<slot, done, errors>>
     \/ Fail(i)
  /\ UNCHANGED <<start, disk, local, name, bytes, fd, foreigners, declined,
                 history, broken>>

\* Whatever regular file is there by now gets the mode.
Repair(i) ==
  /\ pc[i] = "repair"
  /\ \/ /\ hook[slot[i]] \in Regular
        /\ exec' = [exec EXCEPT ![slot[i]] = TRUE]
        /\ Succeed(i)
     \/ Fail(i) /\ UNCHANGED exec
  /\ UNCHANGED <<start, hook, inode, linked, backup, local, name, bytes, fd,
                 foreigners, declined, history, broken>>

BackupRead(i) ==
  /\ pc[i] = "read"
  /\ \/ /\ hook[slot[i]] \in Regular
        /\ bytes' = [bytes EXCEPT ![i] = hook[slot[i]]]
        /\ name' = [name EXCEPT ![i] = 1]
        /\ Goto(i, "backup") /\ UNCHANGED <<slot, done, errors>>
     \/ Fail(i) /\ UNCHANGED <<bytes, name>>
  /\ UNCHANGED <<start, disk, local, fd, foreigners, declined, history, broken>>

Under(i) == backup[slot[i]][name[i]]

\* Slip: an earlier backup is written over.
SlipTaken(i) == FALSE
Taken(i) == Under(i) \notin {"free", "link"}

BackupTaken(i) ==
  /\ pc[i] = "backup" /\ name[i] < Candidates /\ Taken(i)
  /\ name' = [name EXCEPT ![i] = @ + 1]
  /\ UNCHANGED <<start, disk, local, pc, slot, bytes, fd, foreigners, report,
                 history, broken>>

\* A link under the name, no name left, or a failed call: the hook stays.
BackupFails(i) ==
  /\ pc[i] = "backup"
  /\ Fail(i)
  /\ UNCHANGED <<start, disk, local, name, bytes, fd, foreigners, declined,
                 history, broken>>

\* The exclusive create settles a race for the name; the bytes may be cut.
BackupWrite(i) ==
  /\ pc[i] = "backup" /\ Under(i) # "link" /\ ~Taken(i)
  /\ \/ /\ backup' = [backup EXCEPT ![slot[i]][name[i]] = bytes[i]]
        /\ Goto(i, "open") /\ UNCHANGED <<slot, done, errors>>
     \/ /\ backup' = [backup EXCEPT ![slot[i]][name[i]] = "empty"]
        /\ Fail(i)
  /\ UNCHANGED <<start, hook, exec, inode, linked, local, name, bytes, fd,
                 foreigners, declined, history, broken>>

\* O_CREAT | O_NOFOLLOW without O_TRUNC, then the count of names.
WriteOpen(i) ==
  /\ pc[i] = "open" /\ hook[slot[i]] \in Regular \cup {"absent"}
  /\ slot[i] \notin linked
  /\ fd' = [fd EXCEPT ![i] = inode[slot[i]]]
  /\ Goto(i, "truncate")
  /\ IF hook[slot[i]] = "absent"
     THEN /\ hook' = [hook EXCEPT ![slot[i]] = "empty"]
          /\ exec' = [exec EXCEPT ![slot[i]] = TRUE]
     ELSE UNCHANGED <<hook, exec>>
  /\ UNCHANGED <<start, inode, linked, backup, local, slot, name, bytes,
                 foreigners, report, history, broken>>

\* A link, a directory, a second name or an error: nothing is truncated.
WriteRefused(i) ==
  /\ pc[i] = "open"
  /\ Fail(i)
  /\ UNCHANGED <<start, disk, local, name, bytes, fd, foreigners, declined,
                 history, broken>>

\* The descriptor is the file that was opened, in the slot or not.
StillThere(i) == inode[slot[i]] = fd[i] /\ hook[slot[i]] \in Regular

WriteTruncate(i) ==
  /\ pc[i] = "truncate"
  /\ hook' = IF StillThere(i) THEN [hook EXCEPT ![slot[i]] = "empty"] ELSE hook
  /\ Goto(i, "fill")
  /\ UNCHANGED <<start, exec, inode, linked, backup, local, work, report,
                 history, broken>>

WriteFill(i) ==
  /\ pc[i] = "fill"
  /\ hook' = IF StillThere(i) THEN [hook EXCEPT ![slot[i]] = "current"]
                              ELSE hook
  /\ Goto(i, "chmod")
  /\ UNCHANGED <<start, exec, inode, linked, backup, local, work, report,
                 history, broken>>

ModeSet(i) == IF StillThere(i) THEN [exec EXCEPT ![slot[i]] = TRUE] ELSE exec

WriteMode(i) ==
  /\ pc[i] = "chmod"
  /\ exec' = ModeSet(i)
  /\ Succeed(i)
  /\ UNCHANGED <<start, hook, inode, linked, backup, local, name, bytes, fd,
                 foreigners, declined, history, broken>>

\* Slip: a write cut short is taken for done.
SlipWriteFails(i) ==
  /\ pc[i] \in {"truncate", "fill", "chmod"}
  /\ broken' = broken \cup {slot[i]}
  /\ Succeed(i)
  /\ UNCHANGED <<start, disk, local, name, bytes, fd, foreigners, declined,
                 history>>

WriteFails(i) ==
  /\ pc[i] \in {"truncate", "fill", "chmod"}
  /\ broken' = broken \cup {slot[i]}
  /\ Fail(i)
  /\ UNCHANGED <<start, disk, local, name, bytes, fd, foreigners, declined,
                 history>>

Return(i) ==
  /\ pc[i] = "classify" /\ slot[i] > NumSlots
  /\ Goto(i, "returned")
  /\ UNCHANGED <<start, disk, local, work, report, history, broken>>

Ended == {"off", "returned", "refused", "threw", "crashed"}
Writing(i, s) == pc[i] \in {"truncate", "fill", "chmod"} /\ slot[i] = s

Crash(i) ==
  /\ pc[i] \notin Ended
  /\ Goto(i, "crashed")
  /\ broken' = broken \cup {s \in Slots : Writing(i, s)}
  /\ UNCHANGED <<start, disk, local, work, report, history>>

-----------------------------------------------------------------------------
(* The user.                                                                *)

\* Slot s was classified by somebody who has not finished writing it.
Judged(s) ==
  \E i \in Installers : /\ slot[i] = s
                        /\ pc[i] \in {"read", "backup", "open", "truncate",
                                      "fill", "chmod"}

Edit(s) ==
  /\ s \in start.restless \ touched /\ \E i \in Installers : pc[i] \notin Ended
  /\ hook' = [hook EXCEPT ![s] = "late"]
  /\ \/ hook[s] \in Regular /\ UNCHANGED <<inode, linked>>
     \/ inode' = [inode EXCEPT ![s] = @ + 1] /\ linked' = linked \ {s}
  /\ mine' = [mine EXCEPT ![s] = "late"]
  /\ touched' = touched \cup {s}
  /\ window' = IF Judged(s) THEN window \cup {s} ELSE window
  /\ UNCHANGED <<start, exec, backup, local, pc, work, report, broken>>

Guard(i) ==
  Unready(i) \/ GuardSlot(i) \/ ReadScopes(i) \/ ReadLocal(i) \/ Unset(i)
Install(i) ==
  \/ Decline(i) \/ Classify(i) \/ Repair(i) \/ Return(i)
  \/ BackupRead(i) \/ BackupTaken(i) \/ BackupFails(i) \/ BackupWrite(i)
  \/ WriteOpen(i) \/ WriteRefused(i) \/ WriteTruncate(i) \/ WriteFill(i)
  \/ WriteMode(i) \/ WriteFails(i)

Next ==
  \/ \E i \in Installers : Guard(i) \/ Install(i) \/ Crash(i)
  \/ \E s \in Slots : Edit(s)

Spec == Init /\ [][Next]_vars

-----------------------------------------------------------------------------
(* Properties.                                                              *)

Points == Ended \cup {"guard", "scopes", "local", "unset", "classify",
                      "repair", "read", "backup", "open", "truncate", "fill",
                      "chmod"}

\* The shape of the state.
TypeOK ==
  /\ start \in Scenes
  /\ hook \in [Slots -> Kinds] /\ exec \in [Slots -> BOOLEAN]
  /\ inode \in [Slots -> 0..1] /\ linked \subseteq Slots
  /\ backup \in [Slots -> [Names -> Regular \cup {"free", "old", "link"}]]
  /\ local \in {"unset", "legacy", "other"}
  /\ pc \in [Installers -> Points]
  /\ slot \in [Installers -> 1..(NumSlots + 1)]
  /\ name \in [Installers -> Names]
  /\ bytes \in [Installers -> Regular \cup {"none"}]
  /\ fd \in [Installers -> 0..1]
  /\ \A i \in Installers :
       /\ foreigners[i] \subseteq Slots
       /\ declined[i] \subseteq errors[i] /\ errors[i] \subseteq Slots
       /\ done[i] \subseteq Slots \ errors[i]
       /\ pc[i] \in Points \ Ended => slot[i] \in Slots \/ pc[i] = "classify"
  /\ mine \in [Slots -> Users \cup {"none"}]
  /\ window \subseteq touched /\ touched \subseteq Slots
  /\ broken \subseteq Slots

\* What the user wrote is in its slot or in a complete backup, at every
\* instant and after a crash, and no installer without force has moved it; a
\* change after the classification is the exception.  A backup that was there
\* is never written to (ci.ts:2548-2569).
UserBytesSurvive ==
  /\ \A s \in Slots :
       mine[s] # "none" /\ s \notin window /\ hook[s] # mine[s] =>
         /\ \E n \in Names : backup[s][n] = mine[s]
         /\ \E i \in start.active : WithForce(i)
  /\ \A s \in Slots, n \in Names :
       start.backup[s][n] # "free" => backup[s][n] = start.backup[s][n]

\* A slot reported as installed, upgraded or current holds the hook of the
\* release, executable, and git looks there; a user, or somebody else's write
\* that failed or goes on, aside (ci.ts:2894-2934, 3098-3150).
InstalledHooksRun ==
  \A i \in Installers : pc[i] = "returned" =>
    \A s \in done[i] \ (touched \cup broken) :
      (\A j \in Installers : ~Writing(j, s)) =>
        hook[s] = "current" /\ exec[s] /\ local = "unset" /\ ~start.shadow

\* The old path is given up only where nothing shadows .git/hooks and no
\* foreign hook the manifest has a slot for was asleep there, or with force
\* (ci.ts:2926-3033).
NeverHalfMigrated ==
  start.local # local =>
    /\ start.local = "legacy" /\ ~start.shadow
    /\ \/ \E i \in start.active : WithForce(i)
       \/ \A s \in Slots \ (touched \cup start.unlisted) :
            start.hook[s] # "foreign"

\* An emptied hook, which git runs and which lets everything pass, is being
\* written, or was left by a call that died or reports an error for it.
TornIsReported ==
  \A s \in Slots :
    /\ hook[s] = "empty" => s \in broken \/ \E i \in Installers : Writing(i, s)
    /\ s \in broken => \E i \in Installers :
                         pc[i] = "crashed" \/ s \in errors[i]

\* A hook runs as it was reported, or the report is an error.
HooksRunOrSaySo == TypeOK /\ InstalledHooksRun /\ TornIsReported
=============================================================================
