-------------------------- MODULE PluginReplacement --------------------------
(***************************************************************************)
(* Publication of a plugin over an installed one: several installers of    *)
(* one name and somebody who uninstalls it, all on one directory.          *)
(*   src/src/lib/plugin-replacement.ts   publishPluginReplacement          *)
(*   src/src/lib/plugin.ts               removePlugin                      *)
(*                                                                         *)
(* A directory is named by what it is: the version installed before        *)
(* ("old"), the version an installer staged (its own name) or something    *)
(* that is not a plugin ("foreign").                                       *)
(* A call may stop for ever at any step: that is what a crash of it leaves.*)
(* Slip... definitions are plausible bugs in the definition after them.    *)
(***************************************************************************)
EXTENDS Integers, FiniteSets

CONSTANTS
  Installers,   \* concurrent calls of publishPluginReplacement
  Removers      \* concurrent calls of removePlugin

Dest == <<"shared", "dest">>
Stage(i) == <<i, "stage">>
Backup(i) == <<i, "backup">>
Places == {Dest} \cup (Installers \X {"stage", "backup"})
Things == Installers \cup {"old", "foreign"}
Plugins == Things \ {"foreign"}

ASSUME PluginAssumption ==
  /\ Installers \cap {"old", "foreign", "none", "shared"} = {}
  /\ Installers \cap Removers = {}

VARIABLES
  disk,       \* what is at each place, or "none"
  pc,         \* where each call is
  prior,      \* what an installer found at the destination
  kind,       \* the move an installer is at: "backup", "promote", "restore"
  source,     \* what it saw at the source after the move
  rejected,   \* installers whose move threw
  result,     \* "none", "success", "failure"
  cleanup,    \* "complete" or "manual-review"
  published,  \* history: what has been at the destination
  erased,     \* history: what a clean-up of an installer deleted
  removed     \* history: what removePlugin deleted

install == <<prior, kind, source, rejected>>
report == <<result, cleanup>>
vars == <<disk, pc, install, report, published, erased, removed>>

Init ==
  /\ \E x \in {"old", "foreign", "none"} :
       /\ disk = [p \in Places |-> IF p = Dest THEN x ELSE "none"]
       /\ published = {x} \ {"none"}
  /\ pc = [a \in Installers \cup Removers |-> "idle"]
  /\ prior = [i \in Installers |-> "none"]
  /\ kind = [i \in Installers |-> "none"]
  /\ source = [i \in Installers |-> "none"]
  /\ rejected = {}
  /\ result = [i \in Installers |-> "none"]
  /\ cleanup = [i \in Installers |-> "complete"]
  /\ erased = {} /\ removed = {}

Goto(a, point) == pc' = [pc EXCEPT ![a] = point]

Return(i, how, cleaned) ==
  /\ Goto(i, "returned")
  /\ result' = [result EXCEPT ![i] = how]
  /\ cleanup' = [cleanup EXCEPT ![i] = cleaned]

\* Once there is a workspace, a failure leaves it for a manual recovery.
Fail(i) == Return(i, "failure", "manual-review")

-----------------------------------------------------------------------------
(* Preparing the new version.                                               *)

Managed == disk[Dest] # "foreign"

\* A foreign destination, or an unsafe name or root, is refused.
ReadPrior(i) ==
  /\ pc[i] = "idle"
  /\ \/ /\ Managed
        /\ prior' = [prior EXCEPT ![i] = disk[Dest]]
        /\ Goto(i, "stage") /\ UNCHANGED report
     \/ Return(i, "failure", "complete") /\ UNCHANGED prior
  /\ UNCHANGED <<disk, kind, source, rejected, published, erased, removed>>

\* prepare() fills the stage; a stage that is not a whole plugin fails.
StageNew(i) ==
  /\ pc[i] = "stage"
  /\ disk' = [disk EXCEPT ![Stage(i)] = i]
  /\ \/ Goto(i, "recheck") /\ UNCHANGED report
     \/ Fail(i)
  /\ UNCHANGED <<install, published, erased, removed>>

\* With nothing to back up, the promotion is the first move.
Recheck(i) ==
  /\ pc[i] = "recheck"
  /\ \/ /\ disk[Dest] = prior[i]
        /\ kind' = [kind EXCEPT ![i] = IF prior[i] = "none" THEN "promote"
                                                            ELSE "backup"]
        /\ Goto(i, "source") /\ UNCHANGED report
     \/ Fail(i) /\ UNCHANGED kind
  /\ UNCHANGED <<disk, prior, source, rejected, published, erased, removed>>

-----------------------------------------------------------------------------
(* One move: compare, rename, read back.                                    *)

From(i) == CASE kind[i] = "backup" -> Dest
             [] kind[i] = "promote" -> Stage(i)
             [] kind[i] = "restore" -> Backup(i)
To(i) == IF kind[i] = "backup" THEN Backup(i) ELSE Dest
Moved(i) == IF kind[i] = "promote" THEN i ELSE prior[i]

NextMove(i, k) ==
  /\ kind' = [kind EXCEPT ![i] = k] /\ Goto(i, "source")
  /\ rejected' = rejected \ {i}
  /\ UNCHANGED report

\* Slip: what the move did is not looked at.
SlipApplied(mutation) == TRUE
Applied(mutation) == mutation = "applied"

\* What follows a move that was judged "applied", "not-applied" or "unknown".
Judge(i, mutation) ==
  \/ /\ kind[i] = "backup" /\ Applied(mutation)
     /\ IF i \in rejected THEN NextMove(i, "restore") ELSE NextMove(i, "promote")
  \/ /\ kind[i] = "promote" /\ Applied(mutation)
     /\ Goto(i, "clean") /\ UNCHANGED <<kind, rejected, report>>
  \/ /\ kind[i] = "promote" /\ mutation = "not-applied" /\ prior[i] # "none"
     /\ Goto(i, "gap") /\ UNCHANGED <<kind, rejected, report>>
  \/ /\ \/ kind[i] = "backup" /\ ~Applied(mutation)
        \/ kind[i] = "promote" /\ mutation = "unknown"
        \/ kind[i] = "promote" /\ mutation = "not-applied" /\ prior[i] = "none"
        \/ kind[i] = "restore"
     /\ Fail(i) /\ UNCHANGED <<kind, rejected>>

\* A failing lstat makes a move unknown at whatever point it is.
LstatFails(i) ==
  /\ pc[i] \in {"source", "target", "readSource", "readTarget"}
  /\ Judge(i, "unknown")
  /\ UNCHANGED <<disk, prior, source, published, erased, removed>>

CompareSource(i) ==
  /\ pc[i] = "source"
  /\ IF disk[From(i)] = Moved(i)
       THEN Goto(i, "target") /\ UNCHANGED <<kind, rejected, report>>
       ELSE Judge(i, "unknown")
  /\ UNCHANGED <<disk, prior, source, published, erased, removed>>

CompareTarget(i) ==
  /\ pc[i] = "target"
  /\ IF disk[To(i)] = "none"
       THEN Goto(i, "rename") /\ UNCHANGED <<kind, rejected, report>>
       ELSE Judge(i, "not-applied")
  /\ UNCHANGED <<disk, prior, source, published, erased, removed>>

\* A rename takes whatever is at the source by then, and never replaces a
\* directory with something in it. It may throw although it was done.
Rename(i) ==
  /\ pc[i] = "rename"
  /\ \/ /\ disk[From(i)] # "none" /\ disk[To(i)] = "none"
        /\ disk' = [disk EXCEPT ![From(i)] = "none", ![To(i)] = disk[From(i)]]
        /\ published' = IF To(i) = Dest THEN published \cup {disk[From(i)]}
                                        ELSE published
        /\ rejected' \in {rejected, rejected \cup {i}}
     \/ rejected' = rejected \cup {i} /\ UNCHANGED <<disk, published>>
  /\ Goto(i, "readSource")
  /\ UNCHANGED <<prior, kind, source, report, erased, removed>>

ReadSource(i) ==
  /\ pc[i] = "readSource"
  /\ source' = [source EXCEPT ![i] = disk[From(i)]]
  /\ Goto(i, "readTarget")
  /\ UNCHANGED <<disk, prior, kind, rejected, report, published, erased, removed>>

Mutation(i) ==
  IF source[i] = "none" /\ disk[To(i)] = Moved(i) THEN "applied"
  ELSE IF source[i] = Moved(i) /\ disk[To(i)] = "none" THEN "not-applied"
  ELSE "unknown"

ReadTarget(i) ==
  /\ pc[i] = "readTarget"
  /\ Judge(i, Mutation(i))
  /\ UNCHANGED <<disk, prior, source, published, erased, removed>>

\* Slip: the workspace is cleaned up after a failed promotion, too.
SlipGap(i) ==
  /\ pc[i] = "gap"
  /\ Goto(i, "remove")
  /\ UNCHANGED <<disk, install, report, published, erased, removed>>

\* The promotion did not happen: the old version goes back into a free place.
Gap(i) ==
  /\ pc[i] = "gap"
  /\ \/ disk[Dest] = "none" /\ NextMove(i, "restore")
     \/ Fail(i) /\ UNCHANGED <<kind, rejected>>
  /\ UNCHANGED <<disk, prior, source, published, erased, removed>>

-----------------------------------------------------------------------------
(* The clean-up of a publication that was read back.                        *)

Cleanable(i) ==
  /\ prior[i] # "none" => disk[Backup(i)] = prior[i]
  /\ disk[Stage(i)] = "none"

Clean(i) ==
  /\ pc[i] = "clean"
  /\ \/ Cleanable(i) /\ Goto(i, "remove") /\ UNCHANGED report
     \/ Return(i, "success", "manual-review")
  /\ UNCHANGED <<disk, install, published, erased, removed>>

\* Slip: an error of the removal is swallowed.
SlipSettle(i, left) == Return(i, "success", "complete")
Settle(i, left) ==
  Return(i, "success", IF left THEN "manual-review" ELSE "complete")

\* remove() takes the workspace with the backup, or fails, with or without it.
RemoveWorkspace(i) ==
  /\ pc[i] = "remove"
  /\ \/ /\ disk' = [disk EXCEPT ![Backup(i)] = "none", ![Stage(i)] = "none"]
        /\ erased' = erased \cup ({disk[Backup(i)], disk[Stage(i)]} \ {"none"})
        /\ Settle(i, FALSE) \/ Settle(i, TRUE)
     \/ Settle(i, TRUE) /\ UNCHANGED <<disk, erased>>
  /\ UNCHANGED <<install, published, removed>>

-----------------------------------------------------------------------------
(* The others.                                                              *)

FindInstalled(u) ==
  /\ pc[u] = "idle"
  /\ Goto(u, IF disk[Dest] = "none" THEN "returned" ELSE "remove")
  /\ UNCHANGED <<disk, install, report, published, erased, removed>>

\* fs.remove deletes whatever has the name by then.
RemoveInstalled(u) ==
  /\ pc[u] = "remove"
  /\ disk' = [disk EXCEPT ![Dest] = "none"]
  /\ removed' = removed \cup ({disk[Dest]} \ {"none"})
  /\ Goto(u, "returned")
  /\ UNCHANGED <<install, report, published, erased>>

\* Something that is no plugin turns up at the destination; once.
Intrude ==
  /\ "foreign" \notin published /\ disk[Dest] = "none"
  /\ disk' = [disk EXCEPT ![Dest] = "foreign"]
  /\ published' = published \cup {"foreign"}
  /\ UNCHANGED <<pc, install, report, erased, removed>>

Next ==
  \/ \E i \in Installers :
       \/ ReadPrior(i) \/ StageNew(i) \/ Recheck(i)
       \/ CompareSource(i) \/ CompareTarget(i) \/ Rename(i)
       \/ ReadSource(i) \/ ReadTarget(i) \/ LstatFails(i) \/ Gap(i)
       \/ Clean(i) \/ RemoveWorkspace(i)
  \/ \E u \in Removers : FindInstalled(u) \/ RemoveInstalled(u)
  \/ Intrude

Spec == Init /\ [][Next]_vars
-----------------------------------------------------------------------------
(* Properties.                                                              *)

Held == {disk[p] : p \in Places}
BackedUpElsewhere(i, x) == \E j \in Installers \ {i} : disk[Backup(j)] = x

\* Types, and an identity is in one place only.
TypeOK ==
  /\ disk \in [Places -> Things \cup {"none"}]
  /\ \A p, q \in Places : disk[p] = disk[q] /\ disk[p] # "none" => p = q
  /\ pc \in [Installers \cup Removers ->
       {"idle", "stage", "recheck", "source", "target", "rename", "readSource",
        "readTarget", "gap", "clean", "remove", "returned"}]
  /\ prior \in [Installers -> Plugins \cup {"none"}]
  /\ kind \in [Installers -> {"none", "backup", "promote", "restore"}]
  /\ source \in [Installers -> Things \cup {"none"}]
  /\ rejected \subseteq Installers
  /\ result \in [Installers -> {"none", "success", "failure"}]
  /\ cleanup \in [Installers -> {"complete", "manual-review"}]
  /\ published \subseteq Things /\ erased \subseteq Things
  /\ removed \subseteq Things

\* A version that was installed is deleted by an installer only if that
\* installer took it as the one to replace and its own version was published
\* (plugin-replacement.ts:176-184); in any other case it is still on the disk,
\* whichever moves failed, collided or were cut off by a crash.
NothingLost ==
  /\ \A x \in published \ removed :
       x \in Held \/ \E i \in Installers : prior[i] = x /\ i \in published
  /\ \A x \in erased : \E i \in Installers : prior[i] = x /\ i \in published

\* A success means the new version was published, and that only somebody else
\* has taken it away since (plugin-replacement.ts:162-201).
SuccessIsPublished ==
  \A i \in Installers : result[i] = "success" =>
    \/ disk[Dest] = i
    \/ i \in published /\ (i \in removed \cup erased \/ BackedUpElsewhere(i, i))

\* A failure loses nothing: what the installer found is at the destination, or in
\* the backup the result names, unless somebody else took it
\* (plugin-replacement.ts:88-93, 151-174).
FailureIsRecoverable ==
  \A i \in Installers : result[i] = "failure" /\ prior[i] # "none" =>
    \/ disk[Dest] = prior[i]
    \/ disk[Backup(i)] = prior[i] /\ cleanup[i] = "manual-review"
    \/ prior[i] \in removed \cup erased \/ BackedUpElsewhere(i, prior[i])

\* Two installers never both succeed in replacing the same installation; where
\* both found none, somebody took one's version away in between
\* (plugin-replacement.ts:148-150, 101-104).
NoLostUpdate ==
  \A i, j \in Installers :
    i # j /\ result[i] = "success" /\ result[j] = "success"
      /\ prior[i] = prior[j] =>
        /\ prior[i] = "none"
        /\ \E x \in {i, j} : x \in removed \cup erased \/ BackedUpElsewhere(x, x)

\* A result that reports a complete clean-up leaves no workspace behind; one
\* that leaves something says so (plugin-replacement.ts:88-93, 176-195).
CompleteMeansClean ==
  \A i \in Installers : pc[i] = "returned" /\ cleanup[i] = "complete" =>
    disk[Stage(i)] = "none" /\ disk[Backup(i)] = "none"

\* Whatever the installer returns, its result tells what happened.
OutcomeIsTrue ==
  TypeOK /\ SuccessIsPublished /\ FailureIsRecoverable /\ CompleteMeansClean
=============================================================================
